------------------------- MODULE SignInMC_proofs -------------------------
(***************************************************************************)
(* For any users, calls, tabs, requests and bounds: a credential is spent  *)
(* once and a revocation keeps the user out but for calls that overlap;    *)
(* the secret and the code of a login go where they belong while its       *)
(* connection changes; the console presents a rotated refresh token, mixes *)
(* two users or keeps a token after a logout only as the definitions say.  *)
(*                                                                         *)
(* Each part has an inductive invariant.  Of sessions: what a call was     *)
(* given is still unspent unless the call was told of an overlap, so a     *)
(* session about to be rotated is one from after the last revocation       *)
(* (KeptOut), the links a request will close are all there are             *)
(* (LinksHeld), the hash a login renews is the first (PasswordsHeld).  Of  *)
(* connections: a row's secret and issuer were saved together (RowsPaired) *)
(* and an exchange knows the row it read (RequestsHeld); the slug of a     *)
(* creation that met no other is free (CreationsHeld).  Of the browser: a  *)
(* refresh token that is about to arrive is nowhere else (FreshHeld), so a *)
(* tab presents each token once (UsesHeld), and a pair is of one user      *)
(* (PairsHeld).                                                            *)
(***************************************************************************)
EXTENDS SignInMC, SequenceTheorems, FiniteSetTheorems, TLAPS

-----------------------------------------------------------------------------
(* A credential that a call was given is there, and it is the user's.      *)
RowsHeld ==
  \A c \in Calls :
    LET k == call[c] IN
    /\ k.pc \in {"refresh", "reuse"}
         => k.row \in DOMAIN session /\ session[k.row].user = k.user
    /\ k.pc = "reset" => k.row \in DOMAIN reset /\ reset[k.row].user = k.user
    /\ k.pc = "state" => k.row \in DOMAIN state
    /\ k.pc = "redeem" => k.row \in DOMAIN code

(* There is room for the session of every call that will open one.         *)
Opening == {c \in Calls : call[c].pc \in {"login", "refresh", "sso"}}

RoomHeld == Len(session) + Cardinality(Opening) <= MaxSessions

(* A session about to be rotated is one from after the last revocation,    *)
(* unless the call was overtaken.                                          *)
KeptOut ==
  /\ S!RevocationHolds
  /\ \A u \in Users : since[u] <= Len(session)
  /\ \A c \in Calls : call[c].pc = "refresh" /\ ~call[c].late
                       => call[c].row > since[call[c].user]

(* A request for a reset link closes every other, unless it was overtaken. *)
LinksHeld ==
  /\ S!OneLinkUnlessOverlap
  /\ \A c \in Calls : call[c].pc = "forgot" /\ ~call[c].late =>
       \A t \in DOMAIN reset :
         reset[t].user = call[c].user /\ ~reset[t].used => t \in call[c].rows

(* A hash that a login renews is the one the account began with, and it is *)
(* still there unless the login was overtaken.                             *)
PasswordsHeld ==
  /\ \A u \in Users : /\ user[u].stale => user[u].pw = 0
                      /\ user[u].pw <= user[u].top
  /\ \A c \in Calls : call[c].pc = "login" /\ call[c].saw.stale =>
       /\ call[c].saw.pw = 0
       /\ ~call[c].late => user[call[c].user].pw = 0

(* A registration knows every URI, unless it was overtaken.                *)
UrisHeld ==
  \A c \in Calls : call[c].pc = "client" /\ ~call[c].late => uris \subseteq call[c].uris

(* What holds of the sessions, the credentials and the calls.              *)
SessionsInv ==
  /\ S!TypeOK /\ RowsHeld /\ RoomHeld /\ S!OneUse /\ KeptOut
  /\ LinksHeld /\ PasswordsHeld /\ UrisHeld

-----------------------------------------------------------------------------
(* What a call is after another one committed: it may be late.             *)
Told(k, q) ==
  /\ q \in S!CallType
  /\ q.pc = k.pc /\ q.user = k.user /\ q.row = k.row /\ q.saw = k.saw
  /\ q.rows = k.rows /\ q.uris = k.uris
  /\ k.late => q.late

(* A call that is not there.                                               *)
LEMMA NoCallType ==
  ASSUME S!SessionsAssumption
  PROVE  S!NoCall \in S!CallType /\ S!NoCall.pc = "idle"
<1> DEFINE u == CHOOSE u \in Users : TRUE
<1>1. u \in Users
  BY DEF S!SessionsAssumption
<1>2. /\ "idle" \in S!Pcs /\ 0 \in 0 .. (MaxSessions + MaxTokens)
      /\ [super |-> FALSE, pw |-> 0, stale |-> FALSE] \in S!SawType
  BY DEF S!Pcs, S!SessionsAssumption, S!SawType
<1> HIDE DEF u
<1>3. S!NoCall = [pc |-> "idle", user |-> u, row |-> 0,
                  saw |-> [super |-> FALSE, pw |-> 0, stale |-> FALSE],
                  rows |-> {}, uris |-> {}, late |-> FALSE]
  BY DEF S!NoCall, u
<1> QED BY <1>1, <1>2, <1>3 DEF S!CallType

(* A call that begins has read the account.                                *)
LEMMA BeginType ==
  ASSUME S!SessionsAssumption, user \in [Users -> S!UserType],
         NEW pc \in S!Pcs, NEW u \in Users, NEW row \in 0 .. (MaxSessions + MaxTokens)
  PROVE  LET k == S!Begin(pc, u, row) IN
         /\ k \in S!CallType
         /\ k.pc = pc /\ k.user = u /\ k.row = row /\ ~k.late
         /\ k.saw.pw = user[u].pw /\ k.saw.stale = user[u].stale
<1>1. S!NoCall \in S!CallType /\ S!NoCall.late = FALSE
  BY NoCallType DEF S!NoCall
<1>2. user[u] \in S!UserType
  OBVIOUS
<1>3. S!Saw(u) \in S!SawType /\ S!Saw(u).pw = user[u].pw /\ S!Saw(u).stale = user[u].stale
  BY <1>2 DEF S!Saw, S!SawType, S!UserType
<1>4. S!Begin(pc, u, row) = [S!NoCall EXCEPT !.pc = pc, !.user = u, !.row = row, !.saw = S!Saw(u)]
  BY DEF S!Begin
<1> QED BY <1>1, <1>3, <1>4 DEF S!CallType

(* What a commit does to the calls.                                        *)
LEMMA OvertakenTold ==
  ASSUME call \in [Calls -> S!CallType], NEW ks \in SUBSET Calls
  PROVE  /\ S!Overtaken(ks) \in [Calls -> S!CallType]
         /\ \A d \in Calls : Told(call[d], S!Overtaken(ks)[d])
         /\ \A d \in ks : S!Overtaken(ks)[d].late
<1>1. ASSUME NEW d \in Calls
      PROVE  /\ S!Overtaken(ks)[d] \in S!CallType
             /\ Told(call[d], S!Overtaken(ks)[d])
             /\ d \in ks => S!Overtaken(ks)[d].late
  <2>1. call[d] \in S!CallType
    OBVIOUS
  <2>2. CASE d \notin ks
    <3>1. S!Overtaken(ks)[d] = call[d]
      BY <2>2 DEF S!Overtaken
    <3> QED BY <2>1, <2>2, <3>1 DEF Told
  <2>3. CASE d \in ks
    <3>1. S!Overtaken(ks)[d] = [call[d] EXCEPT !.late = TRUE]
      BY <2>3 DEF S!Overtaken
    <3> QED BY <2>1, <2>3, <3>1 DEF Told, S!CallType
  <2> QED BY <2>2, <2>3
<1>2. S!Overtaken(ks) = [d \in Calls |-> S!Overtaken(ks)[d]]
  BY DEF S!Overtaken
<1> QED BY <1>1, <1>2, Zenon

(* A call ends, and the others learn of it.                                *)
LEMMA DoneTold ==
  ASSUME S!SessionsAssumption, call \in [Calls -> S!CallType],
         NEW c \in Calls, NEW k \in S!CallType, NEW ks \in SUBSET Calls,
         call' = [S!Overtaken(ks) EXCEPT ![c] = k]
  PROVE  /\ call' \in [Calls -> S!CallType]
         /\ call'[c] = k
         /\ \A d \in Calls \ {c} : Told(call[d], call'[d])
         /\ \A d \in ks \ {c} : call'[d].late
<1> DEFINE o == S!Overtaken(ks)
<1>1. /\ o \in [Calls -> S!CallType] /\ \A d \in Calls : Told(call[d], o[d])
      /\ \A d \in ks : o[d].late
  BY OvertakenTold
<1>2. call' = [o EXCEPT ![c] = k]
  OBVIOUS
<1> HIDE DEF o
<1> QED BY <1>1, <1>2

(* A function on the indices of a sequence is a sequence of the length.    *)
LEMMA Remapped ==
  ASSUME NEW T, NEW s \in Seq(T), NEW t \in [DOMAIN s -> T]
  PROVE  t \in Seq(T) /\ Len(t) = Len(s) /\ DOMAIN t = DOMAIN s
<1>1. Len(s) \in Nat /\ DOMAIN s = 1 .. Len(s)
  BY LenProperties
<1>2. t \in [1 .. Len(s) -> T]
  BY <1>1
<1>3. t \in Seq(T)
  BY <1>1, <1>2 DEF Seq
<1>4. DOMAIN t = 1 .. Len(t) /\ Len(t) \in Nat
  BY <1>3, LenProperties
<1> QED BY <1>1, <1>2, <1>3, <1>4

-----------------------------------------------------------------------------
(* The operators of the modules that an instance brings are those here.    *)
LEMMA SameCard == \A s : S!Cardinality(s) = Cardinality(s)
BY Zenon DEF S!Cardinality, Cardinality, S!IsFiniteSet, IsFiniteSet

(* The parts of the invariant that a step does not touch.                  *)

(* Rows are added, and stay their user's.                                  *)
Grown ==
  /\ DOMAIN session \subseteq DOMAIN session' /\ DOMAIN reset \subseteq DOMAIN reset'
  /\ DOMAIN state \subseteq DOMAIN state' /\ DOMAIN code \subseteq DOMAIN code'
  /\ \A i \in DOMAIN session : session'[i].user = session[i].user
  /\ \A t \in DOMAIN reset : reset'[t].user = reset[t].user

Rowless == {"idle", "login", "sso", "forgot", "mint", "client"}

(* What a call was given stays the user's as long as it is not taken away. *)
LEMMA RowsKept ==
  ASSUME RowsHeld, Grown,
         \A d \in Calls : Told(call[d], call'[d]) \/ call'[d].pc \in Rowless
  PROVE  RowsHeld'
<1> SUFFICES ASSUME NEW c \in Calls, call'[c].pc \notin Rowless
             PROVE  /\ call'[c].pc \in {"refresh", "reuse"}
                         => /\ call'[c].row \in DOMAIN session'
                            /\ session'[call'[c].row].user = call'[c].user
                    /\ call'[c].pc = "reset" => /\ call'[c].row \in DOMAIN reset'
                                                /\ reset'[call'[c].row].user = call'[c].user
                    /\ call'[c].pc = "state" => call'[c].row \in DOMAIN state'
                    /\ call'[c].pc = "redeem" => call'[c].row \in DOMAIN code'
  BY DEF RowsHeld, Rowless
<1>1. Told(call[c], call'[c])
  OBVIOUS
<1> QED BY <1>1 DEF RowsHeld, Grown, Told

(* Whoever holds a credential that was just spent learns of it.            *)
LEMMA OneUseKept ==
  ASSUME S!OneUse, RowsHeld,
         \A d \in Calls : Told(call[d], call'[d]) \/ call'[d].pc \in Rowless \cup {"reuse"},
         \A d \in Calls : call'[d].pc = "refresh" =>
            session'[call'[d].row].live = session[call'[d].row].live \/ call'[d].late,
         \A d \in Calls : call'[d].pc = "reset" =>
            reset'[call'[d].row].used = reset[call'[d].row].used \/ call'[d].late,
         \A d \in Calls : call'[d].pc = "state" =>
            state'[call'[d].row] = state[call'[d].row] \/ call'[d].late,
         \A d \in Calls : call'[d].pc = "redeem" =>
            code'[call'[d].row].used = code[call'[d].row].used \/ call'[d].late
  PROVE  S!OneUse'
<1> SUFFICES ASSUME NEW c \in Calls, S!SpentFor(call[c])' PROVE call'[c].late
  BY DEF S!OneUse
<1>1. call'[c].pc \in {"refresh", "reset", "state", "redeem"}
  BY DEF S!SpentFor
<1>2. Told(call[c], call'[c])
  BY <1>1 DEF Rowless
<1>3. S!SpentFor(call[c]) => call[c].late
  BY DEF S!OneUse
<1>4. call'[c].late \/ S!SpentFor(call[c])
  <2>1. CASE call'[c].pc = "refresh"
    BY <1>2, <2>1 DEF S!SpentFor, Told
  <2>2. CASE call'[c].pc = "reset"
    BY <1>2, <2>2 DEF S!SpentFor, Told
  <2>3. CASE call'[c].pc = "state"
    BY <1>2, <2>3 DEF S!SpentFor, Told
  <2>4. CASE call'[c].pc = "redeem"
    BY <1>2, <2>4 DEF S!SpentFor, Told
  <2> QED BY <1>1, <2>1, <2>2, <2>3, <2>4
<1> QED BY <1>2, <1>3, <1>4 DEF Told

(* No session is opened or revoked.                                        *)
LEMMA KeptOutKept ==
  ASSUME KeptOut, session' = session, since' = since,
         \A d \in Calls : Told(call[d], call'[d]) \/ call'[d].pc # "refresh"
  PROVE  KeptOut'
<1>1. S!RevocationHolds' /\ \A u \in Users : since'[u] <= Len(session')
  BY DEF KeptOut, S!RevocationHolds, S!Earned
<1>2. ASSUME NEW c \in Calls, call'[c].pc = "refresh", ~call'[c].late
      PROVE  call'[c].row > since'[call'[c].user]
  <2>1. Told(call[c], call'[c])
    BY <1>2
  <2> QED BY <1>2, <2>1 DEF KeptOut, Told
<1> QED BY <1>1, <1>2 DEF KeptOut

(* No session is opened, and no call that will open one begins.            *)
LEMMA RoomKept ==
  ASSUME S!SessionsAssumption, RoomHeld, Len(session) \in Nat, Len(session') = Len(session),
         Opening' \subseteq Opening
  PROVE  RoomHeld'
<1>1. IsFiniteSet(Calls) /\ MaxSessions \in Nat
  BY Zenon DEF S!SessionsAssumption, S!IsFiniteSet, IsFiniteSet
<1>2. IsFiniteSet(Opening) /\ IsFiniteSet(Opening')
  BY <1>1, FS_Subset DEF Opening
<1>3. Cardinality(Opening') <= Cardinality(Opening)
  BY <1>2, FS_Subset
<1>4. Cardinality(Opening) \in Nat /\ Cardinality(Opening') \in Nat
  BY <1>2, FS_CardinalityType
<1> QED BY <1>1, <1>3, <1>4 DEF RoomHeld

(* No link is made or made good again.                                     *)
LEMMA LinksKept ==
  ASSUME LinksHeld, DOMAIN reset' = DOMAIN reset,
         \A t \in DOMAIN reset : /\ reset'[t].user = reset[t].user
                                 /\ reset'[t].late = reset[t].late
                                 /\ ~reset'[t].used => ~reset[t].used,
         \A d \in Calls : Told(call[d], call'[d]) \/ call'[d].pc # "forgot"
  PROVE  LinksHeld'
<1>1. S!OneLinkUnlessOverlap'
  BY DEF LinksHeld, S!OneLinkUnlessOverlap
<1>2. ASSUME NEW c \in Calls, call'[c].pc = "forgot", ~call'[c].late, NEW t \in DOMAIN reset',
             reset'[t].user = call'[c].user, ~reset'[t].used
      PROVE  t \in call'[c].rows
  <2>1. Told(call[c], call'[c])
    BY <1>2
  <2>2. /\ call[c].pc = "forgot" /\ ~call[c].late /\ call[c].user = call'[c].user
        /\ call[c].rows = call'[c].rows
    BY <1>2, <2>1 DEF Told
  <2> QED BY <1>2, <2>2 DEF LinksHeld
<1> QED BY <1>1, <1>2 DEF LinksHeld

(* No password is written.                                                 *)
LEMMA PasswordsKept ==
  ASSUME PasswordsHeld, call \in [Calls -> S!CallType],
         \A u \in Users : /\ user'[u].pw = user[u].pw /\ user'[u].top = user[u].top
                          /\ user'[u].stale = user[u].stale,
         \A d \in Calls : Told(call[d], call'[d]) \/ call'[d].pc # "login"
  PROVE  PasswordsHeld'
<1>1. ASSUME NEW c \in Calls, call'[c].pc = "login", call'[c].saw.stale
      PROVE  /\ call'[c].saw.pw = 0
             /\ ~call'[c].late => user'[call'[c].user].pw = 0
  <2>1. Told(call[c], call'[c])
    BY <1>1
  <2>2. /\ call[c].pc = "login" /\ call[c].saw.stale /\ call[c].user = call'[c].user
        /\ call[c].user \in Users /\ call[c].saw.pw = call'[c].saw.pw
        /\ ~call'[c].late => ~call[c].late
    BY <1>1, <2>1 DEF Told, S!CallType
  <2> QED BY <1>1, <2>2 DEF PasswordsHeld
<1>2. \A u \in Users : (user'[u].stale => user'[u].pw = 0) /\ user'[u].pw <= user'[u].top
  BY DEF PasswordsHeld
<1> QED BY <1>1, <1>2 DEF PasswordsHeld

(* No URI is written.                                                      *)
LEMMA UrisKept ==
  ASSUME UrisHeld, uris' = uris,
         \A d \in Calls : Told(call[d], call'[d]) \/ call'[d].pc # "client"
  PROVE  UrisHeld'
<1> SUFFICES ASSUME NEW c \in Calls, call'[c].pc = "client", ~call'[c].late
             PROVE  uris' \subseteq call'[c].uris
  BY DEF UrisHeld
<1>1. Told(call[c], call'[c])
  OBVIOUS
<1> QED BY <1>1 DEF UrisHeld, Told

-----------------------------------------------------------------------------
(* A call reads.  What the call has found is so when it begins.            *)
sessionsRows == <<mix, user, session, reset, code, state, uris, since>>

(* A call that begins was given credentials that are there.                *)
LEMMA BeginStep ==
  ASSUME S!SessionsAssumption, SessionsInv, NEW c \in Calls, NEW k \in S!CallType,
         call[c].pc = "idle", ~k.late, call' = [call EXCEPT ![c] = k], UNCHANGED sessionsRows,
         k.pc \in {"login", "refresh", "sso"} => S!Room,
         k.pc \in {"refresh", "reuse"} => k.row \in DOMAIN session /\ session[k.row].user = k.user,
         k.pc = "refresh" => session[k.row].live,
         k.pc = "reset" => /\ k.row \in DOMAIN reset /\ reset[k.row].user = k.user
                           /\ ~reset[k.row].used,
         k.pc = "state" => k.row \in DOMAIN state /\ state[k.row],
         k.pc = "redeem" => k.row \in DOMAIN code /\ ~code[k.row].used,
         k.pc = "forgot" => \A t \in DOMAIN reset :
           reset[t].user = k.user /\ ~reset[t].used => t \in k.rows,
         k.pc = "login" => k.saw.pw = user[k.user].pw /\ k.saw.stale = user[k.user].stale,
         k.pc = "client" => uris \subseteq k.uris
  PROVE  SessionsInv'
<1>1. call \in [Calls -> S!CallType] /\ k.user \in Users
  BY DEF SessionsInv, S!TypeOK, S!CallType
<1>2. /\ call' \in [Calls -> S!CallType]
      /\ call'[c] = k
      /\ \A d \in Calls \ {c} : call'[d] = call[d]
  BY <1>1
<1>3. S!TypeOK'
  BY <1>2 DEF SessionsInv, S!TypeOK, sessionsRows
<1>4. RowsHeld'
  BY <1>2 DEF SessionsInv, RowsHeld, sessionsRows
<1>5. RoomHeld'
  <2>1. CASE k.pc \in {"login", "refresh", "sso"}
    <3>1. Opening' = Opening \cup {c} /\ c \notin Opening
      BY <1>1, <1>2, <2>1 DEF Opening
    <3>2. IsFiniteSet(Calls) /\ MaxSessions \in Nat
      BY Zenon DEF S!SessionsAssumption, S!IsFiniteSet, IsFiniteSet
    <3>3. IsFiniteSet(Opening) /\ Cardinality(Opening) \in Nat
      BY <3>2, FS_Subset, FS_CardinalityType DEF Opening
    <3>4. Cardinality(Opening') = Cardinality(Opening) + 1
      BY <3>1, <3>3, FS_AddElement
    <3>5. Len(session) + Cardinality(Opening) < MaxSessions
      BY <2>1, SameCard DEF S!Room, Opening
    <3>6. Len(session) \in Nat /\ session' = session
      BY LenProperties DEF SessionsInv, S!TypeOK, sessionsRows
    <3> QED BY <3>2, <3>3, <3>4, <3>5, <3>6 DEF RoomHeld
  <2>2. CASE k.pc \notin {"login", "refresh", "sso"}
    <3>1. Opening' \subseteq Opening
      BY <1>1, <1>2, <2>2 DEF Opening
    <3>2. Len(session) \in Nat /\ Len(session') = Len(session) /\ RoomHeld
      BY LenProperties DEF SessionsInv, S!TypeOK, sessionsRows
    <3> QED BY <3>1, <3>2, RoomKept
  <2> QED BY <2>1, <2>2
<1>6. S!OneUse'
  <2> SUFFICES ASSUME NEW d \in Calls, S!SpentFor(call[d])' PROVE call'[d].late
    BY DEF S!OneUse
  <2>1. d # c
    BY <1>2 DEF S!SpentFor, sessionsRows
  <2>2. call'[d] = call[d]
    BY <1>2, <2>1
  <2>3. S!SpentFor(call[d])
    BY <2>2 DEF S!SpentFor, sessionsRows
  <2> QED BY <2>2, <2>3 DEF SessionsInv, S!OneUse
<1>7. KeptOut'
  <2>1. S!RevocationHolds' /\ \A u \in Users : since'[u] <= Len(session')
    BY DEF SessionsInv, KeptOut, S!RevocationHolds, S!Earned, sessionsRows
  <2>2. k.pc = "refresh" => k.row > since[k.user]
    BY DEF SessionsInv, KeptOut, S!RevocationHolds
  <2>3. \A d \in Calls : call'[d].pc = "refresh" /\ ~call'[d].late
                          => call'[d].row > since'[call'[d].user]
    BY <1>2, <2>2 DEF SessionsInv, KeptOut, sessionsRows
  <2> QED BY <2>1, <2>3 DEF KeptOut
<1>8. LinksHeld'
  BY <1>2 DEF SessionsInv, LinksHeld, S!OneLinkUnlessOverlap, sessionsRows
<1>9. PasswordsHeld'
  <2>1. \A u \in Users : (user'[u].stale => user'[u].pw = 0) /\ user'[u].pw <= user'[u].top
    BY DEF SessionsInv, PasswordsHeld, sessionsRows
  <2>2. k.pc = "login" /\ k.saw.stale => k.saw.pw = 0 /\ user[k.user].pw = 0
    BY <1>1 DEF SessionsInv, PasswordsHeld
  <2>3. \A d \in Calls : call'[d].pc = "login" /\ call'[d].saw.stale =>
          call'[d].saw.pw = 0 /\ (~call'[d].late => user'[call'[d].user].pw = 0)
    BY <1>2, <2>2 DEF SessionsInv, PasswordsHeld, sessionsRows
  <2> QED BY <2>1, <2>3 DEF PasswordsHeld
<1>10. UrisHeld'
  BY <1>2 DEF SessionsInv, UrisHeld, sessionsRows
<1> QED BY <1>3, <1>4, <1>5, <1>6, <1>7, <1>8, <1>9, <1>10 DEF SessionsInv

(* The calls that begin.                                                   *)
LEMMA ReadsStep ==
  ASSUME S!SessionsAssumption, SessionsInv, NEW c \in Calls,
         \/ \E u \in Users : S!LoginRead(c, u) \/ S!ForgotRead(c, u) \/ S!SamlAcs(c, u)
         \/ \E i \in DOMAIN session : S!RefreshRead(c, i)
         \/ \E t \in DOMAIN reset : S!ResetRead(c, t)
         \/ \E k \in DOMAIN state, u \in Users : S!SsoState(c, u, k)
         \/ \E k \in DOMAIN code : S!RedeemRead(c, k)
         \/ S!ClientRead(c)
  PROVE  SessionsInv'
<1>1. /\ user \in [Users -> S!UserType] /\ call \in [Calls -> S!CallType]
      /\ session \in Seq(S!SessionType) /\ Len(session) <= MaxSessions
      /\ reset \in Seq(S!TokenType) /\ Len(reset) <= MaxTokens
      /\ code \in Seq(S!TokenType) /\ Len(code) <= MaxTokens
      /\ state \in Seq(BOOLEAN) /\ Len(state) <= MaxTokens
      /\ uris \subseteq Uris
      /\ MaxSessions \in Nat /\ MaxTokens \in Nat
  BY DEF SessionsInv, S!TypeOK, S!SessionsAssumption
<1>2. /\ DOMAIN session = 1 .. Len(session) /\ Len(session) \in Nat
      /\ DOMAIN reset = 1 .. Len(reset) /\ Len(reset) \in Nat
      /\ DOMAIN code = 1 .. Len(code) /\ Len(code) \in Nat
      /\ DOMAIN state = 1 .. Len(state) /\ Len(state) \in Nat
  BY <1>1, LenProperties
<1>3. {"login", "forgot", "sso", "refresh", "reuse", "reset", "state", "redeem", "client"} \subseteq S!Pcs
  BY DEF S!Pcs
<1>4. ASSUME NEW u \in Users, S!LoginRead(c, u) PROVE SessionsInv'
  <2> DEFINE k == S!Begin("login", u, 0)
  <2>1. /\ k \in S!CallType /\ k.pc = "login" /\ k.user = u /\ ~k.late
        /\ k.saw.pw = user[u].pw /\ k.saw.stale = user[u].stale
    BY <1>1, <1>3, BeginType
  <2>2. call[c].pc = "idle" /\ S!Room /\ call' = [call EXCEPT ![c] = k] /\ UNCHANGED sessionsRows
    BY <1>4 DEF S!LoginRead, S!Starts, sessionsRows
  <2> HIDE DEF k
  <2> QED BY <2>1, <2>2, BeginStep
<1>5. ASSUME NEW u \in Users, S!ForgotRead(c, u) PROVE SessionsInv'
  <2> DEFINE b == S!Begin("forgot", u, 0)
             open == {t \in DOMAIN reset : reset[t].user = u /\ ~reset[t].used}
             k == [b EXCEPT !.rows = open]
  <2>1. b \in S!CallType /\ b.pc = "forgot" /\ b.user = u /\ ~b.late
    BY <1>1, <1>3, BeginType
  <2>2. call[c].pc = "idle" /\ call' = [call EXCEPT ![c] = k] /\ UNCHANGED sessionsRows
    BY <1>5 DEF S!ForgotRead, S!Starts, sessionsRows
  <2>3. open \subseteq 1 .. MaxTokens
    BY <1>1, <1>2
  <2>4. \A t \in DOMAIN reset : reset[t].user = u /\ ~reset[t].used => t \in open
    OBVIOUS
  <2> HIDE DEF open, b
  <2>5. /\ k \in S!CallType /\ k.pc = "forgot" /\ k.user = u /\ ~k.late /\ k.rows = open
    BY <2>1, <2>3 DEF S!CallType
  <2> HIDE DEF k
  <2> QED BY <2>2, <2>4, <2>5, BeginStep
<1>6. ASSUME NEW u \in Users, S!SamlAcs(c, u) PROVE SessionsInv'
  <2> DEFINE k == S!Begin("sso", u, 0)
  <2>1. k \in S!CallType /\ k.pc = "sso" /\ ~k.late
    BY <1>1, <1>3, BeginType
  <2>2. call[c].pc = "idle" /\ S!Room /\ call' = [call EXCEPT ![c] = k] /\ UNCHANGED sessionsRows
    BY <1>6 DEF S!SamlAcs, S!Starts, sessionsRows
  <2> HIDE DEF k
  <2> QED BY <2>1, <2>2, BeginStep
<1>7. ASSUME NEW i \in DOMAIN session, S!RefreshRead(c, i) PROVE SessionsInv'
  <2> DEFINE pc == IF session[i].live THEN "refresh" ELSE "reuse"
             u == session[i].user
             k == S!Begin(pc, u, i)
  <2>1. u \in Users /\ i \in 0 .. (MaxSessions + MaxTokens)
    <3>1. session[i] \in S!SessionType /\ i \in 0 .. (MaxSessions + MaxTokens)
      BY <1>1, <1>2, ElementOfSeq
    <3> QED BY <3>1 DEF S!SessionType
  <2>2. pc \in S!Pcs /\ pc \in {"refresh", "reuse"} /\ (pc = "refresh" => session[i].live)
    BY <1>3
  <2>3. call[c].pc = "idle" /\ S!Room /\ call' = [call EXCEPT ![c] = k] /\ UNCHANGED sessionsRows
    BY <1>7 DEF S!RefreshRead, S!Starts, sessionsRows
  <2>4. session[i].user = u
    OBVIOUS
  <2> HIDE DEF pc, u
  <2>5. k \in S!CallType /\ k.pc = pc /\ k.user = u /\ k.row = i /\ ~k.late
    BY <1>1, <2>1, <2>2, BeginType
  <2> HIDE DEF k
  <2> QED BY <2>2, <2>3, <2>4, <2>5, BeginStep
<1>8. ASSUME NEW t \in DOMAIN reset, S!ResetRead(c, t) PROVE SessionsInv'
  <2> DEFINE k == S!Begin("reset", reset[t].user, t)
  <2>1. reset[t].user \in Users /\ t \in 0 .. (MaxSessions + MaxTokens)
    <3>1. reset[t] \in S!TokenType /\ t \in 0 .. (MaxSessions + MaxTokens)
      BY <1>1, <1>2, ElementOfSeq
    <3> QED BY <3>1 DEF S!TokenType
  <2>2. k \in S!CallType /\ k.pc = "reset" /\ k.user = reset[t].user /\ k.row = t /\ ~k.late
    BY <1>1, <1>3, <2>1, BeginType
  <2>3. /\ call[c].pc = "idle" /\ call' = [call EXCEPT ![c] = k] /\ UNCHANGED sessionsRows
        /\ ~reset[t].used
    BY <1>8 DEF S!ResetRead, S!Starts, sessionsRows
  <2> HIDE DEF k
  <2> QED BY <2>2, <2>3, BeginStep
<1>9. ASSUME NEW j \in DOMAIN state, NEW u \in Users, S!SsoState(c, u, j) PROVE SessionsInv'
  <2> DEFINE k == S!Begin("state", u, j)
  <2>1. j \in 0 .. (MaxSessions + MaxTokens)
    BY <1>1, <1>2
  <2>2. k \in S!CallType /\ k.pc = "state" /\ k.row = j /\ ~k.late
    BY <1>1, <1>3, <2>1, BeginType
  <2>3. /\ call[c].pc = "idle" /\ call' = [call EXCEPT ![c] = k] /\ UNCHANGED sessionsRows
        /\ state[j]
    BY <1>9 DEF S!SsoState, S!Starts, sessionsRows
  <2> HIDE DEF k
  <2> QED BY <2>2, <2>3, BeginStep
<1>10. ASSUME NEW j \in DOMAIN code, S!RedeemRead(c, j) PROVE SessionsInv'
  <2> DEFINE k == S!Begin("redeem", code[j].user, j)
  <2>1. code[j].user \in Users /\ j \in 0 .. (MaxSessions + MaxTokens)
    <3>1. code[j] \in S!TokenType /\ j \in 0 .. (MaxSessions + MaxTokens)
      BY <1>1, <1>2, ElementOfSeq
    <3> QED BY <3>1 DEF S!TokenType
  <2>2. k \in S!CallType /\ k.pc = "redeem" /\ k.row = j /\ ~k.late
    BY <1>1, <1>3, <2>1, BeginType
  <2>3. /\ call[c].pc = "idle" /\ call' = [call EXCEPT ![c] = k] /\ UNCHANGED sessionsRows
        /\ ~code[j].used
    BY <1>10 DEF S!RedeemRead, S!Starts, sessionsRows
  <2> HIDE DEF k
  <2> QED BY <2>2, <2>3, BeginStep
<1>11. ASSUME S!ClientRead(c) PROVE SessionsInv'
  <2> DEFINE u == CHOOSE u \in Users : TRUE
             b == S!Begin("client", u, 0)
             k == [b EXCEPT !.uris = uris]
  <2>1. call[c].pc = "idle" /\ call' = [call EXCEPT ![c] = k] /\ UNCHANGED sessionsRows
    BY <1>11 DEF S!ClientRead, S!Starts, sessionsRows
  <2>2. u \in Users
    BY DEF S!SessionsAssumption
  <2> HIDE DEF u
  <2>3. b \in S!CallType /\ b.pc = "client" /\ ~b.late
    BY <1>1, <1>3, <2>2, BeginType
  <2> HIDE DEF b
  <2>4. k \in S!CallType /\ k.pc = "client" /\ ~k.late /\ k.uris = uris
    BY <1>1, <2>3 DEF S!CallType
  <2> HIDE DEF k
  <2> QED BY <2>1, <2>4, BeginStep
<1> QED BY <1>4, <1>5, <1>6, <1>7, <1>8, <1>9, <1>10, <1>11

-----------------------------------------------------------------------------
(* The row of a session that has ended.                                    *)
LEMMA EndedRow ==
  ASSUME NEW s \in S!SessionType
  PROVE  LET r == [s EXCEPT !.live = FALSE] IN
         /\ r \in S!SessionType /\ ~r.live
         /\ r.user = s.user /\ r.parent = s.parent /\ r.late = s.late
BY DEF S!SessionType

(* A session is opened by the call that made room for it.  A rotated one   *)
(* is closed, and other calls that were given it learn of that.            *)
LEMMA OpenStep ==
  ASSUME S!SessionsAssumption, SessionsInv, NEW c \in Calls,
         call[c].pc \in {"login", "refresh", "sso"},
         NEW sso \in BOOLEAN, NEW super \in BOOLEAN, NEW closed,
         LET parent == IF call[c].pc = "refresh" THEN call[c].row ELSE 0 IN
           /\ closed = IF call[c].pc = "refresh" THEN [session EXCEPT ![parent].live = FALSE]
                                                 ELSE session
           /\ session' = Append(closed, S!NewSession(c, parent, sso, super)),
         call' \in [Calls -> S!CallType], call'[c].pc = "idle",
         \A d \in Calls \ {c} : Told(call[d], call'[d]),
         call[c].pc = "refresh" => \A d \in S!CallsWith("refresh", call[c].row) \ {c} : call'[d].late,
         UNCHANGED <<mix, reset, code, state, uris, since>>
  PROVE  /\ session' \in Seq(S!SessionType) /\ Len(session') <= MaxSessions
         /\ RowsHeld' /\ RoomHeld' /\ S!OneUse' /\ KeptOut' /\ LinksHeld' /\ UrisHeld'
<1> DEFINE k == call[c]
           parent == IF k.pc = "refresh" THEN k.row ELSE 0
           new == S!NewSession(c, parent, sso, super)
           n == Len(session)
<1>1. /\ session \in Seq(S!SessionType) /\ call \in [Calls -> S!CallType]
      /\ k \in S!CallType /\ MaxSessions \in Nat
      /\ RowsHeld /\ RoomHeld /\ S!OneUse /\ KeptOut /\ LinksHeld /\ UrisHeld
      /\ since \in [Users -> 0 .. MaxSessions]
  BY DEF SessionsInv, S!TypeOK, S!SessionsAssumption
<1>2. n \in Nat /\ DOMAIN session = 1 .. n /\ \A i \in 1 .. n : session[i] \in S!SessionType
  BY <1>1, LenProperties
<1>3. /\ n < MaxSessions /\ n + Cardinality(Opening') <= MaxSessions - 1
      /\ Cardinality(Opening') \in Nat
  <2>1. Opening' = Opening \ {c} /\ c \in Opening
    BY DEF Opening, Told
  <2>2. IsFiniteSet(Calls)
    BY Zenon DEF S!SessionsAssumption, S!IsFiniteSet, IsFiniteSet
  <2>3. IsFiniteSet(Opening) /\ Cardinality(Opening) \in Nat
    BY <2>2, FS_Subset, FS_CardinalityType DEF Opening
  <2>4. Cardinality(Opening') = Cardinality(Opening) - 1 /\ IsFiniteSet(Opening')
    BY <2>1, <2>3, FS_RemoveElement
  <2>5. Cardinality(Opening') \in Nat
    BY <2>4, FS_CardinalityType
  <2> QED BY <1>1, <1>2, <2>3, <2>4, <2>5 DEF RoomHeld
<1>4. k.pc = "refresh" => parent \in 1 .. n /\ session[parent].user = k.user
  BY <1>1, <1>2 DEF RowsHeld
<1>5. /\ new \in S!SessionType /\ new.user = k.user /\ new.live /\ new.parent = parent
      /\ new.late = k.late
  <2>1. parent \in 0 .. MaxSessions
    BY <1>1, <1>2, <1>3, <1>4
  <2>2. k.user \in Users /\ k.late \in BOOLEAN
    BY <1>1 DEF S!CallType
  <2> HIDE DEF parent, k
  <2>3. new = [user |-> k.user, live |-> TRUE, parent |-> parent, sso |-> sso, super |-> super,
               late |-> k.late]
    BY DEF S!NewSession, k
  <2> QED BY <2>1, <2>2, <2>3 DEF S!SessionType
<1>6. /\ closed \in Seq(S!SessionType) /\ Len(closed) = n
      /\ \A i \in 1 .. n : /\ closed[i].user = session[i].user
                           /\ closed[i].parent = session[i].parent
                           /\ closed[i].late = session[i].late
                           /\ closed[i].live => session[i].live
                           /\ i # parent => closed[i].live = session[i].live
  <2>1. CASE k.pc # "refresh"
    <3>1. closed = session
      BY <2>1
    <3> QED BY <1>1, <1>2, <3>1
  <2>2. CASE k.pc = "refresh"
    <3> DEFINE row == [session[parent] EXCEPT !.live = FALSE]
    <3>1. parent \in 1 .. n /\ session[parent] \in S!SessionType
      BY <1>2, <1>4, <2>2
    <3>2. closed = [session EXCEPT ![parent] = row]
      BY <2>2
    <3> HIDE DEF parent
    <3>3. /\ row \in S!SessionType /\ row.user = session[parent].user /\ ~row.live
          /\ row.parent = session[parent].parent /\ row.late = session[parent].late
      BY <3>1, EndedRow
    <3> HIDE DEF row
    <3>4. closed = [i \in DOMAIN session |-> closed[i]]
      BY <1>2, <3>1, <3>2
    <3>5. \A i \in 1 .. n : closed[i] = IF i = parent THEN row ELSE session[i]
      BY <1>2, <3>1, <3>2
    <3>6. closed \in [DOMAIN session -> S!SessionType]
      BY <1>2, <3>3, <3>4, <3>5
    <3>7. closed \in Seq(S!SessionType) /\ Len(closed) = n
      <4>1. session \in Seq(S!SessionType)
        BY <1>1
      <4> DEFINE T == S!SessionType
      <4> HIDE DEF n
      <4>2. \A s \in Seq(T) : \A t \in [DOMAIN s -> T] : t \in Seq(T) /\ Len(t) = Len(s)
        BY Remapped
      <4> HIDE DEF T
      <4>3. closed \in [DOMAIN session -> T] /\ session \in Seq(T)
        BY <3>6, <4>1 DEF T
      <4>4. closed \in Seq(T) /\ Len(closed) = Len(session)
        BY <4>2, <4>3, Zenon
      <4> QED BY <4>4 DEF T, n
    <3> QED BY <3>3, <3>5, <3>7
  <2> QED BY <2>1, <2>2
<1> HIDE DEF new, parent
<1>7. /\ session' \in Seq(S!SessionType) /\ Len(session') = n + 1
      /\ \A i \in 1 .. n : session'[i] = closed[i]
      /\ session'[n + 1] = new
  <2>1. session' = Append(closed, new)
    BY DEF new, parent
  <2> QED BY <1>2, <1>5, <1>6, <2>1, AppendProperties
<1>8. DOMAIN session' = 1 .. n + 1
  BY <1>7, LenProperties
<1>9. RowsHeld'
  <2>1. Grown
    BY <1>2, <1>6, <1>7, <1>8 DEF Grown
  <2> QED BY <1>1, <2>1, RowsKept DEF Rowless
<1>10. RoomHeld'
  BY <1>1, <1>2, <1>3, <1>7 DEF RoomHeld
<1>11. S!OneUse'
  <2>1. ASSUME NEW d \in Calls, call'[d].pc = "refresh"
        PROVE  session'[call'[d].row].live = session[call'[d].row].live \/ call'[d].late
    <3>1. d # c /\ Told(call[d], call'[d])
      BY <2>1
    <3>2. call[d].pc = "refresh" /\ call'[d].row = call[d].row /\ call[d].row \in 1 .. n
      BY <1>1, <1>2, <2>1, <3>1 DEF Told, RowsHeld
    <3>3. CASE k.pc = "refresh" /\ call[d].row = parent
      <4>1. d \in S!CallsWith("refresh", call[c].row) \ {c}
        BY <3>1, <3>2, <3>3 DEF S!CallsWith, parent
      <4> QED BY <3>3, <4>1
    <3>4. CASE k.pc # "refresh" \/ call[d].row # parent
      <4>1. call[d].row # parent
        BY <1>2, <3>2, <3>4 DEF parent
      <4>2. session'[call[d].row] = closed[call[d].row]
        BY <1>7, <3>2
      <4>3. closed[call[d].row].live = session[call[d].row].live
        BY <1>6, <3>2, <4>1
      <4> QED BY <3>2, <4>2, <4>3
    <3> QED BY <3>3, <3>4
  <2>2. \A d \in Calls : Told(call[d], call'[d]) \/ call'[d].pc \in Rowless \cup {"reuse"}
    BY DEF Rowless
  <2> QED BY <1>1, <2>1, <2>2, OneUseKept
<1>12. KeptOut'
  <2>1. k.user \in Users /\ \A u \in Users : since'[u] = since[u] /\ since[u] \in Nat /\ since[u] <= n
    BY <1>1, <1>2 DEF KeptOut, S!CallType
  <2>2. \A u \in Users : since'[u] <= Len(session')
    BY <1>2, <1>7, <2>1
  <2>3. ASSUME NEW d \in Calls, call'[d].pc = "refresh", ~call'[d].late
        PROVE  call'[d].row > since'[call'[d].user]
    <3>1. Told(call[d], call'[d])
      BY <2>3
    <3> QED BY <1>1, <2>3, <3>1 DEF KeptOut, Told
  <2>4. ASSUME NEW i \in DOMAIN session'
        PROVE  LET u == session'[i].user
                   p == session'[i].parent
               IN  /\ session'[i].live => i > since'[u]
                   /\ i > since'[u] => \/ p = 0 \/ session'[i].late
                                       \/ p \in since'[u] + 1 .. i - 1 /\ session'[p].user = u
    <3>1. CASE i \in 1 .. n
      <4> DEFINE u == session[i].user
                 p == session[i].parent
      <4>1. u \in Users /\ p \in 0 .. MaxSessions
        BY <1>2, <3>1 DEF S!SessionType
      <4>2. /\ session'[i].user = u /\ session'[i].parent = p
            /\ session'[i].late = session[i].late /\ (session'[i].live => session[i].live)
        BY <1>6, <1>7, <3>1
      <4>3. /\ session[i].live => i > since[u]
            /\ i > since[u] => \/ p = 0 \/ session[i].late
                               \/ p \in since[u] + 1 .. i - 1 /\ session[p].user = u
        BY <1>1, <1>2, <3>1 DEF KeptOut, S!RevocationHolds, S!Earned
      <4>4. p \in since[u] + 1 .. i - 1 => session'[p].user = session[p].user
        BY <1>2, <1>6, <1>7, <2>1, <3>1, <4>1
      <4> HIDE DEF u, p
      <4> QED BY <2>1, <4>1, <4>2, <4>3, <4>4
    <3>2. CASE i = n + 1
      <4>1. /\ session'[i].user = k.user /\ session'[i].parent = parent
            /\ session'[i].late = k.late
        BY <1>5, <1>7, <3>2
      <4>2. i > since'[k.user]
        BY <1>2, <2>1, <3>2
      <4>3. CASE k.pc # "refresh" \/ k.late
        BY <4>1, <4>2, <4>3 DEF parent
      <4>4. CASE k.pc = "refresh" /\ ~k.late
        <5>1. parent > since[k.user] /\ parent = k.row
          BY <1>1, <4>4 DEF KeptOut, parent
        <5>2. session'[parent].user = k.user /\ parent \in 1 .. n
          BY <1>4, <1>6, <1>7, <4>4
        <5>3. parent \in since[k.user] + 1 .. i - 1
          BY <1>2, <2>1, <3>2, <5>1, <5>2
        <5> QED BY <2>1, <4>1, <4>2, <5>2, <5>3
      <4> QED BY <4>3, <4>4
    <3>3. i \in 1 .. n \/ i = n + 1
      BY <1>2, <1>8
    <3> QED BY <3>1, <3>2, <3>3
  <2>5. S!RevocationHolds'
    BY <2>4 DEF S!RevocationHolds, S!Earned
  <2> QED BY <2>2, <2>3, <2>5 DEF KeptOut
<1>13. LinksHeld' /\ UrisHeld'
  BY <1>1, LinksKept, UrisKept
<1>14. Len(session') <= MaxSessions
  BY <1>1, <1>2, <1>3, <1>7
<1> QED BY <1>7, <1>9, <1>10, <1>11, <1>12, <1>13, <1>14

-----------------------------------------------------------------------------
(* Users are revoked: their sessions end, and their calls learn of it.     *)
LEMMA RevokeStep ==
  ASSUME S!SessionsAssumption, SessionsInv, NEW gone \in SUBSET Users,
         session' = [i \in DOMAIN session |-> IF session[i].user \in gone
                                              THEN [session[i] EXCEPT !.live = FALSE]
                                              ELSE session[i]],
         since' = [u \in Users |-> IF u \in gone THEN Len(session) ELSE since[u]],
         call' \in [Calls -> S!CallType],
         \A d \in Calls : Told(call[d], call'[d]) \/ call'[d].pc = "idle",
         \A d \in Calls : call[d].user \in gone => call'[d].late \/ call'[d].pc = "idle",
         DOMAIN reset' = DOMAIN reset,
         \A t \in DOMAIN reset : /\ reset'[t].user = reset[t].user
                                 /\ reset'[t].late = reset[t].late
                                 /\ ~reset'[t].used => ~reset[t].used,
         \A d \in Calls : call'[d].pc = "reset" =>
            reset'[call'[d].row].used = reset[call'[d].row].used \/ call'[d].late,
         UNCHANGED <<mix, code, state, uris>>
  PROVE  /\ session' \in Seq(S!SessionType) /\ Len(session') = Len(session)
         /\ since' \in [Users -> 0 .. MaxSessions]
         /\ RowsHeld' /\ RoomHeld' /\ S!OneUse' /\ KeptOut' /\ LinksHeld' /\ UrisHeld'
<1> DEFINE n == Len(session)
<1>1. /\ session \in Seq(S!SessionType) /\ call \in [Calls -> S!CallType]
      /\ MaxSessions \in Nat /\ n <= MaxSessions
      /\ RowsHeld /\ RoomHeld /\ S!OneUse /\ KeptOut /\ LinksHeld /\ UrisHeld
      /\ since \in [Users -> 0 .. MaxSessions]
  BY DEF SessionsInv, S!TypeOK, S!SessionsAssumption
<1>2. n \in Nat /\ DOMAIN session = 1 .. n /\ \A i \in 1 .. n : session[i] \in S!SessionType
  BY <1>1, LenProperties
<1>3. ASSUME NEW i \in 1 .. n
      PROVE  /\ session'[i] \in S!SessionType
             /\ session'[i].user = session[i].user /\ session'[i].parent = session[i].parent
             /\ session'[i].late = session[i].late
             /\ session[i].user \in gone => ~session'[i].live
             /\ session[i].user \notin gone => session'[i] = session[i]
  <2>1. session[i] \in S!SessionType
    BY <1>2
  <2>2. CASE session[i].user \in gone
    <3>1. session'[i] = [session[i] EXCEPT !.live = FALSE]
      BY <1>2, <2>2
    <3> QED BY <2>1, <2>2, <3>1, EndedRow
  <2>3. CASE session[i].user \notin gone
    <3>1. session'[i] = session[i]
      BY <1>2, <2>3
    <3> QED BY <2>1, <2>3, <3>1
  <2> QED BY <2>2, <2>3
<1>4. session' \in Seq(S!SessionType) /\ Len(session') = n
  <2> DEFINE T == S!SessionType
             t == session'
  <2>1. session' = [i \in DOMAIN session |-> session'[i]]
    OBVIOUS
  <2>2. session' \in [DOMAIN session -> T] /\ session \in Seq(T)
    BY <1>1, <1>2, <1>3, <2>1
  <2>3. \A s \in Seq(T) : \A f \in [DOMAIN s -> T] : f \in Seq(T) /\ Len(f) = Len(s)
    BY Remapped
  <2> HIDE DEF T
  <2>4. session' \in Seq(T) /\ Len(session') = Len(session)
    BY <2>2, <2>3, Zenon
  <2> QED BY <2>4 DEF T
<1>5. DOMAIN session' = 1 .. n
  BY <1>2, <1>4, LenProperties
<1>6. \A u \in Users : /\ u \in gone => since'[u] = n
                       /\ u \notin gone => since'[u] = since[u]
  OBVIOUS
<1>7. since' \in [Users -> 0 .. MaxSessions]
  BY <1>1, <1>2
<1>8. RowsHeld'
  <2>1. Grown
    BY <1>2, <1>3, <1>5 DEF Grown
  <2> QED BY <1>1, <2>1, RowsKept DEF Rowless
<1>9. RoomHeld'
  <2>1. Opening' \subseteq Opening
    BY DEF Opening, Told
  <2> QED BY <1>1, <1>2, <1>4, <2>1, RoomKept
<1>10. S!OneUse'
  <2>1. ASSUME NEW d \in Calls, call'[d].pc = "refresh"
        PROVE  session'[call'[d].row].live = session[call'[d].row].live \/ call'[d].late
    <3>1. Told(call[d], call'[d])
      BY <2>1
    <3>2. /\ call[d].pc = "refresh" /\ call'[d].row = call[d].row /\ call[d].row \in 1 .. n
          /\ session[call[d].row].user = call[d].user
      BY <1>1, <1>2, <2>1, <3>1 DEF Told, RowsHeld
    <3>3. CASE call[d].user \in gone
      BY <2>1, <3>3
    <3>4. CASE call[d].user \notin gone
      <4>1. session'[call[d].row] = session[call[d].row]
        BY <1>3, <3>2, <3>4
      <4> QED BY <3>2, <4>1
    <3> QED BY <3>3, <3>4
  <2>2. \A d \in Calls : Told(call[d], call'[d]) \/ call'[d].pc \in Rowless \cup {"reuse"}
    BY DEF Rowless
  <2> QED BY <1>1, <2>1, <2>2, OneUseKept
<1>11. KeptOut'
  <2>1. \A u \in Users : since'[u] <= Len(session') /\ since'[u] \in Nat
    BY <1>1, <1>2, <1>4, <1>6 DEF KeptOut
  <2>2. ASSUME NEW d \in Calls, call'[d].pc = "refresh", ~call'[d].late
        PROVE  call'[d].row > since'[call'[d].user]
    <3>1. Told(call[d], call'[d]) /\ call[d].user \notin gone /\ call[d].user \in Users
      BY <1>1, <2>2 DEF S!CallType
    <3>2. call[d].pc = "refresh" /\ ~call[d].late /\ call'[d].row = call[d].row
          /\ call'[d].user = call[d].user
      BY <2>2, <3>1 DEF Told
    <3>3. call[d].row > since[call[d].user]
      BY <1>1, <3>2 DEF KeptOut
    <3> QED BY <1>6, <3>1, <3>2, <3>3
  <2>3. ASSUME NEW i \in 1 .. n
        PROVE  LET u == session'[i].user
                   p == session'[i].parent
               IN  /\ session'[i].live => i > since'[u]
                   /\ i > since'[u] => \/ p = 0 \/ session'[i].late
                                       \/ p \in since'[u] + 1 .. i - 1 /\ session'[p].user = u
    <3> DEFINE u == session[i].user
               p == session[i].parent
    <3>1. u \in Users /\ p \in 0 .. MaxSessions /\ session[i] \in S!SessionType
      BY <1>2 DEF S!SessionType
    <3>2. session'[i].user = u /\ session'[i].parent = p
      BY <1>3
    <3>3. CASE u \in gone
      <4>1. since'[u] = n /\ ~session'[i].live
        BY <1>3, <1>6, <3>1, <3>3
      <4>2. ~(i > since'[u])
        BY <1>2, <4>1
      <4> QED BY <3>2, <4>1, <4>2
    <3>4. CASE u \notin gone
      <4>1. since'[u] = since[u] /\ session'[i] = session[i]
        BY <1>3, <1>6, <3>1, <3>4
      <4>2. /\ session[i].live => i > since[u]
            /\ i > since[u] => \/ p = 0 \/ session[i].late
                               \/ p \in since[u] + 1 .. i - 1 /\ session[p].user = u
        BY <1>1, <1>2 DEF KeptOut, S!RevocationHolds, S!Earned
      <4>3. p \in since[u] + 1 .. i - 1 => session'[p].user = session[p].user
        <5>1. since[u] \in Nat
          BY <1>1, <3>1
        <5>2. p \in since[u] + 1 .. i - 1 => p \in 1 .. n
          BY <1>2, <5>1
        <5> QED BY <1>3, <5>2
      <4> HIDE DEF u, p
      <4> QED BY <3>2, <4>1, <4>2, <4>3
    <3> QED BY <3>3, <3>4
  <2>4. S!RevocationHolds'
    BY <1>5, <2>3 DEF S!RevocationHolds, S!Earned
  <2> QED BY <2>1, <2>2, <2>4 DEF KeptOut
<1>12. LinksHeld' /\ UrisHeld'
  BY <1>1, LinksKept, UrisKept
<1> QED BY <1>4, <1>7, <1>8, <1>9, <1>10, <1>11, <1>12

-----------------------------------------------------------------------------
(* An administrator writes a flag of an account, and no password.          *)
LEMMA FlagsWritten ==
  ASSUME user \in [Users -> S!UserType], NEW u \in Users, NEW b \in BOOLEAN, NEW f \in BOOLEAN,
         \/ user' = [user EXCEPT ![u].active = b]
         \/ user' = [user EXCEPT ![u].active = TRUE, ![u].super = f]
         \/ user' = [user EXCEPT ![u].member = b]
         \/ user' = user
  PROVE  /\ user' \in [Users -> S!UserType]
         /\ \A v \in Users : /\ user'[v].pw = user[v].pw /\ user'[v].top = user[v].top
                             /\ user'[v].stale = user[v].stale
<1> DEFINE row == user[u]
<1>1. row \in S!UserType
  OBVIOUS
<1>2. ASSUME NEW r \in S!UserType, user' = [user EXCEPT ![u] = r],
             r.pw = row.pw, r.top = row.top, r.stale = row.stale
      PROVE  /\ user' \in [Users -> S!UserType]
             /\ \A v \in Users : /\ user'[v].pw = user[v].pw /\ user'[v].top = user[v].top
                                 /\ user'[v].stale = user[v].stale
  BY <1>2
<1>3. CASE user' = [user EXCEPT ![u].active = b]
  <2> DEFINE r == [row EXCEPT !.active = b]
  <2>1. r \in S!UserType /\ r.pw = row.pw /\ r.top = row.top /\ r.stale = row.stale
    BY <1>1 DEF S!UserType
  <2>2. user' = [user EXCEPT ![u] = r]
    BY <1>3
  <2> HIDE DEF r
  <2> QED BY <1>2, <2>1, <2>2
<1>4. CASE user' = [user EXCEPT ![u].active = TRUE, ![u].super = f]
  <2> DEFINE r == [row EXCEPT !.active = TRUE, !.super = f]
  <2>1. r \in S!UserType /\ r.pw = row.pw /\ r.top = row.top /\ r.stale = row.stale
    BY <1>1 DEF S!UserType
  <2>2. user' = [user EXCEPT ![u] = r]
    BY <1>4
  <2> HIDE DEF r
  <2> QED BY <1>2, <2>1, <2>2
<1>5. CASE user' = [user EXCEPT ![u].member = b]
  <2> DEFINE r == [row EXCEPT !.member = b]
  <2>1. r \in S!UserType /\ r.pw = row.pw /\ r.top = row.top /\ r.stale = row.stale
    BY <1>1 DEF S!UserType
  <2>2. user' = [user EXCEPT ![u] = r]
    BY <1>5
  <2> HIDE DEF r
  <2> QED BY <1>2, <2>1, <2>2
<1> QED BY <1>3, <1>4, <1>5

(* A password is written.                                                  *)
LEMMA PasswordWritten ==
  ASSUME user \in [Users -> S!UserType], NEW u \in Users,
         NEW pw \in 0 .. MaxTokens, NEW top \in 0 .. MaxTokens,
         \/ user' = [user EXCEPT ![u].pw = pw, ![u].top = top, ![u].stale = FALSE]
         \/ user' = [user EXCEPT ![u].pw = pw, ![u].stale = FALSE] /\ top = user[u].top
  PROVE  /\ user' \in [Users -> S!UserType]
         /\ user'[u].pw = pw /\ user'[u].top = top /\ ~user'[u].stale
         /\ \A v \in Users \ {u} : user'[v] = user[v]
<1> DEFINE row == user[u]
<1>1. row \in S!UserType
  OBVIOUS
<1>2. ASSUME NEW r \in S!UserType, user' = [user EXCEPT ![u] = r],
             r.pw = pw, r.top = top, ~r.stale
      PROVE  /\ user' \in [Users -> S!UserType]
             /\ user'[u].pw = pw /\ user'[u].top = top /\ ~user'[u].stale
             /\ \A v \in Users \ {u} : user'[v] = user[v]
  BY <1>2
<1>3. CASE user' = [user EXCEPT ![u].pw = pw, ![u].top = top, ![u].stale = FALSE]
  <2> DEFINE r == [row EXCEPT !.pw = pw, !.top = top, !.stale = FALSE]
  <2>1. r \in S!UserType /\ r.pw = pw /\ r.top = top /\ ~r.stale
    BY <1>1 DEF S!UserType
  <2>2. user' = [user EXCEPT ![u] = r]
    BY <1>3
  <2> HIDE DEF r
  <2> QED BY <1>2, <2>1, <2>2
<1>4. CASE user' = [user EXCEPT ![u].pw = pw, ![u].stale = FALSE] /\ top = user[u].top
  <2> DEFINE r == [row EXCEPT !.pw = pw, !.stale = FALSE]
  <2>1. r \in S!UserType /\ r.pw = pw /\ r.top = top /\ ~r.stale
    BY <1>1, <1>4 DEF S!UserType
  <2>2. user' = [user EXCEPT ![u] = r]
    BY <1>4
  <2> HIDE DEF r
  <2> QED BY <1>2, <2>1, <2>2
<1> QED BY <1>3, <1>4

(* A login, a rotation and a single sign-on commit.                        *)
LEMMA OpensStep ==
  ASSUME S!SessionsAssumption, SessionsInv, NEW c \in Calls,
         S!LoginCommit(c) \/ S!RefreshCommit(c) \/ S!SsoCommit(c)
  PROVE  SessionsInv'
<1> DEFINE k == call[c]
           row == k.row
<1>1. /\ call \in [Calls -> S!CallType] /\ k \in S!CallType /\ k.late \in BOOLEAN
      /\ k.user \in Users /\ k.saw \in S!SawType /\ k.saw.super \in BOOLEAN
      /\ user \in [Users -> S!UserType] /\ PasswordsHeld /\ RowsHeld
      /\ session \in Seq(S!SessionType)
  BY DEF SessionsInv, S!TypeOK, S!CallType, S!SawType
<1>2. k.pc \in {"login", "refresh", "sso"} /\ UNCHANGED <<mix, reset, code, state, uris, since>>
  BY DEF S!LoginCommit, S!RefreshCommit, S!SsoCommit
<1>3. PICK ks \in SUBSET Calls : /\ call' = [S!Overtaken(ks) EXCEPT ![c] = S!NoCall]
                                 /\ k.pc = "refresh" => ks = S!CallsWith("refresh", row)
  <2>1. CASE S!LoginCommit(c) \/ S!SsoCommit(c)
    <3>1. k.pc # "refresh" /\ call' = S!Done(c, {})
      BY <2>1 DEF S!LoginCommit, S!SsoCommit
    <3>2. call' = [S!Overtaken({}) EXCEPT ![c] = S!NoCall]
      BY <3>1 DEF S!Done
    <3> QED BY <3>1, <3>2
  <2>2. CASE S!RefreshCommit(c)
    <3>1. call' = [S!Overtaken(S!CallsWith("refresh", row)) EXCEPT ![c] = S!NoCall]
      BY <2>2 DEF S!RefreshCommit, S!Done
    <3>2. S!CallsWith("refresh", row) \in SUBSET Calls
      BY DEF S!CallsWith
    <3> QED BY <3>1, <3>2
  <2> QED BY <2>1, <2>2
<1>4. S!NoCall \in S!CallType /\ S!NoCall.pc = "idle"
  BY NoCallType
<1>5. /\ call' \in [Calls -> S!CallType] /\ call'[c].pc = "idle"
      /\ \A d \in Calls \ {c} : Told(call[d], call'[d])
      /\ k.pc = "refresh" => \A d \in S!CallsWith("refresh", call[c].row) \ {c} : call'[d].late
  BY <1>1, <1>3, <1>4, DoneTold
<1>6. /\ session' \in Seq(S!SessionType) /\ Len(session') <= MaxSessions
      /\ RowsHeld' /\ RoomHeld' /\ S!OneUse' /\ KeptOut' /\ LinksHeld' /\ UrisHeld'
  <2>1. CASE S!LoginCommit(c)
    <3>1. k.pc = "login" /\ session' = Append(session, S!NewSession(c, 0, FALSE, k.saw.super))
      BY <2>1 DEF S!LoginCommit
    <3> QED BY <1>1, <1>2, <1>5, <3>1, OpenStep
  <2>2. CASE S!SsoCommit(c)
    <3>1. k.pc = "sso" /\ session' = Append(session, S!NewSession(c, 0, TRUE, FALSE))
      BY <2>2 DEF S!SsoCommit
    <3> QED BY <1>1, <1>2, <1>5, <3>1, OpenStep
  <2>3. CASE S!RefreshCommit(c)
    <3>1. /\ k.pc = "refresh"
          /\ session' = Append([session EXCEPT ![row].live = FALSE],
                               S!NewSession(c, row, session[row].sso, k.saw.super))
      BY <2>3 DEF S!RefreshCommit
    <3>2. session[row].sso \in BOOLEAN
      <4>1. row \in DOMAIN session
        BY <1>1, <3>1 DEF RowsHeld
      <4>2. session[row] \in S!SessionType
        BY <1>1, <4>1, LenProperties, ElementOfSeq
      <4> QED BY <4>2 DEF S!SessionType
    <3> QED BY <1>1, <1>2, <1>5, <3>1, <3>2, OpenStep
  <2> QED BY <2>1, <2>2, <2>3
<1>7. user' \in [Users -> S!UserType] /\ PasswordsHeld'
  <2>1. CASE user' = user
    <3>1. PasswordsHeld'
      BY <1>1, <1>5, <2>1, PasswordsKept
    <3> QED BY <1>1, <2>1, <3>1
  <2>2. CASE /\ S!LoginCommit(c) /\ k.saw.stale
             /\ user' = [user EXCEPT ![k.user].pw = k.saw.pw, ![k.user].stale = FALSE]
    <3> DEFINE u == k.user
               pw == k.saw.pw
               top == user[u].top
    <3>1. k.pc = "login" /\ pw = 0
      BY <1>1, <2>2 DEF S!LoginCommit, PasswordsHeld
    <3>2. u \in Users /\ pw \in 0 .. MaxTokens /\ top \in 0 .. MaxTokens /\ user[u] \in S!UserType
      <4>1. user[u] \in S!UserType
        BY <1>1
      <4> QED BY <1>1, <4>1 DEF S!SawType, S!UserType
    <3>3. user' = [user EXCEPT ![u].pw = pw, ![u].stale = FALSE] /\ top = user[u].top
      BY <2>2
    <3> HIDE DEF u, pw, top
    <3>4. /\ user' \in [Users -> S!UserType]
          /\ user'[u].pw = pw /\ user'[u].top = top /\ ~user'[u].stale
          /\ \A v \in Users \ {u} : user'[v] = user[v]
      BY <1>1, <3>2, <3>3, PasswordWritten
    <3>5. \A v \in Users : (user'[v].stale => user'[v].pw = 0) /\ user'[v].pw <= user'[v].top
      BY <1>1, <3>1, <3>2, <3>4 DEF PasswordsHeld
    <3>6. ASSUME NEW d \in Calls, call'[d].pc = "login", call'[d].saw.stale
          PROVE  call'[d].saw.pw = 0 /\ (~call'[d].late => user'[call'[d].user].pw = 0)
      <4>1. Told(call[d], call'[d])
        BY <1>5, <3>6
      <4>2. /\ call[d].pc = "login" /\ call[d].saw.stale /\ call'[d].user = call[d].user
            /\ call'[d].saw = call[d].saw /\ call[d].user \in Users
            /\ ~call'[d].late => ~call[d].late
        BY <3>6, <4>1 DEF Told, S!CallType
      <4>3. call[d].saw.pw = 0 /\ (~call[d].late => user[call[d].user].pw = 0)
        BY <1>1, <4>2 DEF PasswordsHeld
      <4> QED BY <3>1, <3>4, <4>2, <4>3
    <3> QED BY <3>4, <3>5, <3>6 DEF PasswordsHeld
  <2> QED BY <2>1, <2>2 DEF S!LoginCommit, S!RefreshCommit, S!SsoCommit
<1>8. S!TypeOK'
  BY <1>2, <1>5, <1>6, <1>7 DEF SessionsInv, S!TypeOK
<1> QED BY <1>6, <1>7, <1>8 DEF SessionsInv

-----------------------------------------------------------------------------
(* The calls of users that are revoked, and perhaps the call that does it. *)
LEMMA GoneTold ==
  ASSUME S!SessionsAssumption, call \in [Calls -> S!CallType], NEW gone \in SUBSET Users,
         NEW ks \in SUBSET Calls,
         \A d \in Calls : call[d].pc # "idle" /\ call[d].user \in gone => d \in ks,
         \/ call' = S!Overtaken(ks)
         \/ \E c \in Calls : call' = [S!Overtaken(ks) EXCEPT ![c] = S!NoCall]
  PROVE  /\ call' \in [Calls -> S!CallType]
         /\ \A d \in Calls : Told(call[d], call'[d]) \/ call'[d].pc = "idle"
         /\ \A d \in Calls : call[d].user \in gone => call'[d].late \/ call'[d].pc = "idle"
<1>1. CASE call' = S!Overtaken(ks)
  <2>1. /\ call' \in [Calls -> S!CallType] /\ \A d \in Calls : Told(call[d], call'[d])
        /\ \A d \in ks : call'[d].late
    BY <1>1, OvertakenTold
  <2>2. \A d \in Calls : call[d].user \in gone => call'[d].late \/ call'[d].pc = "idle"
    BY <2>1 DEF Told
  <2> QED BY <2>1, <2>2
<1>2. ASSUME NEW c \in Calls, call' = [S!Overtaken(ks) EXCEPT ![c] = S!NoCall]
      PROVE  /\ call' \in [Calls -> S!CallType]
             /\ \A d \in Calls : Told(call[d], call'[d]) \/ call'[d].pc = "idle"
             /\ \A d \in Calls : call[d].user \in gone => call'[d].late \/ call'[d].pc = "idle"
  <2>1. S!NoCall \in S!CallType /\ S!NoCall.pc = "idle"
    BY NoCallType
  <2>2. /\ call' \in [Calls -> S!CallType] /\ call'[c].pc = "idle"
        /\ \A d \in Calls \ {c} : Told(call[d], call'[d])
        /\ \A d \in ks \ {c} : call'[d].late
    BY <1>2, <2>1, DoneTold
  <2>3. \A d \in Calls : call[d].user \in gone => call'[d].late \/ call'[d].pc = "idle"
    BY <2>2 DEF Told
  <2> QED BY <2>2, <2>3
<1> QED BY <1>1, <1>2

(* Logging out, a detected reuse, a deactivation, a removal, and what an   *)
(* owner does to all members.                                              *)
LEMMA RevokesStep ==
  ASSUME S!SessionsAssumption, SessionsInv,
         \/ \E c \in Calls : S!Reuse(c)
         \/ \E u \in Users : S!Logout(u) \/ S!Deactivate(u) \/ S!RemoveMember(u)
         \/ S!RevokeSessions
  PROVE  SessionsInv'
<1>1. /\ call \in [Calls -> S!CallType] /\ user \in [Users -> S!UserType] /\ PasswordsHeld
      /\ \A d \in Calls : call[d].user \in Users
      /\ session \in Seq(S!SessionType) /\ Len(session) <= MaxSessions
  BY DEF SessionsInv, S!TypeOK, S!CallType
<1>2. \A i \in DOMAIN session : session[i].user \in Users
  <2>1. \A i \in DOMAIN session : session[i] \in S!SessionType
    BY <1>1, LenProperties
  <2> QED BY <2>1 DEF S!SessionType
<1>3. ASSUME NEW gone \in SUBSET Users, NEW ks \in SUBSET Calls,
             \A d \in Calls : call[d].pc # "idle" /\ call[d].user \in gone => d \in ks,
             \/ call' = S!Overtaken(ks)
             \/ \E c \in Calls : call' = [S!Overtaken(ks) EXCEPT ![c] = S!NoCall],
             session' = [i \in DOMAIN session |-> IF session[i].user \in gone
                                                  THEN [session[i] EXCEPT !.live = FALSE]
                                                  ELSE session[i]],
             since' = [u \in Users |-> IF u \in gone THEN Len(session) ELSE since[u]],
             user' \in [Users -> S!UserType],
             \A u \in Users : /\ user'[u].pw = user[u].pw /\ user'[u].top = user[u].top
                              /\ user'[u].stale = user[u].stale,
             UNCHANGED <<mix, reset, code, state, uris>>
      PROVE  SessionsInv'
  <2>1. /\ call' \in [Calls -> S!CallType]
        /\ \A d \in Calls : Told(call[d], call'[d]) \/ call'[d].pc = "idle"
        /\ \A d \in Calls : call[d].user \in gone => call'[d].late \/ call'[d].pc = "idle"
    BY <1>1, <1>3, GoneTold
  <2>2. /\ DOMAIN reset' = DOMAIN reset
        /\ \A t \in DOMAIN reset : /\ reset'[t].user = reset[t].user
                                   /\ reset'[t].late = reset[t].late
                                   /\ ~reset'[t].used => ~reset[t].used
        /\ \A d \in Calls : call'[d].pc = "reset" =>
             reset'[call'[d].row].used = reset[call'[d].row].used \/ call'[d].late
        /\ UNCHANGED <<mix, code, state, uris>>
    BY <1>3
  <2>3. /\ session' \in Seq(S!SessionType) /\ Len(session') = Len(session)
        /\ since' \in [Users -> 0 .. MaxSessions]
        /\ RowsHeld' /\ RoomHeld' /\ S!OneUse' /\ KeptOut' /\ LinksHeld' /\ UrisHeld'
    BY <1>3, <2>1, <2>2, RevokeStep
  <2>4. PasswordsHeld'
    BY <1>1, <1>3, <2>1, PasswordsKept
  <2>5. S!TypeOK'
    BY <1>1, <1>3, <2>1, <2>3 DEF SessionsInv, S!TypeOK
  <2> QED BY <2>3, <2>4, <2>5 DEF SessionsInv
<1>4. ASSUME NEW u \in Users, S!RevokeAll(u)
      PROVE  /\ session' = [i \in DOMAIN session |-> IF session[i].user \in {u}
                                                     THEN [session[i] EXCEPT !.live = FALSE]
                                                     ELSE session[i]]
             /\ since' = [v \in Users |-> IF v \in {u} THEN Len(session) ELSE since[v]]
             /\ S!CallsOf(u) \in SUBSET Calls /\ {u} \in SUBSET Users
             /\ \A d \in Calls : call[d].pc # "idle" /\ call[d].user \in {u} => d \in S!CallsOf(u)
  <2>1. since \in [Users -> 0 .. MaxSessions]
    BY DEF SessionsInv, S!TypeOK
  <2>2. session' = S!Revoked(u) /\ since' = [since EXCEPT ![u] = Len(session)]
    BY <1>4 DEF S!RevokeAll
  <2>3. since' = [v \in Users |-> IF v \in {u} THEN Len(session) ELSE since[v]]
    BY <2>1, <2>2
  <2>4. session' = [i \in DOMAIN session |-> IF session[i].user \in {u}
                                             THEN [session[i] EXCEPT !.live = FALSE]
                                             ELSE session[i]]
    BY <2>2 DEF S!Revoked
  <2> QED BY <2>3, <2>4 DEF S!CallsOf
<1>5. ASSUME NEW c \in Calls, S!Reuse(c) PROVE SessionsInv'
  <2> DEFINE u == call[c].user
  <2>1. u \in Users
    BY <1>1
  <2>2. S!RevokeAll(u) /\ call' = S!Done(c, S!CallsOf(u)) /\ UNCHANGED <<mix, user, reset, code, state, uris>>
    BY <1>5 DEF S!Reuse
  <2>3. call' = [S!Overtaken(S!CallsOf(u)) EXCEPT ![c] = S!NoCall]
    BY <2>2 DEF S!Done
  <2>4. \E e \in Calls : call' = [S!Overtaken(S!CallsOf(u)) EXCEPT ![e] = S!NoCall]
    BY <2>3
  <2> HIDE DEF u
  <2>5. /\ user' \in [Users -> S!UserType]
        /\ \A v \in Users : /\ user'[v].pw = user[v].pw /\ user'[v].top = user[v].top
                            /\ user'[v].stale = user[v].stale
    BY <1>1, <2>2
  <2> QED BY <1>3, <1>4, <2>1, <2>2, <2>4, <2>5
<1>6. ASSUME NEW u \in Users, S!Logout(u) PROVE SessionsInv'
  <2>1. S!RevokeAll(u) /\ call' = S!Overtaken(S!CallsOf(u)) /\ UNCHANGED <<mix, user, reset, code, state, uris>>
    BY <1>6 DEF S!Logout
  <2> QED BY <1>1, <1>3, <1>4, <2>1
<1>7. ASSUME NEW u \in Users, S!Deactivate(u) \/ S!RemoveMember(u) PROVE SessionsInv'
  <2>1. S!RevokeAll(u) /\ call' = S!Overtaken(S!CallsOf(u)) /\ UNCHANGED <<mix, reset, code, state, uris>>
    BY <1>7 DEF S!Deactivate, S!RemoveMember
  <2>2. \/ user' = [user EXCEPT ![u].active = FALSE]
        \/ user' = [user EXCEPT ![u].member = FALSE]
    BY <1>7 DEF S!Deactivate, S!RemoveMember
  <2>3. /\ user' \in [Users -> S!UserType]
        /\ \A v \in Users : /\ user'[v].pw = user[v].pw /\ user'[v].top = user[v].top
                            /\ user'[v].stale = user[v].stale
    BY <1>1, <2>2, FlagsWritten
  <2> QED BY <1>3, <1>4, <2>1, <2>3
<1>8. ASSUME S!RevokeSessions PROVE SessionsInv'
  <2> DEFINE gone == {u \in Users : user[u].member}
             ks == {d \in Calls : call[d].pc # "idle" /\ user[call[d].user].member}
  <2>1. /\ session' = [i \in DOMAIN session |-> IF user[session[i].user].member
                                                THEN [session[i] EXCEPT !.live = FALSE]
                                                ELSE session[i]]
        /\ since' = [u \in Users |-> IF user[u].member THEN Len(session) ELSE since[u]]
        /\ call' = S!Overtaken(ks)
        /\ UNCHANGED <<mix, user, reset, code, state, uris>>
    BY <1>8 DEF S!RevokeSessions
  <2>2. /\ session' = [i \in DOMAIN session |-> IF session[i].user \in gone
                                                THEN [session[i] EXCEPT !.live = FALSE]
                                                ELSE session[i]]
        /\ since' = [u \in Users |-> IF u \in gone THEN Len(session) ELSE since[u]]
    BY <1>2, <2>1
  <2>3. /\ gone \in SUBSET Users /\ ks \in SUBSET Calls
        /\ \A d \in Calls : call[d].pc # "idle" /\ call[d].user \in gone => d \in ks
    OBVIOUS
  <2> HIDE DEF gone, ks
  <2> QED BY <1>1, <1>3, <2>1, <2>2, <2>3
<1> QED BY <1>5, <1>6, <1>7, <1>8

(* The new password, the use of the link and the revocation are one step.  *)
LEMMA ResetStep ==
  ASSUME S!SessionsAssumption, SessionsInv, NEW c \in Calls, S!ResetCommit(c)
  PROVE  SessionsInv'
<1> DEFINE u == call[c].user
           row == call[c].row
           gone == {u}
           pw == user[u].top + 1
<1>1. /\ call \in [Calls -> S!CallType] /\ user \in [Users -> S!UserType] /\ PasswordsHeld
      /\ u \in Users /\ reset \in Seq(S!TokenType) /\ MaxTokens \in Nat /\ RowsHeld
      /\ session \in Seq(S!SessionType) /\ Len(session) <= MaxSessions /\ Len(reset) <= MaxTokens
      /\ since \in [Users -> 0 .. MaxSessions]
  BY DEF SessionsInv, S!TypeOK, S!CallType, S!SessionsAssumption
<1>2. /\ call[c].pc = "reset" /\ user[u].top < MaxTokens
      /\ user' = [user EXCEPT ![u].pw = pw, ![u].top = @ + 1, ![u].stale = FALSE]
      /\ reset' = [reset EXCEPT ![row].used = TRUE]
      /\ session' = S!Revoked(u) /\ since' = [since EXCEPT ![u] = Len(session)]
      /\ call' = S!Done(c, S!CallsOf(u))
      /\ UNCHANGED <<mix, code, state, uris>>
  BY DEF S!ResetCommit, S!RevokeAll
<1>3. user[u] \in S!UserType /\ user[u].top \in 0 .. MaxTokens /\ pw \in 0 .. MaxTokens
  <2>1. user[u] \in S!UserType
    BY <1>1
  <2>2. user[u].top \in 0 .. MaxTokens
    BY <2>1 DEF S!UserType
  <2> HIDE DEF u
  <2> QED BY <1>1, <1>2, <2>1, <2>2
<1>4. /\ user' \in [Users -> S!UserType]
      /\ user'[u].pw = pw /\ user'[u].top = pw /\ ~user'[u].stale
      /\ \A v \in Users \ {u} : user'[v] = user[v]
  <2>1. user' = [user EXCEPT ![u].pw = pw, ![u].top = pw, ![u].stale = FALSE]
    BY <1>1, <1>2
  <2> HIDE DEF u, pw
  <2> QED BY <1>1, <1>3, <2>1, PasswordWritten
<1>5. row \in DOMAIN reset /\ reset[row] \in S!TokenType /\ reset[row].user = u
  <2>1. row \in DOMAIN reset /\ reset[row].user = u
    BY <1>1, <1>2 DEF RowsHeld
  <2> QED BY <1>1, <2>1, LenProperties, ElementOfSeq
<1>6. /\ reset' \in Seq(S!TokenType) /\ Len(reset') = Len(reset)
      /\ DOMAIN reset' = DOMAIN reset
      /\ \A t \in DOMAIN reset : /\ reset'[t].user = reset[t].user
                                 /\ reset'[t].late = reset[t].late
                                 /\ ~reset'[t].used => ~reset[t].used
                                 /\ t # row => reset'[t] = reset[t]
  <2> DEFINE r == [reset[row] EXCEPT !.used = TRUE]
             T == S!TokenType
  <2>1. r \in T /\ r.used /\ r.user = reset[row].user /\ r.late = reset[row].late
    BY <1>5 DEF S!TokenType
  <2>2. reset' = [reset EXCEPT ![row] = r]
    BY <1>2
  <2>3. reset \in Seq(T) /\ row \in 1 .. Len(reset) /\ DOMAIN reset = 1 .. Len(reset)
    BY <1>1, <1>5, LenProperties
  <2> HIDE DEF r, T, row
  <2>4. /\ reset' \in Seq(T) /\ Len(reset') = Len(reset)
        /\ \A t \in 1 .. Len(reset) : reset'[t] = IF t = row THEN r ELSE reset[t]
    BY <2>1, <2>2, <2>3, ExceptSeq
  <2>5. DOMAIN reset' = DOMAIN reset
    BY <2>3, <2>4, LenProperties
  <2> QED BY <2>1, <2>3, <2>4, <2>5 DEF T
<1>7. /\ session' = [i \in DOMAIN session |-> IF session[i].user \in gone
                                              THEN [session[i] EXCEPT !.live = FALSE]
                                              ELSE session[i]]
      /\ since' = [v \in Users |-> IF v \in gone THEN Len(session) ELSE since[v]]
  <2>1. since' = [v \in Users |-> IF v \in gone THEN Len(session) ELSE since[v]]
    BY <1>1, <1>2
  <2>2. session' = [i \in DOMAIN session |-> IF session[i].user \in gone
                                             THEN [session[i] EXCEPT !.live = FALSE]
                                             ELSE session[i]]
    BY <1>2 DEF S!Revoked
  <2> QED BY <2>1, <2>2
<1>8. gone \in SUBSET Users
  BY <1>1
<1>9. /\ call' \in [Calls -> S!CallType]
      /\ \A d \in Calls : Told(call[d], call'[d]) \/ call'[d].pc = "idle"
      /\ \A d \in Calls : call[d].user \in gone => call'[d].late \/ call'[d].pc = "idle"
  <2> DEFINE ks == S!CallsOf(u)
  <2>1. call' = [S!Overtaken(ks) EXCEPT ![c] = S!NoCall]
    BY <1>2 DEF S!Done
  <2>2. /\ ks \in SUBSET Calls
        /\ \A d \in Calls : call[d].pc # "idle" /\ call[d].user \in gone => d \in ks
    BY DEF S!CallsOf
  <2> HIDE DEF ks, gone
  <2> QED BY <1>1, <1>8, <2>1, <2>2, GoneTold
<1>10. \A d \in Calls : call'[d].pc = "reset" =>
         reset'[call'[d].row].used = reset[call'[d].row].used \/ call'[d].late
  <2> SUFFICES ASSUME NEW d \in Calls, call'[d].pc = "reset"
               PROVE  reset'[call'[d].row].used = reset[call'[d].row].used \/ call'[d].late
    OBVIOUS
  <2>1. Told(call[d], call'[d])
    BY <1>9
  <2>2. /\ call'[d].row = call[d].row /\ call[d].row \in DOMAIN reset
        /\ reset[call[d].row].user = call[d].user
    BY <1>1, <2>1 DEF Told, RowsHeld
  <2>3. CASE call[d].row = row
    BY <1>5, <1>9, <2>2, <2>3
  <2>4. CASE call[d].row # row
    <3>1. reset'[call[d].row] = reset[call[d].row]
      BY <1>6, <2>2, <2>4
    <3> QED BY <2>2, <3>1
  <2> QED BY <2>3, <2>4
<1>11. /\ session' \in Seq(S!SessionType) /\ Len(session') = Len(session)
       /\ since' \in [Users -> 0 .. MaxSessions]
       /\ RowsHeld' /\ RoomHeld' /\ S!OneUse' /\ KeptOut' /\ LinksHeld' /\ UrisHeld'
  <2> HIDE DEF gone, row
  <2>1. UNCHANGED <<mix, code, state, uris>>
    BY <1>2
  <2> QED BY <1>6, <1>7, <1>8, <1>9, <1>10, <2>1, RevokeStep
<1>12. PasswordsHeld'
  <2>1. ASSUME NEW d \in Calls, call'[d].pc = "login", call'[d].saw.stale
        PROVE  call'[d].saw.pw = 0 /\ (~call'[d].late => user'[call'[d].user].pw = 0)
    <3>1. Told(call[d], call'[d])
      BY <1>9, <2>1
    <3>2. /\ call[d].pc = "login" /\ call[d].saw.stale /\ call'[d].user = call[d].user
          /\ call'[d].saw = call[d].saw /\ call[d].user \in Users
          /\ ~call'[d].late => ~call[d].late
      BY <2>1, <3>1 DEF Told, S!CallType
    <3>3. call[d].saw.pw = 0 /\ (~call[d].late => user[call[d].user].pw = 0)
      BY <1>1, <3>2 DEF PasswordsHeld
    <3>4. ~call'[d].late => call[d].user # u
      BY <1>9, <2>1
    <3> QED BY <1>4, <3>2, <3>3, <3>4
  <2>2. \A v \in Users : (user'[v].stale => user'[v].pw = 0) /\ user'[v].pw <= user'[v].top
    <3> SUFFICES ASSUME NEW v \in Users
                 PROVE  (user'[v].stale => user'[v].pw = 0) /\ user'[v].pw <= user'[v].top
      OBVIOUS
    <3>1. CASE v = u
      BY <1>3, <1>4, <3>1
    <3>2. CASE v # u
      BY <1>1, <1>4, <3>2 DEF PasswordsHeld
    <3> QED BY <3>1, <3>2
  <2> QED BY <2>1, <2>2 DEF PasswordsHeld
<1>13. S!TypeOK'
  BY <1>1, <1>2, <1>4, <1>6, <1>9, <1>11 DEF SessionsInv, S!TypeOK
<1> QED BY <1>11, <1>12, <1>13 DEF SessionsInv

-----------------------------------------------------------------------------
(* The steps after which sessions and links are as they were.              *)
LEMMA QuietStep ==
  ASSUME S!SessionsAssumption, SessionsInv, UNCHANGED <<mix, session, reset, since>>,
         uris' \subseteq Uris,
         UrisHeld',
         call' \in [Calls -> S!CallType],
         \A d \in Calls : Told(call[d], call'[d]) \/ call'[d].pc \in {"idle", "mint", "sso"},
         RoomHeld',
         user' \in [Users -> S!UserType],
         \A u \in Users : /\ user'[u].pw = user[u].pw /\ user'[u].top = user[u].top
                          /\ user'[u].stale = user[u].stale,
         code' \in Seq(S!TokenType), Len(code') <= MaxTokens,
         state' \in Seq(BOOLEAN), Len(state') <= MaxTokens,
         DOMAIN state \subseteq DOMAIN state', DOMAIN code \subseteq DOMAIN code',
         \A d \in Calls : call'[d].pc = "state" =>
           state'[call'[d].row] = state[call'[d].row] \/ call'[d].late,
         \A d \in Calls : call'[d].pc = "redeem" =>
           code'[call'[d].row].used = code[call'[d].row].used \/ call'[d].late
  PROVE  SessionsInv'
<1>1. /\ call \in [Calls -> S!CallType] /\ RowsHeld /\ S!OneUse /\ KeptOut /\ LinksHeld
      /\ PasswordsHeld
  BY DEF SessionsInv, S!TypeOK
<1>2. RowsHeld'
  <2>1. Grown
    BY DEF Grown
  <2> QED BY <1>1, <2>1, RowsKept DEF Rowless
<1>3. S!OneUse'
  <2>1. \A d \in Calls : Told(call[d], call'[d]) \/ call'[d].pc \in Rowless \cup {"reuse"}
    BY DEF Rowless
  <2> QED BY <1>1, <2>1, OneUseKept
<1>4. KeptOut'
  BY <1>1, KeptOutKept
<1>5. LinksHeld'
  BY <1>1, LinksKept
<1>6. PasswordsHeld'
  BY <1>1, PasswordsKept
<1>7. S!TypeOK'
  BY DEF SessionsInv, S!TypeOK
<1> QED BY <1>2, <1>3, <1>4, <1>5, <1>6, <1>7 DEF SessionsInv

(* Login states and authorization codes are made, used and redeemed.       *)
LEMMA CredentialsStep ==
  ASSUME S!SessionsAssumption, SessionsInv,
         \/ S!SsoStart
         \/ \E u \in Users : S!Authorize(u)
         \/ \E c \in Calls : S!SsoExchange(c) \/ S!RedeemUse(c) \/ S!RedeemMint(c)
  PROVE  SessionsInv'
<1>1. /\ call \in [Calls -> S!CallType] /\ user \in [Users -> S!UserType]
      /\ code \in Seq(S!TokenType) /\ Len(code) <= MaxTokens
      /\ state \in Seq(BOOLEAN) /\ Len(state) <= MaxTokens
      /\ uris \subseteq Uris /\ UrisHeld /\ RoomHeld /\ RowsHeld
      /\ MaxTokens \in Nat /\ Len(session) \in Nat
  BY LenProperties DEF SessionsInv, S!TypeOK, S!SessionsAssumption
<1>2. /\ DOMAIN code = 1 .. Len(code) /\ Len(code) \in Nat
      /\ DOMAIN state = 1 .. Len(state) /\ Len(state) \in Nat
  BY <1>1, LenProperties
<1>3. S!NoCall \in S!CallType /\ S!NoCall.pc = "idle"
  BY NoCallType
<1>4. CASE S!SsoStart
  <2>1. /\ Len(state) < MaxTokens /\ state' = Append(state, TRUE)
        /\ UNCHANGED <<mix, user, session, reset, code, uris, call, since>>
    BY <1>4 DEF S!SsoStart
  <2>2. /\ state' \in Seq(BOOLEAN) /\ Len(state') = Len(state) + 1
        /\ \A k \in 1 .. Len(state) : state'[k] = state[k]
    BY <1>1, <2>1, AppendProperties
  <2>3. DOMAIN state' = 1 .. Len(state) + 1
    BY <2>2, LenProperties
  <2>4. UrisHeld' /\ RoomHeld'
    BY <1>1, <2>1 DEF UrisHeld, RoomHeld, Opening
  <2>5. \A d \in Calls : call'[d].pc = "state" => state'[call'[d].row] = state[call'[d].row]
    BY <1>1, <1>2, <2>1, <2>2 DEF RowsHeld
  <2>6. \A d \in Calls : Told(call[d], call'[d])
    BY <1>1, <2>1 DEF Told
  <2>7. Len(state') <= MaxTokens /\ DOMAIN state \subseteq DOMAIN state'
    BY <1>1, <1>2, <2>1, <2>2, <2>3
  <2> QED BY <1>1, <2>1, <2>2, <2>4, <2>5, <2>6, <2>7, QuietStep
<1>5. ASSUME NEW u \in Users, S!Authorize(u) PROVE SessionsInv'
  <2> DEFINE t == [user |-> u, used |-> FALSE, late |-> FALSE]
  <2>1. /\ Len(code) < MaxTokens /\ code' = Append(code, t)
        /\ UNCHANGED <<mix, user, session, reset, state, uris, call, since>>
    BY <1>5 DEF S!Authorize
  <2>2. t \in S!TokenType
    BY DEF S!TokenType
  <2> HIDE DEF t
  <2>3. /\ code' \in Seq(S!TokenType) /\ Len(code') = Len(code) + 1
        /\ \A k \in 1 .. Len(code) : code'[k] = code[k]
    BY <1>1, <2>1, <2>2, AppendProperties
  <2>4. DOMAIN code' = 1 .. Len(code) + 1
    BY <2>3, LenProperties
  <2>5. UrisHeld' /\ RoomHeld'
    BY <1>1, <2>1 DEF UrisHeld, RoomHeld, Opening
  <2>6. \A d \in Calls : call'[d].pc = "redeem" => code'[call'[d].row].used = code[call'[d].row].used
    BY <1>1, <1>2, <2>1, <2>3 DEF RowsHeld
  <2>7. \A d \in Calls : Told(call[d], call'[d])
    BY <1>1, <2>1 DEF Told
  <2>8. Len(code') <= MaxTokens /\ DOMAIN code \subseteq DOMAIN code'
    BY <1>1, <1>2, <2>1, <2>3, <2>4
  <2> QED BY <1>1, <2>1, <2>3, <2>5, <2>6, <2>7, <2>8, QuietStep
<1>6. ASSUME NEW c \in Calls, S!SsoExchange(c) PROVE SessionsInv'
  <2> DEFINE row == call[c].row
             u == call[c].user
             ks == S!CallsWith("state", row)
             b == S!Begin("sso", u, 0)
  <2>1. /\ call[c].pc = "state" /\ state' = [state EXCEPT ![row] = FALSE]
        /\ \/ call' = [S!Overtaken(ks) EXCEPT ![c] = S!NoCall]
           \/ S!Room /\ call' = [S!Overtaken(ks) EXCEPT ![c] = b]
        /\ UNCHANGED <<mix, user, session, reset, code, uris, since>>
    BY <1>6 DEF S!SsoExchange
  <2>2. row \in 1 .. Len(state) /\ u \in Users /\ ks \in SUBSET Calls
    BY <1>1, <1>2, <2>1 DEF RowsHeld, S!CallType, S!CallsWith
  <2>3. /\ state' \in Seq(BOOLEAN) /\ Len(state') = Len(state) /\ DOMAIN state' = DOMAIN state
        /\ \A k \in DOMAIN state : k # row => state'[k] = state[k]
    <3>1. /\ state' \in Seq(BOOLEAN) /\ Len(state') = Len(state)
          /\ \A k \in 1 .. Len(state) : state'[k] = IF k = row THEN FALSE ELSE state[k]
      <4> DEFINE T == BOOLEAN
                 no == FALSE
      <4>1. state \in Seq(T) /\ no \in T /\ state' = [state EXCEPT ![row] = no]
        BY <1>1, <2>1
      <4> HIDE DEF row, T, no
      <4>2. /\ state' \in Seq(T) /\ Len(state') = Len(state)
            /\ \A k \in 1 .. Len(state) : state'[k] = IF k = row THEN no ELSE state[k]
        BY <2>2, <4>1, ExceptSeq
      <4> QED BY <4>2 DEF T, no
    <3>2. DOMAIN state' = 1 .. Len(state')
      BY <3>1, LenProperties
    <3> QED BY <1>2, <3>1, <3>2
  <2>4. /\ b \in S!CallType /\ b.pc = "sso"
    <3>1. "sso" \in S!Pcs /\ 0 \in 0 .. (MaxSessions + MaxTokens)
      BY DEF S!Pcs, S!SessionsAssumption
    <3> HIDE DEF u
    <3> QED BY <1>1, <2>2, <3>1, BeginType
  <2>5. PICK k \in {S!NoCall, b} : /\ call' = [S!Overtaken(ks) EXCEPT ![c] = k]
                                   /\ k.pc = "sso" => S!Room
    BY <1>3, <2>1
  <2> HIDE DEF ks, b
  <2>6. k \in S!CallType /\ k.pc \in {"idle", "sso"}
    BY <1>3, <2>4
  <2>7. /\ call' \in [Calls -> S!CallType] /\ call'[c] = k
        /\ \A d \in Calls \ {c} : Told(call[d], call'[d])
        /\ \A d \in ks \ {c} : call'[d].late
    BY <1>1, <2>2, <2>5, <2>6, DoneTold
  <2>8. UrisHeld'
    BY <1>1, <2>1, <2>6, <2>7, UrisKept
  <2>9. RoomHeld'
    <3>1. CASE k.pc = "sso"
      <4>1. Opening' = Opening \cup {c} /\ c \notin Opening
        BY <2>1, <2>7, <3>1 DEF Opening, Told
      <4>2. IsFiniteSet(Calls) /\ MaxSessions \in Nat
        BY Zenon DEF S!SessionsAssumption, S!IsFiniteSet, IsFiniteSet
      <4>3. IsFiniteSet(Opening) /\ Cardinality(Opening) \in Nat
        BY <4>2, FS_Subset, FS_CardinalityType DEF Opening
      <4>4. Cardinality(Opening') = Cardinality(Opening) + 1
        BY <4>1, <4>3, FS_AddElement
      <4>5. Len(session) + Cardinality(Opening) < MaxSessions
        BY <2>5, <3>1, SameCard DEF S!Room, Opening
      <4> QED BY <1>1, <2>1, <4>2, <4>3, <4>4, <4>5 DEF RoomHeld
    <3>2. CASE k.pc = "idle"
      <4>1. Opening' \subseteq Opening
        BY <2>7, <3>2 DEF Opening, Told
      <4> QED BY <1>1, <2>1, <4>1, RoomKept
    <3> QED BY <2>6, <3>1, <3>2
  <2>10. ASSUME NEW d \in Calls, call'[d].pc = "state"
         PROVE  state'[call'[d].row] = state[call'[d].row] \/ call'[d].late
    <3>1. d # c /\ Told(call[d], call'[d])
      BY <2>6, <2>7, <2>10
    <3>2. call[d].pc = "state" /\ call'[d].row = call[d].row /\ call[d].row \in DOMAIN state
      BY <1>1, <2>10, <3>1 DEF Told, RowsHeld
    <3>3. CASE call[d].row = row
      BY <2>7, <3>1, <3>2, <3>3 DEF ks, S!CallsWith
    <3>4. CASE call[d].row # row
      BY <2>3, <3>2, <3>4
    <3> QED BY <3>3, <3>4
  <2>11. \A d \in Calls : Told(call[d], call'[d]) \/ call'[d].pc \in {"idle", "mint", "sso"}
    BY <2>6, <2>7
  <2> QED BY <1>1, <2>1, <2>3, <2>7, <2>8, <2>9, <2>10, <2>11, QuietStep
<1>7. ASSUME NEW c \in Calls, S!RedeemUse(c) PROVE SessionsInv'
  <2> DEFINE row == call[c].row
             ks == S!CallsWith("redeem", row)
             m == [call[c] EXCEPT !.pc = "mint"]
             r == [code[row] EXCEPT !.used = TRUE]
  <2>1. /\ call[c].pc = "redeem" /\ code' = [code EXCEPT ![row] = r]
        /\ call' = [S!Overtaken(ks) EXCEPT ![c] = m]
        /\ UNCHANGED <<mix, user, session, reset, state, uris, since>>
    BY <1>7 DEF S!RedeemUse
  <2>2. row \in 1 .. Len(code) /\ ks \in SUBSET Calls /\ code[row] \in S!TokenType
    <3>1. row \in 1 .. Len(code) /\ ks \in SUBSET Calls
      BY <1>1, <1>2, <2>1 DEF RowsHeld, S!CallsWith
    <3> QED BY <1>1, <3>1, ElementOfSeq
  <2>3. r \in S!TokenType
    BY <2>2 DEF S!TokenType
  <2> HIDE DEF r
  <2>4. /\ code' \in Seq(S!TokenType) /\ Len(code') = Len(code) /\ DOMAIN code' = DOMAIN code
        /\ \A k \in DOMAIN code : k # row => code'[k] = code[k]
    <3> DEFINE T == S!TokenType
    <3>1. code \in Seq(T) /\ r \in T
      BY <1>1, <2>3
    <3> HIDE DEF T, row
    <3>2. /\ code' \in Seq(T) /\ Len(code') = Len(code)
          /\ \A k \in 1 .. Len(code) : code'[k] = IF k = row THEN r ELSE code[k]
      BY <2>1, <2>2, <3>1, ExceptSeq
    <3>3. DOMAIN code' = 1 .. Len(code')
      BY <3>2, LenProperties
    <3> QED BY <1>2, <3>2, <3>3 DEF T
  <2>5. m \in S!CallType /\ m.pc = "mint"
    <3>1. call[c] \in S!CallType /\ "mint" \in S!Pcs
      BY <1>1 DEF S!Pcs
    <3> QED BY <3>1 DEF S!CallType
  <2> HIDE DEF m, ks
  <2>6. /\ call' \in [Calls -> S!CallType] /\ call'[c] = m
        /\ \A d \in Calls \ {c} : Told(call[d], call'[d])
        /\ \A d \in ks \ {c} : call'[d].late
    BY <1>1, <2>1, <2>2, <2>5, DoneTold
  <2>7. UrisHeld'
    BY <1>1, <2>1, <2>5, <2>6, UrisKept
  <2>8. RoomHeld'
    <3>1. Opening' \subseteq Opening
      BY <2>5, <2>6 DEF Opening, Told
    <3> QED BY <1>1, <2>1, <3>1, RoomKept
  <2>9. ASSUME NEW d \in Calls, call'[d].pc = "redeem"
        PROVE  code'[call'[d].row].used = code[call'[d].row].used \/ call'[d].late
    <3>1. d # c /\ Told(call[d], call'[d])
      BY <2>5, <2>6, <2>9
    <3>2. call[d].pc = "redeem" /\ call'[d].row = call[d].row /\ call[d].row \in DOMAIN code
      BY <1>1, <2>9, <3>1 DEF Told, RowsHeld
    <3>3. CASE call[d].row = row
      BY <2>6, <3>1, <3>2, <3>3 DEF ks, S!CallsWith
    <3>4. CASE call[d].row # row
      BY <2>4, <3>2, <3>4
    <3> QED BY <3>3, <3>4
  <2>10. \A d \in Calls : Told(call[d], call'[d]) \/ call'[d].pc \in {"idle", "mint", "sso"}
    BY <2>5, <2>6
  <2> QED BY <1>1, <2>1, <2>4, <2>6, <2>7, <2>8, <2>9, <2>10, QuietStep
<1>8. ASSUME NEW c \in Calls, S!RedeemMint(c) PROVE SessionsInv'
  <2>1. /\ call' = [S!Overtaken({}) EXCEPT ![c] = S!NoCall]
        /\ UNCHANGED <<mix, user, session, reset, code, state, uris, since>>
    BY <1>8 DEF S!RedeemMint, S!Done
  <2>2. /\ call' \in [Calls -> S!CallType] /\ call'[c] = S!NoCall
        /\ \A d \in Calls \ {c} : Told(call[d], call'[d])
    BY <1>1, <1>3, <2>1, DoneTold
  <2>3. UrisHeld'
    BY <1>1, <1>3, <2>1, <2>2, UrisKept
  <2>4. RoomHeld'
    <3>1. Opening' \subseteq Opening
      BY <1>3, <2>2 DEF Opening, Told
    <3> QED BY <1>1, <2>1, <3>1, RoomKept
  <2>5. \A d \in Calls : Told(call[d], call'[d]) \/ call'[d].pc \in {"idle", "mint", "sso"}
    BY <1>3, <2>2
  <2> QED BY <1>1, <2>1, <2>2, <2>3, <2>4, <2>5, QuietStep
<1> QED BY <1>4, <1>5, <1>6, <1>7, <1>8

(* The flags of an account, and URIs, are written.                         *)
LEMMA FlagsStep ==
  ASSUME S!SessionsAssumption, SessionsInv, NEW u \in Users, NEW b \in BOOLEAN,
         S!Reactivate(u, b) \/ S!ScimActive(u, b) \/ S!ChangeMembership(u)
  PROVE  SessionsInv'
<1>1. /\ call \in [Calls -> S!CallType] /\ user \in [Users -> S!UserType]
      /\ code \in Seq(S!TokenType) /\ Len(code) <= MaxTokens
      /\ state \in Seq(BOOLEAN) /\ Len(state) <= MaxTokens
      /\ uris \subseteq Uris /\ UrisHeld /\ RoomHeld
  BY DEF SessionsInv, S!TypeOK
<1>2. UNCHANGED <<mix, session, reset, code, state, uris, call, since>>
  BY DEF S!Reactivate, S!ScimActive, S!ChangeMembership
<1>3. PICK a \in BOOLEAN : \/ user' = [user EXCEPT ![u].active = TRUE, ![u].super = b]
                           \/ user' = [user EXCEPT ![u].active = b]
                           \/ user' = [user EXCEPT ![u].member = a]
  <2>1. CASE S!Reactivate(u, b) \/ S!ScimActive(u, b)
    BY <2>1 DEF S!Reactivate, S!ScimActive
  <2>2. CASE S!ChangeMembership(u)
    <3>1. user[u] \in S!UserType
      BY <1>1
    <3>2. user[u].member \in BOOLEAN
      BY <3>1 DEF S!UserType
    <3>3. (~user[u].member) \in BOOLEAN
      OBVIOUS
    <3>4. user' = [user EXCEPT ![u].member = ~user[u].member]
      BY <1>1, <2>2 DEF S!ChangeMembership
    <3> QED BY <3>3, <3>4, Zenon
  <2> QED BY <2>1, <2>2
<1>4. /\ user' \in [Users -> S!UserType]
      /\ \A v \in Users : /\ user'[v].pw = user[v].pw /\ user'[v].top = user[v].top
                          /\ user'[v].stale = user[v].stale
  BY <1>1, <1>3, FlagsWritten
<1>5. UrisHeld' /\ RoomHeld'
  BY <1>1, <1>2 DEF UrisHeld, RoomHeld, Opening
<1>6. \A d \in Calls : Told(call[d], call'[d])
  BY <1>1, <1>2 DEF Told
<1> QED BY <1>1, <1>2, <1>4, <1>5, <1>6, QuietStep

(* A registration adds the URIs it knows of; others that know fewer are    *)
(* told.                                                                   *)
LEMMA ClientStep ==
  ASSUME S!SessionsAssumption, SessionsInv, NEW c \in Calls, NEW new \in Uris, S!ClientWrite(c, new)
  PROVE  SessionsInv'
<1> DEFINE ks == {d \in Calls : call[d].pc = "client"}
<1>1. /\ call \in [Calls -> S!CallType] /\ user \in [Users -> S!UserType]
      /\ code \in Seq(S!TokenType) /\ Len(code) <= MaxTokens
      /\ state \in Seq(BOOLEAN) /\ Len(state) <= MaxTokens
      /\ uris \subseteq Uris /\ UrisHeld /\ RoomHeld /\ Len(session) \in Nat
  BY LenProperties DEF SessionsInv, S!TypeOK
<1>2. /\ call[c].pc = "client" /\ uris' = call[c].uris \cup {new}
      /\ call' = [S!Overtaken(ks) EXCEPT ![c] = S!NoCall]
      /\ UNCHANGED <<mix, user, session, reset, code, state, since>>
  BY DEF S!ClientWrite, S!Done
<1>3. S!NoCall \in S!CallType /\ S!NoCall.pc = "idle"
  BY NoCallType
<1>4. ks \in SUBSET Calls /\ \A d \in Calls : call[d].pc = "client" => d \in ks
  OBVIOUS
<1> HIDE DEF ks
<1>5. /\ call' \in [Calls -> S!CallType] /\ call'[c] = S!NoCall
      /\ \A d \in Calls \ {c} : Told(call[d], call'[d])
      /\ \A d \in ks \ {c} : call'[d].late
  BY <1>1, <1>2, <1>3, <1>4, DoneTold
<1>6. uris' \subseteq Uris
  BY <1>1, <1>2 DEF S!CallType
<1>7. UrisHeld'
  <2> SUFFICES ASSUME NEW d \in Calls, call'[d].pc = "client", ~call'[d].late
               PROVE  FALSE
    BY DEF UrisHeld
  <2>1. d # c /\ Told(call[d], call'[d])
    BY <1>3, <1>5
  <2>2. d \in ks
    BY <1>4, <2>1 DEF Told
  <2> QED BY <1>5, <2>1, <2>2
<1>8. RoomHeld'
  <2>1. Opening' \subseteq Opening
    BY <1>3, <1>5 DEF Opening, Told
  <2> QED BY <1>1, <1>2, <2>1, RoomKept
<1>9. \A d \in Calls : Told(call[d], call'[d]) \/ call'[d].pc \in {"idle", "mint", "sso"}
  BY <1>3, <1>5
<1> QED BY <1>1, <1>2, <1>5, <1>6, <1>7, <1>8, <1>9, QuietStep

(* A reset link is made, and those that were read are closed.              *)
LEMMA ForgotStep ==
  ASSUME S!SessionsAssumption, SessionsInv, NEW c \in Calls, S!ForgotCommit(c)
  PROVE  SessionsInv'
<1> DEFINE k == call[c]
           u == k.user
           n == Len(reset)
           new == [user |-> u, used |-> FALSE, late |-> k.late]
           closed == [t \in DOMAIN reset |-> IF t \in k.rows
                                             THEN [reset[t] EXCEPT !.used = TRUE] ELSE reset[t]]
           ks == {d \in Calls : \/ (call[d].pc = "forgot" /\ call[d].user = u)
                                \/ (call[d].pc = "reset" /\ call[d].row \in k.rows)}
<1>1. /\ call \in [Calls -> S!CallType] /\ k \in S!CallType /\ u \in Users /\ k.late \in BOOLEAN
      /\ reset \in Seq(S!TokenType) /\ n <= MaxTokens /\ MaxTokens \in Nat
      /\ RowsHeld /\ RoomHeld /\ S!OneUse /\ KeptOut /\ LinksHeld /\ PasswordsHeld /\ UrisHeld
      /\ session \in Seq(S!SessionType)
  BY DEF SessionsInv, S!TypeOK, S!CallType, S!SessionsAssumption
<1>2. /\ n \in Nat /\ DOMAIN reset = 1 .. n /\ \A t \in 1 .. n : reset[t] \in S!TokenType
      /\ Len(session) \in Nat
  BY <1>1, LenProperties
<1>3. /\ k.pc = "forgot" /\ n < MaxTokens /\ reset' = Append(closed, new)
      /\ call' = [S!Overtaken(ks) EXCEPT ![c] = S!NoCall]
      /\ UNCHANGED <<mix, user, session, code, state, uris, since>>
  BY DEF S!ForgotCommit, S!Done
<1>4. new \in S!TokenType /\ new.user = u /\ new.late = k.late
  BY <1>1 DEF S!TokenType
<1>5. ASSUME NEW t \in 1 .. n
      PROVE  /\ closed[t] \in S!TokenType
             /\ closed[t].user = reset[t].user /\ closed[t].late = reset[t].late
             /\ t \in k.rows => closed[t].used
             /\ t \notin k.rows => closed[t] = reset[t]
             /\ reset[t].used => closed[t].used
  <2>1. \A s \in S!TokenType : LET r == [s EXCEPT !.used = TRUE] IN
          r \in S!TokenType /\ r.user = s.user /\ r.late = s.late /\ r.used
    BY DEF S!TokenType
  <2>2. reset[t] \in S!TokenType
    BY <1>2
  <2>3. CASE t \in k.rows
    <3>1. closed[t] = [reset[t] EXCEPT !.used = TRUE]
      BY <1>2, <2>3
    <3> HIDE DEF closed
    <3> QED BY <2>1, <2>2, <2>3, <3>1
  <2>4. CASE t \notin k.rows
    <3>1. closed[t] = reset[t]
      BY <1>2, <2>4
    <3> HIDE DEF closed
    <3> QED BY <2>2, <2>4, <3>1
  <2> QED BY <2>3, <2>4
<1>6. closed \in Seq(S!TokenType) /\ Len(closed) = n
  <2> DEFINE T == S!TokenType
  <2>1. closed = [t \in DOMAIN reset |-> closed[t]]
    OBVIOUS
  <2> HIDE DEF closed
  <2>2. closed \in [DOMAIN reset -> T] /\ reset \in Seq(T)
    BY <1>1, <1>2, <1>5, <2>1
  <2>3. \A s \in Seq(T) : \A f \in [DOMAIN s -> T] : f \in Seq(T) /\ Len(f) = Len(s)
    BY Remapped
  <2> HIDE DEF T
  <2>4. closed \in Seq(T) /\ Len(closed) = Len(reset)
    BY <2>2, <2>3, Zenon
  <2> QED BY <2>4 DEF T
<1> HIDE DEF closed, new
<1>7. /\ reset' \in Seq(S!TokenType) /\ Len(reset') = n + 1
      /\ \A t \in 1 .. n : reset'[t] = closed[t]
      /\ reset'[n + 1] = new
  BY <1>2, <1>3, <1>4, <1>6, AppendProperties
<1>8. DOMAIN reset' = 1 .. n + 1
  BY <1>7, LenProperties
<1>9. S!NoCall \in S!CallType /\ S!NoCall.pc = "idle"
  BY NoCallType
<1>10. /\ ks \in SUBSET Calls
       /\ \A d \in Calls : /\ call[d].pc = "forgot" /\ call[d].user = u => d \in ks
                           /\ call[d].pc = "reset" /\ call[d].row \in k.rows => d \in ks
  OBVIOUS
<1> HIDE DEF ks
<1>11. /\ call' \in [Calls -> S!CallType] /\ call'[c] = S!NoCall
       /\ \A d \in Calls \ {c} : Told(call[d], call'[d])
       /\ \A d \in ks \ {c} : call'[d].late
  BY <1>1, <1>3, <1>9, <1>10, DoneTold
<1>12. \A d \in Calls : Told(call[d], call'[d]) \/ call'[d].pc = "idle"
  BY <1>9, <1>11
<1>13. RowsHeld'
  <2>1. Grown
    BY <1>2, <1>3, <1>5, <1>7, <1>8 DEF Grown
  <2> QED BY <1>1, <1>12, <2>1, RowsKept DEF Rowless
<1>14. RoomHeld'
  <2>1. Opening' \subseteq Opening
    BY <1>12 DEF Opening, Told
  <2> QED BY <1>1, <1>2, <1>3, <2>1, RoomKept
<1>15. KeptOut' /\ PasswordsHeld' /\ UrisHeld'
  BY <1>1, <1>3, <1>12, KeptOutKept, PasswordsKept, UrisKept
<1>16. LinksHeld'
  <2>1. S!OneLinkUnlessOverlap'
    <3> SUFFICES ASSUME NEW s \in DOMAIN reset', NEW t \in DOMAIN reset', s < t,
                        reset'[s].user = reset'[t].user, ~reset'[s].used, ~reset'[t].used
                 PROVE  reset'[t].late
      BY DEF S!OneLinkUnlessOverlap
    <3>1. s \in 1 .. n /\ s \notin k.rows /\ ~reset[s].used /\ reset[s].user = reset'[s].user
      <4>1. s \in 1 .. n
        BY <1>2, <1>8
      <4> QED BY <1>5, <1>7, <4>1
    <3>2. CASE t \in 1 .. n
      <4>1. reset[t].user = reset'[t].user /\ ~reset[t].used /\ reset'[t].late = reset[t].late
        BY <1>5, <1>7, <3>2
      <4> QED BY <1>1, <1>2, <3>1, <3>2, <4>1 DEF LinksHeld, S!OneLinkUnlessOverlap
    <3>3. CASE t = n + 1
      <4>1. reset'[t].user = u /\ reset'[t].late = k.late
        BY <1>4, <1>7, <3>3
      <4> QED BY <1>1, <1>2, <1>3, <3>1, <4>1 DEF LinksHeld
    <3>4. t \in 1 .. n \/ t = n + 1
      BY <1>2, <1>8
    <3> QED BY <3>2, <3>3, <3>4
  <2>2. ASSUME NEW d \in Calls, call'[d].pc = "forgot", ~call'[d].late, NEW t \in DOMAIN reset',
               reset'[t].user = call'[d].user, ~reset'[t].used
        PROVE  t \in call'[d].rows
    <3>1. d # c /\ Told(call[d], call'[d]) /\ d \notin ks
      BY <1>9, <1>11, <2>2
    <3>2. /\ call[d].pc = "forgot" /\ ~call[d].late /\ call[d].user = call'[d].user
          /\ call[d].rows = call'[d].rows /\ call[d].user # u
      BY <1>10, <2>2, <3>1 DEF Told
    <3>3. t \in 1 .. n /\ reset[t].user = call[d].user /\ ~reset[t].used
      <4>1. t # n + 1
        BY <1>4, <1>7, <2>2, <3>2
      <4>2. t \in 1 .. n
        BY <1>2, <1>8, <4>1
      <4> QED BY <1>5, <1>7, <2>2, <3>2, <4>2
    <3> QED BY <1>1, <1>2, <3>2, <3>3 DEF LinksHeld
  <2> QED BY <2>1, <2>2 DEF LinksHeld
<1>17. S!OneUse'
  <2>1. ASSUME NEW d \in Calls, call'[d].pc = "reset"
        PROVE  reset'[call'[d].row].used = reset[call'[d].row].used \/ call'[d].late
    <3>1. d # c /\ Told(call[d], call'[d])
      BY <1>9, <1>11, <2>1
    <3>2. /\ call[d].pc = "reset" /\ call'[d].row = call[d].row /\ call[d].row \in 1 .. n
          /\ reset[call[d].row].user = call[d].user
      BY <1>1, <1>2, <2>1, <3>1 DEF Told, RowsHeld
    <3>3. CASE call[d].row \in k.rows
      BY <1>10, <1>11, <3>1, <3>2, <3>3
    <3>4. CASE call[d].row \notin k.rows
      <4>1. reset'[call[d].row] = reset[call[d].row]
        BY <1>5, <1>7, <3>2, <3>4
      <4> QED BY <3>2, <4>1
    <3> QED BY <3>3, <3>4
  <2>2. \A d \in Calls : Told(call[d], call'[d]) \/ call'[d].pc \in Rowless \cup {"reuse"}
    BY <1>12 DEF Rowless
  <2> QED BY <1>1, <1>3, <2>1, <2>2, OneUseKept
<1>18. S!TypeOK'
  <2>1. Len(reset') <= MaxTokens
    BY <1>1, <1>2, <1>3, <1>7
  <2> QED BY <1>3, <1>7, <1>11, <2>1 DEF SessionsInv, S!TypeOK
<1> QED BY <1>13, <1>14, <1>15, <1>16, <1>17, <1>18 DEF SessionsInv

(* Every step keeps the invariant.                                         *)
LEMMA SessionsStep ==
  ASSUME S!SessionsAssumption, SessionsInv, S!Next
  PROVE  SessionsInv'
<1>1. ASSUME NEW c \in Calls, S!Auth(c) PROVE SessionsInv'
  <2>1. CASE \/ \E u \in Users : S!LoginRead(c, u) \/ S!ForgotRead(c, u) \/ S!SamlAcs(c, u)
             \/ \E i \in DOMAIN session : S!RefreshRead(c, i)
             \/ \E t \in DOMAIN reset : S!ResetRead(c, t)
             \/ \E k \in DOMAIN state, u \in Users : S!SsoState(c, u, k)
             \/ \E k \in DOMAIN code : S!RedeemRead(c, k)
             \/ S!ClientRead(c)
    BY <2>1, ReadsStep
  <2>2. CASE \E new \in Uris : S!ClientWrite(c, new)
    BY <2>2, ClientStep
  <2>3. CASE S!LoginCommit(c) \/ S!RefreshCommit(c) \/ S!SsoCommit(c)
    BY <2>3, OpensStep
  <2>4. CASE S!Reuse(c)
    BY <2>4, RevokesStep
  <2>5. CASE S!ForgotCommit(c)
    BY <2>5, ForgotStep
  <2>6. CASE S!ResetCommit(c)
    BY <2>6, ResetStep
  <2>7. CASE S!SsoExchange(c) \/ S!RedeemUse(c) \/ S!RedeemMint(c)
    BY <2>7, CredentialsStep
  <2> QED BY <1>1, <2>1, <2>2, <2>3, <2>4, <2>5, <2>6, <2>7 DEF S!Auth
<1>2. ASSUME NEW u \in Users, S!Admin(u) PROVE SessionsInv'
  <2>1. CASE S!Logout(u) \/ S!Deactivate(u) \/ S!RemoveMember(u)
    BY <2>1, RevokesStep
  <2>2. CASE S!Authorize(u)
    BY <2>2, CredentialsStep
  <2>3. ASSUME NEW b \in BOOLEAN, S!Reactivate(u, b) \/ S!ScimActive(u, b) \/ S!ChangeMembership(u)
        PROVE  SessionsInv'
    BY <2>3, FlagsStep
  <2> QED BY <1>2, <2>1, <2>2, <2>3 DEF S!Admin
<1>3. CASE S!SsoStart
  BY <1>3, CredentialsStep
<1>4. CASE S!RevokeSessions
  BY <1>4, RevokesStep
<1> QED BY <1>1, <1>2, <1>3, <1>4 DEF S!Next

(* It holds at the beginning, when nobody is signed in.                    *)
LEMMA SessionsInit ==
  ASSUME S!SessionsAssumption, S!Init
  PROVE  SessionsInv
<1>1. S!NoCall \in S!CallType /\ S!NoCall.pc = "idle"
  BY NoCallType
<1>2. call = [c \in Calls |-> S!NoCall]
  BY DEF S!Init
<1>3. call \in [Calls -> S!CallType] /\ \A c \in Calls : call[c].pc = "idle"
  BY <1>1, <1>2
<1>4. MaxSessions \in Nat /\ MaxTokens \in Nat
  BY DEF S!SessionsAssumption
<1>5. /\ session = <<>> /\ reset = <<>> /\ code = <<>> /\ state = <<>> /\ uris = {}
      /\ mix \in SessionMixes /\ since = [u \in Users |-> 0] /\ user = [u \in Users |-> S!NewUser]
  BY DEF S!Init
<1>6. S!NewUser \in S!UserType /\ S!NewUser.pw = 0 /\ S!NewUser.top = 0
  BY <1>4 DEF S!NewUser, S!UserType
<1>7. user \in [Users -> S!UserType] /\ \A u \in Users : user[u].pw = 0 /\ user[u].top = 0
  BY <1>5, <1>6
<1>8. /\ session \in Seq(S!SessionType) /\ Len(session) = 0
      /\ reset \in Seq(S!TokenType) /\ Len(reset) = 0
      /\ code \in Seq(S!TokenType) /\ Len(code) = 0
      /\ state \in Seq(BOOLEAN) /\ Len(state) = 0
      /\ DOMAIN session = {} /\ DOMAIN reset = {}
  BY <1>5
<1>9. S!TypeOK
  BY <1>3, <1>4, <1>5, <1>7, <1>8 DEF S!TypeOK
<1>10. RoomHeld
  <2>1. Opening = {}
    BY <1>3 DEF Opening
  <2>2. Cardinality(Opening) = 0
    BY <2>1, FS_EmptySet
  <2> QED BY <1>4, <1>8, <2>2 DEF RoomHeld
<1>11. S!OneUse /\ RowsHeld /\ LinksHeld /\ PasswordsHeld /\ UrisHeld
  BY <1>3, <1>7, <1>8 DEF S!OneUse, S!SpentFor, RowsHeld, LinksHeld, S!OneLinkUnlessOverlap,
                         PasswordsHeld, UrisHeld
<1>12. KeptOut
  BY <1>3, <1>5, <1>8 DEF KeptOut, S!RevocationHolds
<1> QED BY <1>9, <1>10, <1>11, <1>12 DEF SessionsInv

(* A password goes back, and a URI is lost, as the property says.          *)
LEMMA PasswordStep ==
  ASSUME S!SessionsAssumption, SessionsInv, S!Next
  PROVE  S!PasswordSticksStep
<1> SUFFICES ASSUME NEW u \in Users, user'[u].pw < user[u].pw
             PROVE  \E c \in Calls : /\ call[c].pc = "login" /\ call[c].user = u
                                     /\ call[c].late /\ call[c].saw.stale
  BY DEF S!PasswordSticksStep
<1>1. /\ user \in [Users -> S!UserType] /\ PasswordsHeld
      /\ call \in [Calls -> S!CallType] /\ MaxTokens \in Nat
  BY DEF SessionsInv, S!TypeOK, S!SessionsAssumption
<1>2. user[u] \in S!UserType /\ user[u].pw \in Nat /\ user[u].top \in Nat /\ user[u].pw <= user[u].top
  <2>1. user[u] \in S!UserType
    BY <1>1
  <2>2. user[u].pw \in 0 .. MaxTokens /\ user[u].top \in 0 .. MaxTokens
    BY <2>1 DEF S!UserType
  <2> QED BY <1>1, <2>1, <2>2 DEF PasswordsHeld
<1>3. ~(user'[u].pw = user[u].pw)
  BY <1>2
<1>4. ASSUME NEW c \in Calls, S!LoginCommit(c)
      PROVE  \E d \in Calls : /\ call[d].pc = "login" /\ call[d].user = u
                              /\ call[d].late /\ call[d].saw.stale
  <2> DEFINE v == call[c].user
             pw == call[c].saw.pw
  <2>1. call[c].pc = "login" /\ call[c].saw.stale
        /\ user' = [user EXCEPT ![v].pw = pw, ![v].stale = FALSE]
    BY <1>3, <1>4 DEF S!LoginCommit
  <2>2. v \in Users /\ pw \in 0 .. MaxTokens /\ call[c].late \in BOOLEAN
    BY <1>1 DEF S!CallType, S!SawType
  <2>3. user[v].top \in 0 .. MaxTokens
    <3>1. user[v] \in S!UserType
      BY <1>1, <2>2
    <3> QED BY <3>1 DEF S!UserType
  <2>4. /\ user'[v].pw = pw /\ \A w \in Users \ {v} : user'[w] = user[w]
    <3> DEFINE top == user[v].top
    <3>1. top \in 0 .. MaxTokens /\ top = user[v].top
      BY <2>3
    <3> HIDE DEF v, pw, top
    <3> QED BY <1>1, <2>1, <2>2, <3>1, PasswordWritten
  <2>5. v = u
    BY <1>3, <2>4
  <2>6. call[c].late
    <3> SUFFICES ASSUME ~call[c].late PROVE FALSE
      OBVIOUS
    <3>1. pw = 0 /\ user[v].pw = 0
      BY <1>1, <2>1 DEF PasswordsHeld
    <3> QED BY <1>3, <2>4, <2>5, <3>1
  <2> QED BY <2>1, <2>5, <2>6
<1>5. ASSUME NEW c \in Calls, S!ResetCommit(c) PROVE FALSE
  <2> DEFINE v == call[c].user
             pw == user[v].top + 1
  <2>1. user[v].top < MaxTokens /\ user' = [user EXCEPT ![v].pw = pw, ![v].top = @ + 1, ![v].stale = FALSE]
    BY <1>5 DEF S!ResetCommit
  <2>2. v \in Users
    BY <1>1 DEF S!CallType
  <2>3. user[v] \in S!UserType /\ pw \in 0 .. MaxTokens
    <3>1. user[v] \in S!UserType
      BY <1>1, <2>2
    <3>2. user[v].top \in 0 .. MaxTokens
      BY <3>1 DEF S!UserType
    <3> HIDE DEF v
    <3> QED BY <1>1, <2>1, <3>1, <3>2
  <2>4. user'[v].pw = pw /\ \A w \in Users \ {v} : user'[w] = user[w]
    <3>1. user' = [user EXCEPT ![v].pw = pw, ![v].top = pw, ![v].stale = FALSE]
      BY <1>1, <2>1, <2>2
    <3> HIDE DEF v, pw
    <3> QED BY <1>1, <2>2, <2>3, <3>1, PasswordWritten
  <2>5. v = u
    BY <1>3, <2>4
  <2> QED BY <1>2, <2>4, <2>5
<1>6. ASSUME NEW c \in Calls, S!Auth(c), ~S!LoginCommit(c), ~S!ResetCommit(c) PROVE FALSE
  <2>1. user' = user
    BY <1>6 DEF S!Auth, S!LoginRead, S!ForgotRead, S!SamlAcs, S!RefreshRead, S!ResetRead, S!SsoState,
         S!RedeemRead, S!ClientRead, S!ClientWrite, S!RefreshCommit, S!Reuse, S!ForgotCommit,
         S!SsoExchange, S!SsoCommit, S!RedeemUse, S!RedeemMint
  <2> QED BY <1>3, <2>1
<1>7. ASSUME NEW v \in Users, S!Admin(v) PROVE FALSE
  <2>1. PICK b \in BOOLEAN, f \in BOOLEAN :
          \/ user' = [user EXCEPT ![v].active = b]
          \/ user' = [user EXCEPT ![v].active = TRUE, ![v].super = f]
          \/ user' = [user EXCEPT ![v].member = b]
          \/ user' = user
    <3>1. CASE S!Logout(v) \/ S!Authorize(v) \/ S!Deactivate(v) \/ S!RemoveMember(v)
      BY <3>1 DEF S!Logout, S!Authorize, S!Deactivate, S!RemoveMember
    <3>2. ASSUME NEW b \in BOOLEAN, S!Reactivate(v, b) \/ S!ScimActive(v, b)
          PROVE  \/ user' = [user EXCEPT ![v].active = b]
                 \/ user' = [user EXCEPT ![v].active = TRUE, ![v].super = b]
      BY <3>2 DEF S!Reactivate, S!ScimActive
    <3>3. CASE S!ChangeMembership(v)
      <4>1. user' = [user EXCEPT ![v].member = ~user[v].member]
        BY <1>1, <3>3 DEF S!ChangeMembership
      <4>2. (~user[v].member) \in BOOLEAN
        OBVIOUS
      <4> QED BY <4>1, <4>2, Zenon
    <3> QED BY <1>7, <3>1, <3>2, <3>3 DEF S!Admin
  <2>2. user'[u].pw = user[u].pw
    BY <1>1, <2>1, FlagsWritten
  <2> QED BY <1>3, <2>2
<1>8. CASE S!SsoStart \/ S!RevokeSessions
  BY <1>3, <1>8 DEF S!SsoStart, S!RevokeSessions
<1> QED BY <1>4, <1>5, <1>6, <1>7, <1>8 DEF S!Next

(* A step that loses a URI is a registration that was overtaken.           *)
LEMMA RedirectsStep ==
  ASSUME SessionsInv, S!Next
  PROVE  S!RedirectsKeptStep
<1> SUFFICES ASSUME ~(uris \subseteq uris')
             PROVE  \E c \in Calls : call[c].pc = "client" /\ call[c].late
  BY DEF S!RedirectsKeptStep
<1>1. uris' # uris
  OBVIOUS
<1>2. ASSUME NEW c \in Calls, S!Auth(c)
      PROVE  \E d \in Calls : call[d].pc = "client" /\ call[d].late
  <2>1. CASE \E new \in Uris : S!ClientWrite(c, new)
    <3>1. call[c].pc = "client" /\ call[c].uris \subseteq uris'
      BY <2>1 DEF S!ClientWrite
    <3>2. call[c].late
      BY <3>1 DEF SessionsInv, UrisHeld
    <3> QED BY <3>1, <3>2
  <2>2. CASE ~\E new \in Uris : S!ClientWrite(c, new)
    <3>1. uris' = uris
      BY <1>2, <2>2 DEF S!Auth, S!LoginRead, S!ForgotRead, S!SamlAcs, S!RefreshRead, S!ResetRead,
         S!SsoState, S!RedeemRead, S!ClientRead, S!LoginCommit, S!RefreshCommit, S!Reuse,
         S!ForgotCommit, S!ResetCommit, S!SsoExchange, S!SsoCommit, S!RedeemUse, S!RedeemMint
    <3> QED BY <1>1, <3>1
  <2> QED BY <2>1, <2>2
<1>3. ASSUME NEW u \in Users, S!Admin(u) PROVE FALSE
  BY <1>1, <1>3 DEF S!Admin, S!Logout, S!Deactivate, S!RemoveMember, S!ChangeMembership,
     S!Authorize, S!Reactivate, S!ScimActive
<1>4. CASE S!SsoStart \/ S!RevokeSessions
  BY <1>1, <1>4 DEF S!SsoStart, S!RevokeSessions
<1> QED BY <1>2, <1>3, <1>4 DEF S!Next

-----------------------------------------------------------------------------
(* The rows of connections, of logins begun, and the calls.                *)
SlugType == [name : {b.name : b \in ConnectionBodies}, protocol : {"oidc", "saml"}, suffix : Nat]

RowType == [org : Orgs, slug : SlugType, protocol : {"oidc", "saml"}, issuer : {i1, i2, None},
            secret : {i1, i2, None}, domain : {d1, None}, enabled : BOOLEAN]

LoginType == [i : Slots, user : {u1, u2}, issuer : {i1, i2}, code : {"none", "issued", "used"},
              here : BOOLEAN]

CreateType == [pc : {"create"}, org : Orgs, body : ConnectionBodies, slug : SlugType,
               overlap : BOOLEAN]
UpdateType == [pc : {"update", "patch"}, i : Slots, saw : RowType, new : RowType]
StartType == [pc : {"start"}, i : Slots, user : {u1, u2}, issuer : {i1, i2}]
BlobType == [pc : {"blob"}, k : Nat]
ExchangeType == [pc : {"exchange"}, k : Nat, row : RowType, now : {i1, i2, None}]

RequestType == [pc : {"idle"}] \cup CreateType \cup UpdateType \cup StartType \cup BlobType
               \cup ExchangeType

(* The pair of secret and issuer of a row is one that existed; a suffix    *)
(* that was given out is not given out again.                              *)
RowsPaired ==
  /\ \A i \in P!Rows : /\ <<conn[i].secret, conn[i].issuer>> \in paired
                       /\ conn[i].slug.suffix <= changes
  /\ \A i, j \in P!Rows : conn[i].org = conn[j].org /\ conn[i].slug = conn[j].slug => i = j

(* A creation takes a slug that is free, unless it met another; any two of *)
(* them have met.                                                          *)
CreationsHeld ==
  \A c \in Calls : request[c].pc = "create" =>
    /\ request[c].slug.suffix <= changes
    /\ ~request[c].overlap => ~P!SlugTaken(request[c].org, request[c].slug)
    /\ \A d \in Calls \ {c} : request[d].pc = "create" => request[c].overlap

(* An update leaves the switch alone; a login that is about to send the    *)
(* secret of a row knows the issuer of that row.                           *)
RequestsHeld ==
  \A c \in Calls :
    /\ request[c].pc = "update" => request[c].new.enabled = request[c].saw.enabled
    /\ request[c].pc \in {"blob", "exchange"} => request[c].k \in DOMAIN bundle
    /\ request[c].pc = "exchange" =>
         /\ request[c].now = request[c].row.issuer
         /\ <<request[c].row.secret, request[c].row.issuer>> \in paired

(* What holds of connections and of the logins through them.               *)
ProvidersInv ==
  /\ conn \in [Slots -> RowType \cup {None, Gone}]
  /\ bundle \in Seq(LoginType)
  /\ request \in [Calls -> RequestType]
  /\ changes \in Nat
  /\ RowsPaired /\ CreationsHeld /\ RequestsHeld
  /\ P!SecretsExplained /\ P!SentWhereBegun /\ P!RefusedByOverlap

(* What the administrators send, and the slugs that come of it.            *)
LEMMA ProviderConstants ==
  ASSUME P!SsoAssumption
  PROVE  /\ \A b \in ConnectionBodies :
              /\ b.issuer \in {i1, i2, None} /\ b.secret \in {i1, i2, None}
              /\ b.domain \in {d1, None} /\ b.protocol \in {"oidc", "saml"}
              /\ \A n \in Nat : P!Slug(b, n) \in SlugType /\ P!Slug(b, n).suffix = n
         /\ MaxChanges \in Nat /\ MaxLogins \in Nat /\ None \notin {i1, i2}
<1>1. ConnectionBodies \subseteq [name : STRING, protocol : {"oidc", "saml"},
                                  issuer : {i1, i2} \cup {None}, secret : {i1, i2} \cup {None},
                                  domain : {d1} \cup {None}]
  BY DEF P!SsoAssumption
<1>2. ASSUME NEW b \in ConnectionBodies
      PROVE  /\ b.issuer \in {i1, i2, None} /\ b.secret \in {i1, i2, None}
             /\ b.domain \in {d1, None} /\ b.protocol \in {"oidc", "saml"}
             /\ \A n \in Nat : P!Slug(b, n) \in SlugType /\ P!Slug(b, n).suffix = n
  <2>1. /\ b.issuer \in {i1, i2, None} /\ b.secret \in {i1, i2, None}
        /\ b.domain \in {d1, None} /\ b.protocol \in {"oidc", "saml"}
    BY <1>1, <1>2
  <2>2. ASSUME NEW n \in Nat
        PROVE  P!Slug(b, n) \in SlugType /\ P!Slug(b, n).suffix = n
    <3> DEFINE names == {a.name : a \in ConnectionBodies}
               x == b.name
               p == b.protocol
    <3>1. x \in names /\ p \in {"oidc", "saml"}
      BY <2>1
    <3>2. P!Slug(b, n) = [name |-> x, protocol |-> p, suffix |-> n]
      BY DEF P!Slug
    <3>3. SlugType = [name : names, protocol : {"oidc", "saml"}, suffix : Nat]
      BY DEF SlugType
    <3> HIDE DEF names, x, p
    <3> QED BY <2>2, <3>1, <3>2, <3>3
  <2> QED BY <2>1, <2>2
<1> QED BY <1>2 DEF P!SsoAssumption

(* A call's record is that of the stage it is at.                          *)
LEMMA RequestStage ==
  ASSUME NEW k \in RequestType
  PROVE  /\ k.pc = "create" => k \in CreateType
         /\ k.pc \in {"update", "patch"} => k \in UpdateType
         /\ k.pc = "start" => k \in StartType
         /\ k.pc = "blob" => k \in BlobType
         /\ k.pc = "exchange" => k \in ExchangeType
BY DEF RequestType, CreateType, UpdateType, StartType, BlobType, ExchangeType

(* A call that does nothing.                                               *)
LEMMA IdleStage == P!Idle \in RequestType /\ P!Idle.pc = "idle"
BY DEF P!Idle, RequestType

-----------------------------------------------------------------------------
(* The parts of the invariant that a step does not touch.                  *)
LEMMA PairsKept ==
  ASSUME RowsPaired, conn' = conn, paired \subseteq paired', changes \in Nat, changes' \in Nat,
         changes <= changes', conn \in [Slots -> RowType \cup {None, Gone}]
  PROVE  RowsPaired'
<1>1. P!Rows' = P!Rows
  BY DEF P!Rows
<1>2. ASSUME NEW i \in P!Rows
      PROVE  <<conn[i].secret, conn[i].issuer>> \in paired' /\ conn[i].slug.suffix <= changes'
  <2>1. conn[i] \in RowType
    BY <1>2 DEF P!Rows
  <2>2. conn[i].slug \in SlugType
    BY <2>1 DEF RowType
  <2>3. conn[i].slug.suffix \in Nat
    BY <2>2 DEF SlugType
  <2>4. <<conn[i].secret, conn[i].issuer>> \in paired /\ conn[i].slug.suffix <= changes
    BY DEF RowsPaired
  <2> QED BY <2>3, <2>4
<1> QED BY <1>1, <1>2 DEF RowsPaired

(* No slug is taken, and no creation begins.                               *)
LEMMA CreationsKept ==
  ASSUME CreationsHeld, request \in [Calls -> RequestType],
         changes \in Nat, changes' \in Nat, changes <= changes',
         \A i \in P!Rows' : /\ i \in P!Rows /\ conn'[i].org = conn[i].org
                            /\ conn'[i].slug = conn[i].slug,
         \A d \in Calls : request'[d] = request[d] \/ request'[d].pc # "create"
  PROVE  CreationsHeld'
<1> SUFFICES ASSUME NEW c \in Calls, request'[c].pc = "create"
             PROVE  /\ request'[c].slug.suffix <= changes'
                    /\ ~request'[c].overlap => ~P!SlugTaken(request[c].org, request[c].slug)'
                    /\ \A d \in Calls \ {c} : request'[d].pc = "create" => request'[c].overlap
  BY DEF CreationsHeld
<1>1. request'[c] = request[c]
  OBVIOUS
<1>2. request[c].slug.suffix \in Nat
  <2>1. request[c] \in CreateType
    BY <1>1, RequestStage
  <2>2. request[c].slug \in SlugType
    BY <2>1 DEF CreateType
  <2> QED BY <2>2 DEF SlugType
<1>3. request[c].slug.suffix <= changes'
  BY <1>1, <1>2 DEF CreationsHeld
<1>4. ~request[c].overlap => ~P!SlugTaken(request[c].org, request[c].slug)'
  BY <1>1 DEF CreationsHeld, P!SlugTaken
<1>5. \A d \in Calls \ {c} : request'[d].pc = "create" => request[c].overlap
  BY <1>1 DEF CreationsHeld
<1> QED BY <1>1, <1>3, <1>4, <1>5

(* No update, callback or exchange begins.                                 *)
LEMMA RequestsKept ==
  ASSUME RequestsHeld, paired \subseteq paired', DOMAIN bundle \subseteq DOMAIN bundle',
         \A d \in Calls : request'[d] = request[d]
                           \/ request'[d].pc \in {"idle", "create", "patch", "start"}
  PROVE  RequestsHeld'
<1> SUFFICES ASSUME NEW c \in Calls, request'[c] = request[c]
             PROVE  /\ request[c].pc = "update" => request[c].new.enabled = request[c].saw.enabled
                    /\ request[c].pc \in {"blob", "exchange"} => request[c].k \in DOMAIN bundle'
                    /\ request[c].pc = "exchange" =>
                         /\ request[c].now = request[c].row.issuer
                         /\ <<request[c].row.secret, request[c].row.issuer>> \in paired'
  BY DEF RequestsHeld
<1> QED BY DEF RequestsHeld

(* What was sent stays explained as rows come and go.                      *)
LEMMA SentKept ==
  ASSUME P!SecretsExplained, P!SentWhereBegun, paired \subseteq paired', sent' = sent
  PROVE  P!SecretsExplained' /\ P!SentWhereBegun'
BY DEF P!SecretsExplained, P!SentWhereBegun

-----------------------------------------------------------------------------
(* A creation reads whether its slug is free, and meets the others.        *)
LEMMA CreateReadStep ==
  ASSUME P!SsoAssumption, ProvidersInv,
         NEW c \in Calls, NEW o \in Orgs, NEW b \in ConnectionBodies, P!CreateRead(c, o, b)
  PROVE  ProvidersInv'
<1> DEFINE slug == P!Slug(b, IF P!SlugTaken(o, P!Slug(b, 0)) THEN changes + 1 ELSE 0)
           met == P!Creating # {}
           new == [pc |-> "create", org |-> o, body |-> b, slug |-> slug, overlap |-> met]
           m == P!Met
<1>1. /\ request \in [Calls -> RequestType] /\ changes \in Nat /\ changes' = changes + 1
      /\ RowsPaired /\ CreationsHeld /\ RequestsHeld /\ request[c].pc = "idle"
      /\ request' = [m EXCEPT ![c] = new]
      /\ UNCHANGED <<conn, bundle, paired, sent, logins, refused>>
      /\ conn \in [Slots -> RowType \cup {None, Gone}]
      /\ P!SecretsExplained /\ P!SentWhereBegun /\ P!RefusedByOverlap
  BY DEF ProvidersInv, P!CreateRead, P!Changes
<1>2. slug \in SlugType /\ slug.suffix <= changes' /\ ~P!SlugTaken(o, slug)
  <2>1. /\ P!Slug(b, 0) \in SlugType /\ P!Slug(b, 0).suffix = 0
        /\ P!Slug(b, changes + 1) \in SlugType /\ P!Slug(b, changes + 1).suffix = changes + 1
    BY <1>1, ProviderConstants
  <2>2. CASE ~P!SlugTaken(o, P!Slug(b, 0))
    BY <1>1, <2>1, <2>2
  <2>3. CASE P!SlugTaken(o, P!Slug(b, 0))
    <3>1. slug = P!Slug(b, changes + 1)
      BY <2>3
    <3>2. \A i \in P!Rows : conn[i].slug # slug
      <4> SUFFICES ASSUME NEW i \in P!Rows, conn[i].slug = slug PROVE FALSE
        OBVIOUS
      <4>1. conn[i].slug.suffix <= changes
        BY <1>1 DEF RowsPaired
      <4> HIDE DEF slug
      <4> QED BY <1>1, <2>1, <3>1, <4>1
    <3>3. ~P!SlugTaken(o, slug)
      BY <3>2 DEF P!SlugTaken
    <3> QED BY <1>1, <2>1, <3>1, <3>3
  <2> QED BY <2>2, <2>3
<1>3. met \in BOOLEAN
  OBVIOUS
<1> HIDE DEF slug
<1>4. new \in CreateType /\ new.pc = "create" /\ new.org = o /\ new.slug = slug /\ new.overlap = met
  <2>1. \A x \in BOOLEAN : LET r == [pc |-> "create", org |-> o, body |-> b, slug |-> slug,
                                     overlap |-> x] IN
          /\ r \in CreateType /\ r.pc = "create" /\ r.org = o /\ r.slug = slug /\ r.overlap = x
    BY <1>2 DEF CreateType
  <2> HIDE DEF met
  <2> QED BY <1>3, <2>1, Zenon
<1>5. ASSUME NEW d \in Calls
      PROVE  /\ m[d] \in RequestType /\ m[d].pc = request[d].pc
             /\ request[d].pc # "create" => m[d] = request[d]
             /\ request[d].pc = "create" => /\ m[d] \in CreateType /\ m[d].overlap
                                            /\ m[d].org = request[d].org
                                            /\ m[d].slug = request[d].slug
  <2>1. request[d] \in RequestType
    BY <1>1
  <2>2. CASE request[d].pc = "create"
    <3>1. m[d] = [request[d] EXCEPT !.overlap = TRUE]
      BY <2>2 DEF P!Met, P!Creating
    <3>2. request[d] \in CreateType
      BY <2>1, <2>2, RequestStage
    <3>3. /\ m[d] \in CreateType /\ m[d].overlap /\ m[d].org = request[d].org
          /\ m[d].slug = request[d].slug /\ m[d].pc = request[d].pc
      BY <3>1, <3>2 DEF CreateType
    <3> QED BY <2>2, <3>3 DEF RequestType
  <2>3. CASE request[d].pc # "create"
    <3>1. m[d] = request[d]
      BY <2>3 DEF P!Met, P!Creating
    <3> QED BY <2>1, <2>3, <3>1
  <2> QED BY <2>2, <2>3
<1>6. m = [d \in Calls |-> m[d]]
  BY DEF P!Met
<1>7. new \in RequestType
  BY <1>4 DEF RequestType
<1>8. P!Creating = {d \in Calls : request[d].pc = "create"}
  BY DEF P!Creating
<1> HIDE DEF m, new
<1>9. /\ request' \in [Calls -> RequestType] /\ request'[c] = new
      /\ \A d \in Calls \ {c} : request'[d] = m[d]
  BY <1>1, <1>5, <1>6, <1>7
<1>10. changes' \in Nat /\ changes <= changes'
  BY <1>1
<1>11. RowsPaired'
  BY <1>1, <1>10, PairsKept
<1>12. CreationsHeld'
  <2>1. ASSUME NEW d \in Calls, request'[d].pc = "create", d # c
        PROVE  /\ request'[d].slug.suffix <= changes'
               /\ request'[d].overlap
               /\ met
    <3>1. request[d].pc = "create" /\ request'[d] = m[d]
      BY <1>5, <1>9, <2>1
    <3>2. request[d] \in CreateType
      BY <1>1, <3>1, RequestStage
    <3>3. request[d].slug \in SlugType
      BY <3>2 DEF CreateType
    <3>4. request[d].slug.suffix \in Nat
      BY <3>3 DEF SlugType
    <3>5. request[d].slug.suffix <= changes
      BY <1>1, <3>1 DEF CreationsHeld
    <3>6. met
      BY <1>8, <3>1
    <3>7. request'[d].overlap /\ request'[d].slug = request[d].slug
      BY <1>5, <3>1
    <3> HIDE DEF met
    <3> QED BY <1>1, <3>4, <3>5, <3>6, <3>7
  <2>2. \A i \in P!Rows' : ~(conn'[i].org = o /\ conn'[i].slug = slug)
    BY <1>1, <1>2 DEF P!SlugTaken, P!Rows
  <2> HIDE DEF met
  <2>3. ASSUME NEW d \in Calls, request'[d].pc = "create"
        PROVE  /\ request'[d].slug.suffix <= changes'
               /\ ~request'[d].overlap =>
                    \A i \in P!Rows' : ~(/\ conn'[i].org = request'[d].org
                                         /\ conn'[i].slug = request'[d].slug)
               /\ \A e \in Calls \ {d} : request'[e].pc = "create" => request'[d].overlap
    <3>1. CASE d # c
      BY <2>1, <2>3, <3>1
    <3>2. CASE d = c
      <4>1. /\ request'[d].slug = slug /\ request'[d].org = o /\ request'[d].overlap = met
        BY <1>4, <1>9, <3>2
      <4>2. \A e \in Calls \ {d} : request'[e].pc = "create" => request'[d].overlap
        BY <2>1, <3>2, <4>1
      <4> QED BY <1>2, <2>2, <4>1, <4>2
    <3> QED BY <3>1, <3>2
  <2> QED BY <2>3 DEF CreationsHeld, P!SlugTaken
<1>13. RequestsHeld'
  <2>1. \A d \in Calls : request'[d] = request[d]
                          \/ request'[d].pc \in {"idle", "create", "patch", "start"}
    BY <1>4, <1>5, <1>9
  <2> QED BY <1>1, <2>1, RequestsKept
<1>14. P!SecretsExplained' /\ P!SentWhereBegun'
  BY <1>1, SentKept
<1> QED BY <1>1, <1>9, <1>10, <1>11, <1>12, <1>13, <1>14 DEF ProvidersInv, P!RefusedByOverlap

(* A call that moves on leaves the others where they are.                  *)
LEMMA RequestMoves ==
  ASSUME request \in [Calls -> RequestType], NEW c \in Calls, NEW r \in RequestType,
         request' = [request EXCEPT ![c] = r]
  PROVE  /\ request' \in [Calls -> RequestType] /\ request'[c] = r
         /\ \A d \in Calls \ {c} : request'[d] = request[d]
OBVIOUS

(* The row of a creation is a row, with the slug that was chosen.          *)
LEMMA NewRowIsOne ==
  ASSUME P!SsoAssumption, NEW k \in CreateType
  PROVE  LET row == P!NewRow(k.org, k.slug, k.body)
         IN row \in RowType /\ row.org = k.org /\ row.slug = k.slug
<1>1. k.org \in Orgs /\ k.slug \in SlugType /\ k.body \in ConnectionBodies
  BY DEF CreateType
<1>2. /\ k.body.issuer \in {i1, i2, None} /\ k.body.secret \in {i1, i2, None}
      /\ k.body.domain \in {d1, None} /\ k.body.protocol \in {"oidc", "saml"}
  BY <1>1, ProviderConstants
<1>3. P!NewRow(k.org, k.slug, k.body) =
        [org |-> k.org, slug |-> k.slug, protocol |-> k.body.protocol, issuer |-> k.body.issuer,
         secret |-> k.body.secret, domain |-> k.body.domain, enabled |-> TRUE]
  BY DEF P!NewRow
<1> QED BY <1>1, <1>2, <1>3 DEF RowType

(* A creation ends: its slug is free, or the index refuses it.             *)
LEMMA CreateCommitStep ==
  ASSUME P!SsoAssumption, ProvidersInv, None # Gone,
         NEW c \in Calls, P!CreateCommit(c)
  PROVE  ProvidersInv'
<1>1. /\ request \in [Calls -> RequestType] /\ changes \in Nat /\ changes' = changes
      /\ RowsPaired /\ CreationsHeld /\ RequestsHeld /\ request[c].pc = "create"
      /\ request' = [request EXCEPT ![c] = P!Idle]
      /\ UNCHANGED <<bundle, sent, logins>> /\ bundle \in Seq(LoginType)
      /\ conn \in [Slots -> RowType \cup {None, Gone}]
      /\ P!SecretsExplained /\ P!SentWhereBegun /\ P!RefusedByOverlap
  BY DEF ProvidersInv, P!CreateCommit, P!Ends
<1>2. /\ request' \in [Calls -> RequestType] /\ request'[c].pc = "idle"
      /\ \A d \in Calls \ {c} : request'[d] = request[d]
  BY <1>1, RequestMoves, IdleStage
<1>3. \A d \in Calls : request'[d] = request[d] \/ request'[d].pc = "idle"
  BY <1>2
<1>4. request[c] \in CreateType
  BY <1>1, RequestStage
<1>5. CASE P!SlugTaken(request[c].org, request[c].slug)
  <2>1. refused' = refused \cup {request[c].overlap} /\ conn' = conn /\ paired' = paired
    BY <1>5 DEF P!CreateCommit
  <2>2. request[c].overlap \in BOOLEAN
    BY <1>4 DEF CreateType
  <2>3. request[c].overlap = TRUE
    BY <1>1, <1>5, <2>2 DEF CreationsHeld
  <2>4. P!RefusedByOverlap'
    BY <1>1, <2>1, <2>3 DEF P!RefusedByOverlap
  <2>5. RowsPaired'
    BY <1>1, <2>1, PairsKept
  <2>6. \A i \in P!Rows' : /\ i \in P!Rows /\ conn'[i].org = conn[i].org
                          /\ conn'[i].slug = conn[i].slug
    BY <2>1 DEF P!Rows
  <2>7. CreationsHeld'
    BY <1>1, <1>3, <2>6, CreationsKept
  <2>8. RequestsHeld'
    BY <1>1, <1>3, <2>1, RequestsKept
  <2>9. P!SecretsExplained' /\ P!SentWhereBegun'
    BY <1>1, <2>1, SentKept
  <2> QED BY <1>1, <1>2, <2>1, <2>4, <2>5, <2>7, <2>8, <2>9 DEF ProvidersInv
<1>6. CASE ~P!SlugTaken(request[c].org, request[c].slug)
  <2> DEFINE k == request[c]
             row == P!NewRow(k.org, k.slug, k.body)
  <2>1. PICK i \in Slots : conn[i] = None /\ conn' = [conn EXCEPT ![i] = row]
    BY <1>6 DEF P!CreateCommit
  <2>2. paired' = paired \cup {<<row.secret, row.issuer>>} /\ refused' = refused
    BY <1>6 DEF P!CreateCommit
  <2>3. row \in RowType /\ row.org = k.org /\ row.slug = k.slug
    BY <1>4, NewRowIsOne
  <2>4. k.slug.suffix <= changes
    BY <1>1 DEF CreationsHeld
  <2>5. \A j \in P!Rows : ~(conn[j].org = k.org /\ conn[j].slug = k.slug)
    BY <1>6 DEF P!SlugTaken
  <2> HIDE DEF row, k
  <2>6. /\ conn' \in [Slots -> RowType \cup {None, Gone}] /\ conn'[i] = row
        /\ \A j \in Slots \ {i} : conn'[j] = conn[j]
    BY <1>1, <2>1, <2>3
  <2>7. \A j \in P!Rows' : j = i \/ (j \in P!Rows /\ conn'[j] = conn[j])
    BY <2>6 DEF P!Rows
  <2>8. RowsPaired'
    <3>1. ASSUME NEW j \in P!Rows'
          PROVE  <<conn'[j].secret, conn'[j].issuer>> \in paired' /\ conn'[j].slug.suffix <= changes'
      <4>1. CASE j = i
        BY <1>1, <2>2, <2>3, <2>4, <2>6, <4>1
      <4>2. CASE j # i
        BY <1>1, <2>2, <2>7, <4>2 DEF RowsPaired
      <4> QED BY <4>1, <4>2
    <3>2. ASSUME NEW j \in P!Rows', NEW l \in P!Rows',
                 conn'[j].org = conn'[l].org, conn'[j].slug = conn'[l].slug
          PROVE  j = l
      <4>1. CASE j = i /\ l # i
        BY <2>3, <2>5, <2>6, <2>7, <3>2, <4>1
      <4>2. CASE j # i /\ l = i
        BY <2>3, <2>5, <2>6, <2>7, <3>2, <4>2
      <4>3. CASE j # i /\ l # i
        BY <1>1, <2>7, <3>2, <4>3 DEF RowsPaired
      <4> QED BY <4>1, <4>2, <4>3
    <3> QED BY <3>1, <3>2 DEF RowsPaired
  <2>9. CreationsHeld'
    <3> SUFFICES ASSUME NEW d \in Calls, request'[d].pc = "create"
                 PROVE  /\ request'[d].slug.suffix <= changes'
                        /\ request'[d].overlap
      BY DEF CreationsHeld
    <3>1. d # c /\ request'[d] = request[d]
      BY <1>2
    <3> QED BY <1>1, <3>1 DEF CreationsHeld
  <2>10. RequestsHeld'
    BY <1>1, <1>3, <2>2, RequestsKept
  <2>11. P!SecretsExplained' /\ P!SentWhereBegun'
    BY <1>1, <2>2, SentKept
  <2>12. P!RefusedByOverlap'
    BY <1>1, <2>2 DEF P!RefusedByOverlap
  <2> QED BY <1>1, <1>2, <2>6, <2>8, <2>9, <2>10, <2>11, <2>12 DEF ProvidersInv
<1> QED BY <1>5, <1>6

-----------------------------------------------------------------------------
(* An update reads the row that it will write.                             *)
LEMMA UpdateReadStep ==
  ASSUME P!SsoAssumption, ProvidersInv, NEW c \in Calls, NEW i \in Slots,
         \/ \E b \in ConnectionBodies : P!Update(c, i, b)
         \/ \E on \in BOOLEAN : P!Patch(c, i, on)
  PROVE  ProvidersInv'
<1>1. /\ request \in [Calls -> RequestType] /\ changes \in Nat /\ changes' = changes + 1
      /\ RowsPaired /\ CreationsHeld /\ RequestsHeld /\ i \in P!Rows
      /\ UNCHANGED <<conn, bundle, paired, sent, logins, refused>> /\ bundle \in Seq(LoginType)
      /\ conn \in [Slots -> RowType \cup {None, Gone}]
      /\ P!SecretsExplained /\ P!SentWhereBegun /\ P!RefusedByOverlap
  BY DEF ProvidersInv, P!Update, P!Patch, P!Changes
<1>2. conn[i] \in RowType
  BY <1>1 DEF P!Rows
<1>3. PICK r \in UpdateType : /\ request' = [request EXCEPT ![c] = r]
                              /\ r.pc = "update" => r.new.enabled = r.saw.enabled
  <2>1. CASE \E b \in ConnectionBodies : P!Update(c, i, b)
    <3>1. PICK b \in ConnectionBodies : P!Update(c, i, b)
      BY <2>1
    <3> DEFINE new == P!Put(conn[i], b)
               r == [pc |-> "update", i |-> i, saw |-> conn[i], new |-> new]
    <3>2. new \in RowType /\ new.enabled = conn[i].enabled
      <4>1. b.issuer \in {i1, i2, None} /\ b.secret \in {i1, i2, None} /\ b.domain \in {d1, None}
        BY ProviderConstants
      <4> QED BY <1>2, <4>1 DEF P!Put, RowType
    <3>3. request' = [request EXCEPT ![c] = r]
      BY <3>1 DEF P!Update
    <3> HIDE DEF new
    <3>4. r \in UpdateType /\ r.new.enabled = r.saw.enabled
      BY <1>2, <3>2 DEF UpdateType
    <3> QED BY <3>3, <3>4
  <2>2. CASE \E on \in BOOLEAN : P!Patch(c, i, on)
    <3>1. PICK on \in BOOLEAN : P!Patch(c, i, on)
      BY <2>2
    <3> DEFINE new == [conn[i] EXCEPT !.enabled = on]
               r == [pc |-> "patch", i |-> i, saw |-> conn[i], new |-> new]
    <3>2. new \in RowType
      BY <1>2, <3>1 DEF RowType
    <3>3. request' = [request EXCEPT ![c] = r]
      BY <3>1 DEF P!Patch
    <3> HIDE DEF new
    <3>4. r \in UpdateType /\ r.pc = "patch"
      BY <1>2, <3>2 DEF UpdateType
    <3> QED BY <3>3, <3>4
  <2> QED BY <2>1, <2>2
<1>4. r \in RequestType /\ r.pc \in {"update", "patch"}
  BY DEF RequestType, UpdateType
<1>5. /\ request' \in [Calls -> RequestType] /\ request'[c] = r
      /\ \A d \in Calls \ {c} : request'[d] = request[d]
  BY <1>1, <1>3, <1>4, RequestMoves
<1>6. changes' \in Nat /\ changes <= changes'
  BY <1>1
<1>7. RowsPaired'
  BY <1>1, <1>6, PairsKept
<1>8. CreationsHeld'
  <2>1. \A j \in P!Rows' : /\ j \in P!Rows /\ conn'[j].org = conn[j].org
                          /\ conn'[j].slug = conn[j].slug
    BY <1>1 DEF P!Rows
  <2>2. \A d \in Calls : request'[d] = request[d] \/ request'[d].pc # "create"
    BY <1>4, <1>5
  <2> QED BY <1>1, <1>6, <2>1, <2>2, CreationsKept
<1>9. RequestsHeld'
  BY <1>1, <1>3, <1>4, <1>5 DEF RequestsHeld
<1>10. P!SecretsExplained' /\ P!SentWhereBegun'
  BY <1>1, SentKept
<1> QED BY <1>1, <1>5, <1>6, <1>7, <1>8, <1>9, <1>10 DEF ProvidersInv, P!RefusedByOverlap

(* An update leaves the organisation and the slug alone.                   *)
LEMMA WrittenIsRow ==
  ASSUME NEW row \in RowType, NEW saw \in RowType, NEW new \in RowType
  PROVE  LET to == P!Written(row, saw, new)
         IN to \in RowType /\ to.org = row.org /\ to.slug = row.slug
            /\ to.enabled = P!Column(row.enabled, saw.enabled, new.enabled)
BY DEF P!Written, P!Column, RowType

(* An update writes the columns that it changes.                           *)
LEMMA UpdateCommitStep ==
  ASSUME P!SsoAssumption, ProvidersInv, NEW c \in Calls, P!UpdateCommit(c)
  PROVE  ProvidersInv'
<1>1. /\ request \in [Calls -> RequestType] /\ changes \in Nat /\ changes' = changes
      /\ RowsPaired /\ CreationsHeld /\ RequestsHeld /\ request[c].pc \in {"update", "patch"}
      /\ request' = [request EXCEPT ![c] = P!Idle]
      /\ UNCHANGED <<bundle, sent, logins, refused>> /\ bundle \in Seq(LoginType)
      /\ conn \in [Slots -> RowType \cup {None, Gone}]
      /\ P!SecretsExplained /\ P!SentWhereBegun /\ P!RefusedByOverlap
  BY DEF ProvidersInv, P!UpdateCommit, P!Ends
<1>2. /\ request' \in [Calls -> RequestType]
      /\ \A d \in Calls : request'[d] = request[d] \/ request'[d].pc = "idle"
  <2>1. /\ request' \in [Calls -> RequestType] /\ request'[c].pc = "idle"
        /\ \A d \in Calls \ {c} : request'[d] = request[d]
    BY <1>1, RequestMoves, IdleStage
  <2> QED BY <2>1
<1>3. /\ conn' \in [Slots -> RowType \cup {None, Gone}] /\ paired \subseteq paired'
      /\ RowsPaired'
      /\ \A j \in P!Rows' : /\ j \in P!Rows /\ conn'[j].org = conn[j].org
                          /\ conn'[j].slug = conn[j].slug
  <2> DEFINE i == request[c].i
             row == P!Written(conn[i], request[c].saw, request[c].new)
  <2>1. request[c] \in UpdateType
    BY <1>1, RequestStage
  <2>2. i \in Slots /\ request[c].saw \in RowType /\ request[c].new \in RowType
    BY <2>1 DEF UpdateType
  <2>3. CASE i \notin P!Rows
    <3>1. conn' = conn /\ paired' = paired
      BY <2>3 DEF P!UpdateCommit
    <3>2. RowsPaired'
      BY <1>1, <3>1, PairsKept
    <3> QED BY <1>1, <3>1, <3>2 DEF P!Rows
  <2>4. CASE i \in P!Rows
    <3>1. conn[i] \in RowType /\ conn[i] \notin {None, Gone}
      BY <1>1, <2>4 DEF P!Rows
    <3>2. row \in RowType /\ row.org = conn[i].org /\ row.slug = conn[i].slug
      BY <2>2, <3>1, WrittenIsRow
    <3>3. conn' = [conn EXCEPT ![i] = row] /\ paired' = paired \cup {<<row.secret, row.issuer>>}
      BY <2>4 DEF P!UpdateCommit
    <3> HIDE DEF i, row
    <3>4. /\ conn' \in [Slots -> RowType \cup {None, Gone}] /\ conn'[i] = row
          /\ \A j \in Slots \ {i} : conn'[j] = conn[j]
      BY <1>1, <2>2, <3>2, <3>3
    <3>5. \A j \in P!Rows' : /\ j \in P!Rows /\ conn'[j].org = conn[j].org
                            /\ conn'[j].slug = conn[j].slug
      BY <2>4, <3>2, <3>4 DEF P!Rows
    <3>6. ASSUME NEW j \in P!Rows'
          PROVE  <<conn'[j].secret, conn'[j].issuer>> \in paired' /\ conn'[j].slug.suffix <= changes'
      <4>1. conn[j].slug.suffix <= changes' /\ conn'[j].slug = conn[j].slug
        BY <1>1, <3>5 DEF RowsPaired
      <4>2. CASE j = i
        BY <3>3, <3>4, <4>1, <4>2
      <4>3. CASE j # i
        <5>1. conn'[j] = conn[j] /\ j \in P!Rows
          BY <3>4, <3>5, <4>3 DEF P!Rows
        <5> QED BY <1>1, <3>3, <4>1, <5>1 DEF RowsPaired
      <4> QED BY <4>2, <4>3
    <3>7. ASSUME NEW j \in P!Rows', NEW l \in P!Rows',
                 conn'[j].org = conn'[l].org, conn'[j].slug = conn'[l].slug
          PROVE  j = l
      BY <1>1, <3>5, <3>7 DEF RowsPaired
    <3>8. RowsPaired'
      BY <3>6, <3>7 DEF RowsPaired
    <3> QED BY <3>3, <3>4, <3>5, <3>8
  <2> QED BY <2>3, <2>4
<1>4. CreationsHeld'
  BY <1>1, <1>2, <1>3, CreationsKept
<1>5. RequestsHeld'
  BY <1>1, <1>2, <1>3, RequestsKept
<1>6. P!SecretsExplained' /\ P!SentWhereBegun'
  BY <1>1, <1>3, SentKept
<1> QED BY <1>1, <1>2, <1>3, <1>4, <1>5, <1>6 DEF ProvidersInv, P!RefusedByOverlap

(* A deletion frees a slug and explains nothing away.                      *)
LEMMA DeleteStep ==
  ASSUME P!SsoAssumption, ProvidersInv, NEW c \in Calls, NEW i \in Slots, P!Delete(c, i)
  PROVE  ProvidersInv'
<1>1. /\ request \in [Calls -> RequestType] /\ changes \in Nat /\ changes' = changes + 1
      /\ RowsPaired /\ CreationsHeld /\ RequestsHeld /\ conn' = [conn EXCEPT ![i] = Gone]
      /\ UNCHANGED <<request, bundle, paired, sent, logins, refused>> /\ bundle \in Seq(LoginType)
      /\ conn \in [Slots -> RowType \cup {None, Gone}]
      /\ P!SecretsExplained /\ P!SentWhereBegun /\ P!RefusedByOverlap
  BY DEF ProvidersInv, P!Delete, P!Changes
<1>2. /\ conn' \in [Slots -> RowType \cup {None, Gone}]
      /\ \A j \in P!Rows' : j \in P!Rows /\ conn'[j] = conn[j]
  BY <1>1 DEF P!Rows
<1>3. changes' \in Nat /\ changes <= changes'
  BY <1>1
<1>4. RowsPaired'
  <2>1. ASSUME NEW j \in P!Rows'
        PROVE  <<conn'[j].secret, conn'[j].issuer>> \in paired' /\ conn'[j].slug.suffix <= changes'
    <3>1. j \in P!Rows /\ conn'[j] = conn[j]
      BY <1>2
    <3>2. conn[j] \in RowType
      BY <1>1, <3>1 DEF P!Rows
    <3>3. conn[j].slug \in SlugType
      BY <3>2 DEF RowType
    <3>4. conn[j].slug.suffix \in Nat
      BY <3>3 DEF SlugType
    <3>5. <<conn[j].secret, conn[j].issuer>> \in paired /\ conn[j].slug.suffix <= changes
      BY <1>1, <3>1 DEF RowsPaired
    <3> QED BY <1>1, <3>1, <3>4, <3>5
  <2> QED BY <1>1, <1>2, <2>1 DEF RowsPaired
<1>5. CreationsHeld'
  BY <1>1, <1>2, <1>3, CreationsKept
<1>6. RequestsHeld'
  BY <1>1, RequestsKept
<1>7. P!SecretsExplained' /\ P!SentWhereBegun'
  BY <1>1, SentKept
<1> QED BY <1>1, <1>2, <1>3, <1>4, <1>5, <1>6, <1>7 DEF ProvidersInv, P!RefusedByOverlap

-----------------------------------------------------------------------------
(* A login leaves the connections alone.                                   *)
LEMMA LoginsKeep ==
  ASSUME ProvidersInv, UNCHANGED <<conn, paired, changes, refused>>,
         request' \in [Calls -> RequestType],
         \A d \in Calls : request'[d] = request[d] \/ request'[d].pc # "create",
         bundle' \in Seq(LoginType), RequestsHeld', P!SecretsExplained', P!SentWhereBegun'
  PROVE  ProvidersInv'
<1>1. RowsPaired'
  BY PairsKept DEF ProvidersInv
<1>2. \A i \in P!Rows' : i \in P!Rows /\ conn'[i].org = conn[i].org /\ conn'[i].slug = conn[i].slug
  BY DEF P!Rows
<1>3. CreationsHeld'
  BY <1>2, CreationsKept DEF ProvidersInv
<1> QED BY <1>1, <1>3 DEF ProvidersInv, P!RefusedByOverlap

(* A login that begins or ends tells nothing of the rows.                  *)
LEMMA StartStep ==
  ASSUME P!SsoAssumption, ProvidersInv, NEW c \in Calls, NEW u \in {u1, u2}, P!Start(c, u)
  PROVE  ProvidersInv'
<1>1. /\ request \in [Calls -> RequestType] /\ RequestsHeld
      /\ UNCHANGED <<conn, bundle, paired, sent, logins, refused, changes>>
      /\ bundle \in Seq(LoginType) /\ conn \in [Slots -> RowType \cup {None, Gone}]
      /\ P!SecretsExplained /\ P!SentWhereBegun
  BY DEF ProvidersInv, P!Start
<1>2. PICK i \in Slots :
        /\ P!Usable(i)
        /\ request' = [request EXCEPT ![c] = [pc |-> "start", i |-> i, user |-> u,
                                              issuer |-> conn[i].issuer]]
  BY DEF P!Start
<1> DEFINE r == [pc |-> "start", i |-> i, user |-> u, issuer |-> conn[i].issuer]
<1>3. conn[i] \in RowType /\ conn[i].issuer # None
  BY <1>1, <1>2 DEF P!Usable, P!Rows
<1>4. conn[i].issuer \in {i1, i2}
  BY <1>3 DEF RowType
<1>5. r \in StartType /\ r.pc = "start"
  BY <1>4 DEF StartType
<1>6. r \in RequestType
  BY <1>5 DEF RequestType
<1> HIDE DEF r
<1>7. /\ request' \in [Calls -> RequestType] /\ request'[c] = r
      /\ \A d \in Calls \ {c} : request'[d] = request[d]
  BY <1>1, <1>2, <1>6, RequestMoves DEF r
<1>8. RequestsHeld'
  BY <1>1, <1>5, <1>7, RequestsKept
<1>9. P!SecretsExplained' /\ P!SentWhereBegun'
  BY <1>1, SentKept
<1>10. \A d \in Calls : request'[d] = request[d] \/ request'[d].pc # "create"
  BY <1>5, <1>7
<1> QED BY <1>1, <1>7, <1>8, <1>9, <1>10, LoginsKeep

(* The issuer is kept in Redis as it was read.                             *)
LEMMA StartStoreStep ==
  ASSUME P!SsoAssumption, ProvidersInv, NEW c \in Calls, P!StartStore(c)
  PROVE  ProvidersInv'
<1>1. /\ request \in [Calls -> RequestType] /\ RequestsHeld /\ request[c].pc = "start"
      /\ request' = [request EXCEPT ![c] = P!Idle]
      /\ UNCHANGED <<conn, paired, sent, logins, refused, changes>> /\ bundle \in Seq(LoginType)
      /\ P!SecretsExplained /\ P!SentWhereBegun
  BY DEF ProvidersInv, P!StartStore, P!Ends
<1>2. request[c] \in StartType
  BY <1>1, RequestStage
<1> DEFINE e == [i |-> request[c].i, user |-> request[c].user, issuer |-> request[c].issuer,
                 code |-> "none", here |-> TRUE]
<1>3. e \in LoginType
  BY <1>2 DEF StartType, LoginType
<1>4. bundle' = Append(bundle, e) \/ bundle' = bundle
  BY DEF P!StartStore
<1> HIDE DEF e
<1>5. bundle' \in Seq(LoginType) /\ DOMAIN bundle \subseteq DOMAIN bundle'
  <2>1. CASE bundle' = Append(bundle, e)
    <3>1. /\ bundle' \in Seq(LoginType) /\ Len(bundle') = Len(bundle) + 1
      BY <1>1, <1>3, <2>1, AppendProperties
    <3>2. Len(bundle) \in Nat /\ DOMAIN bundle = 1..Len(bundle) /\ DOMAIN bundle' = 1..Len(bundle')
      BY <1>1, <3>1, LenProperties
    <3> QED BY <3>1, <3>2
  <2> QED BY <1>1, <1>4, <2>1
<1>6. /\ request' \in [Calls -> RequestType] /\ request'[c].pc = "idle"
      /\ \A d \in Calls \ {c} : request'[d] = request[d]
  BY <1>1, RequestMoves, IdleStage
<1>7. RequestsHeld'
  BY <1>1, <1>5, <1>6, RequestsKept
<1>8. P!SecretsExplained' /\ P!SentWhereBegun'
  BY <1>1, SentKept
<1>9. \A d \in Calls : request'[d] = request[d] \/ request'[d].pc # "create"
  BY <1>6
<1> QED BY <1>1, <1>5, <1>6, <1>7, <1>8, <1>9, LoginsKeep

(* A login that is given a code, is read, or expires, is there still.      *)
LEMMA LoginMarked ==
  ASSUME bundle \in Seq(LoginType), NEW k \in DOMAIN bundle,
         \/ bundle' = [bundle EXCEPT ![k].code = "issued"]
         \/ bundle' = [bundle EXCEPT ![k].code = "used"]
         \/ bundle' = [bundle EXCEPT ![k].here = FALSE]
  PROVE  bundle' \in Seq(LoginType) /\ DOMAIN bundle' = DOMAIN bundle
<1> DEFINE T == LoginType
<1>1. PICK e \in T : bundle' = [bundle EXCEPT ![k] = e]
  <2>1. bundle[k] \in LoginType
    BY ElementOfSeq
  <2>2. /\ [bundle[k] EXCEPT !.code = "issued"] \in LoginType
        /\ [bundle[k] EXCEPT !.code = "used"] \in LoginType
        /\ [bundle[k] EXCEPT !.here = FALSE] \in LoginType
    BY <2>1 DEF LoginType
  <2>3. \/ bundle' = [bundle EXCEPT ![k] = [bundle[k] EXCEPT !.code = "issued"]]
        \/ bundle' = [bundle EXCEPT ![k] = [bundle[k] EXCEPT !.code = "used"]]
        \/ bundle' = [bundle EXCEPT ![k] = [bundle[k] EXCEPT !.here = FALSE]]
    OBVIOUS
  <2> QED BY <2>2, <2>3
<1> HIDE DEF T
<1>2. bundle \in Seq(T)
  BY DEF T
<1>3. bundle' \in Seq(T) /\ Len(bundle') = Len(bundle) /\ DOMAIN bundle' = DOMAIN bundle
  BY <1>1, <1>2, ExceptSeq
<1> QED BY <1>3 DEF T

(* A code is issued, or the ten minutes pass.                              *)
LEMMA LoginMarkedStep ==
  ASSUME P!SsoAssumption, ProvidersInv, NEW k \in DOMAIN bundle, P!IssueCode(k) \/ P!Expire(k)
  PROVE  ProvidersInv'
<1>1. /\ request \in [Calls -> RequestType] /\ RequestsHeld
      /\ UNCHANGED <<conn, request, paired, sent, logins, refused, changes>>
      /\ bundle \in Seq(LoginType) /\ P!SecretsExplained /\ P!SentWhereBegun
  BY DEF ProvidersInv, P!IssueCode, P!Expire
<1>2. bundle' \in Seq(LoginType) /\ DOMAIN bundle' = DOMAIN bundle
  BY <1>1, LoginMarked DEF P!IssueCode, P!Expire
<1>3. RequestsHeld'
  BY <1>1, <1>2, RequestsKept
<1>4. P!SecretsExplained' /\ P!SentWhereBegun'
  BY <1>1, SentKept
<1> QED BY <1>1, <1>2, <1>3, <1>4, LoginsKeep

(* A callback finds the login it is for.                                   *)
LEMMA CallbackStep ==
  ASSUME P!SsoAssumption, ProvidersInv, NEW c \in Calls, NEW k \in DOMAIN bundle, P!Callback(c, k)
  PROVE  ProvidersInv'
<1> DEFINE r == [pc |-> "blob", k |-> k]
<1>1. /\ request \in [Calls -> RequestType] /\ RequestsHeld
      /\ request' = [request EXCEPT ![c] = r]
      /\ UNCHANGED <<conn, bundle, paired, sent, logins, refused, changes>>
      /\ bundle \in Seq(LoginType) /\ P!SecretsExplained /\ P!SentWhereBegun
  BY DEF ProvidersInv, P!Callback
<1>2. k \in Nat
  <2>1. Len(bundle) \in Nat /\ DOMAIN bundle = 1..Len(bundle)
    BY <1>1, LenProperties
  <2> QED BY <2>1
<1>3. r \in RequestType /\ r.pc = "blob" /\ r.k = k
  BY <1>2 DEF RequestType, BlobType
<1> HIDE DEF r
<1>4. /\ request' \in [Calls -> RequestType] /\ request'[c] = r
      /\ \A d \in Calls \ {c} : request'[d] = request[d]
  BY <1>1, <1>3, RequestMoves
<1>5. RequestsHeld'
  BY <1>1, <1>3, <1>4 DEF RequestsHeld
<1>6. P!SecretsExplained' /\ P!SentWhereBegun'
  BY <1>1, SentKept
<1>7. \A d \in Calls : request'[d] = request[d] \/ request'[d].pc # "create"
  BY <1>3, <1>4
<1> QED BY <1>1, <1>4, <1>5, <1>6, <1>7, LoginsKeep

(* The secret that a callback reads is paired with the issuer the          *)
(* connection names at that moment.                                        *)
LEMMA CallbackReadStep ==
  ASSUME P!SsoAssumption, ProvidersInv, NEW c \in Calls, P!CallbackRead(c)
  PROVE  ProvidersInv'
<1> DEFINE k == request[c].k
           i == bundle[k].i
           x == [pc |-> "exchange", k |-> k, row |-> conn[i], now |-> P!IssuerNow(i)]
           r == IF i \in P!Rows THEN x ELSE P!Idle
<1>1. /\ request \in [Calls -> RequestType] /\ RequestsHeld /\ RowsPaired
      /\ request[c].pc = "blob"
      /\ request' = [request EXCEPT ![c] = r] /\ bundle' = [bundle EXCEPT ![k].here = FALSE]
      /\ UNCHANGED <<conn, paired, sent, logins, refused, changes>>
      /\ conn \in [Slots -> RowType \cup {None, Gone}]
      /\ bundle \in Seq(LoginType) /\ P!SecretsExplained /\ P!SentWhereBegun
  BY DEF ProvidersInv, P!CallbackRead
<1>2. k \in DOMAIN bundle
  BY <1>1 DEF RequestsHeld
<1>3. k \in Nat
  <2>1. Len(bundle) \in Nat /\ DOMAIN bundle = 1..Len(bundle)
    BY <1>1, LenProperties
  <2> QED BY <1>2, <2>1
<1>4. bundle' \in Seq(LoginType) /\ DOMAIN bundle' = DOMAIN bundle
  BY <1>1, <1>2, LoginMarked
<1>5. /\ r \in RequestType /\ r.pc \in {"exchange", "idle"}
      /\ r.pc = "exchange" => /\ r.k = k /\ r.now = r.row.issuer
                              /\ <<r.row.secret, r.row.issuer>> \in paired
  <2> HIDE DEF k
  <2>1. CASE i \in P!Rows
    <3>1. conn[i] \in RowType /\ P!IssuerNow(i) = conn[i].issuer
      BY <1>1, <2>1 DEF P!Rows, P!IssuerNow
    <3>2. conn[i].issuer \in {i1, i2, None}
      BY <3>1 DEF RowType
    <3>3. <<conn[i].secret, conn[i].issuer>> \in paired
      BY <1>1, <2>1 DEF RowsPaired
    <3> HIDE DEF i
    <3>4. x \in ExchangeType /\ x.pc = "exchange" /\ x.k = k /\ x.row = conn[i]
          /\ x.now = conn[i].issuer
      BY <1>3, <3>1, <3>2 DEF ExchangeType
    <3>5. x \in RequestType
      BY <3>4 DEF RequestType
    <3> HIDE DEF x
    <3> QED BY <2>1, <3>3, <3>4, <3>5
  <2>2. CASE i \notin P!Rows
    BY <2>2, IdleStage
  <2> QED BY <2>1, <2>2
<1> HIDE DEF r, k
<1>6. /\ request' \in [Calls -> RequestType] /\ request'[c] = r
      /\ \A d \in Calls \ {c} : request'[d] = request[d]
  BY <1>1, <1>5, RequestMoves
<1>7. RequestsHeld'
  BY <1>1, <1>2, <1>4, <1>5, <1>6 DEF RequestsHeld
<1>8. P!SecretsExplained' /\ P!SentWhereBegun'
  BY <1>1, SentKept
<1>9. \A d \in Calls : request'[d] = request[d] \/ request'[d].pc # "create"
  BY <1>5, <1>6
<1> QED BY <1>1, <1>4, <1>6, <1>7, <1>8, <1>9, LoginsKeep

(* The secret goes to the issuer the login began with: the one it is       *)
(* paired with, unless the connection names another.                       *)
LEMMA ExchangeStep ==
  ASSUME P!SsoAssumption, ProvidersInv, NEW c \in Calls, P!Exchange(c)
  PROVE  ProvidersInv'
<1> DEFINE k == request[c].k
           s == [secret |-> request[c].row.secret, issuer |-> P!Issuer(c),
                 begun |-> bundle[k].issuer, now |-> request[c].now]
<1>1. /\ request \in [Calls -> RequestType] /\ RequestsHeld /\ request[c].pc = "exchange"
      /\ request' = [request EXCEPT ![c] = P!Idle]
      /\ sent' = sent \cup {s}
      /\ bundle' = [bundle EXCEPT ![k].code = "used"] \/ bundle' = bundle
      /\ UNCHANGED <<conn, paired, refused, changes>>
      /\ bundle \in Seq(LoginType) /\ P!SecretsExplained /\ P!SentWhereBegun
  BY DEF ProvidersInv, P!Exchange, P!Ends
<1>2. /\ k \in DOMAIN bundle /\ request[c].now = request[c].row.issuer
      /\ <<request[c].row.secret, request[c].row.issuer>> \in paired
  BY <1>1 DEF RequestsHeld
<1>3. bundle' \in Seq(LoginType) /\ DOMAIN bundle' = DOMAIN bundle
  BY <1>1, <1>2, LoginMarked
<1>4. /\ s.issuer = s.begun
      /\ <<s.secret, s.issuer>> \in paired \/ s.now # s.begun
  BY <1>2 DEF P!Issuer
<1> HIDE DEF k, s
<1>5. P!SecretsExplained' /\ P!SentWhereBegun'
  BY <1>1, <1>4 DEF P!SecretsExplained, P!SentWhereBegun
<1>6. /\ request' \in [Calls -> RequestType] /\ request'[c].pc = "idle"
      /\ \A d \in Calls \ {c} : request'[d] = request[d]
  BY <1>1, RequestMoves, IdleStage
<1>7. RequestsHeld'
  BY <1>1, <1>3, <1>6, RequestsKept
<1>8. \A d \in Calls : request'[d] = request[d] \/ request'[d].pc # "create"
  BY <1>6
<1> QED BY <1>1, <1>3, <1>5, <1>6, <1>7, <1>8, LoginsKeep

-----------------------------------------------------------------------------
(* It holds at the beginning, when there is no connection.                 *)
LEMMA ProvidersInit ==
  ASSUME P!SsoAssumption, P!Init
  PROVE  ProvidersInv
<1>1. /\ conn = [i \in Slots |-> None] /\ bundle = <<>> /\ request = [c \in Calls |-> P!Idle]
      /\ paired = {} /\ sent = {} /\ refused = {} /\ changes = 0
  BY DEF P!Init
<1>2. P!Rows = {}
  BY <1>1 DEF P!Rows
<1>3. request \in [Calls -> RequestType] /\ \A c \in Calls : request[c].pc = "idle"
  BY <1>1, IdleStage
<1>4. RowsPaired
  BY <1>2 DEF RowsPaired
<1>5. CreationsHeld /\ RequestsHeld
  BY <1>3 DEF CreationsHeld, RequestsHeld
<1>6. P!SecretsExplained /\ P!SentWhereBegun /\ P!RefusedByOverlap
  BY <1>1 DEF P!SecretsExplained, P!SentWhereBegun, P!RefusedByOverlap
<1>7. conn \in [Slots -> RowType \cup {None, Gone}] /\ bundle \in Seq(LoginType) /\ changes \in Nat
  BY <1>1
<1> QED BY <1>3, <1>4, <1>5, <1>6, <1>7 DEF ProvidersInv

(* No step of an administrator or of a login breaks it.                    *)
LEMMA ProvidersStep ==
  ASSUME P!SsoAssumption, ProvidersInv, P!Next
  PROVE  ProvidersInv'
<1>1. None # Gone
  BY DEF P!SsoAssumption
<1>2. ASSUME NEW c \in Calls, NEW o \in Orgs, NEW b \in ConnectionBodies, P!CreateRead(c, o, b)
      PROVE  ProvidersInv'
  BY <1>2, CreateReadStep
<1>3. ASSUME NEW c \in Calls, NEW i \in Slots, NEW b \in ConnectionBodies, P!Update(c, i, b)
      PROVE  ProvidersInv'
  BY <1>3, UpdateReadStep
<1>4. ASSUME NEW c \in Calls, NEW i \in Slots, NEW on \in BOOLEAN, P!Patch(c, i, on)
      PROVE  ProvidersInv'
  BY <1>4, UpdateReadStep
<1>5. ASSUME NEW c \in Calls, NEW i \in Slots, P!Delete(c, i)
      PROVE  ProvidersInv'
  BY <1>5, DeleteStep
<1>6. ASSUME NEW c \in Calls, P!CreateCommit(c) \/ P!UpdateCommit(c)
      PROVE  ProvidersInv'
  BY <1>1, <1>6, CreateCommitStep, UpdateCommitStep
<1>7. ASSUME NEW c \in Calls, NEW u \in {u1, u2}, P!Start(c, u)
      PROVE  ProvidersInv'
  BY <1>7, StartStep
<1>8. ASSUME NEW c \in Calls, P!StartStore(c) \/ P!CallbackRead(c) \/ P!Exchange(c)
      PROVE  ProvidersInv'
  BY <1>8, StartStoreStep, CallbackReadStep, ExchangeStep
<1>9. ASSUME NEW c \in Calls, NEW k \in DOMAIN bundle, P!Callback(c, k)
      PROVE  ProvidersInv'
  BY <1>9, CallbackStep
<1>10. ASSUME NEW k \in DOMAIN bundle, P!IssueCode(k) \/ P!Expire(k)
       PROVE  ProvidersInv'
  BY <1>10, LoginMarkedStep
<1> QED BY <1>2, <1>3, <1>4, <1>5, <1>6, <1>7, <1>8, <1>9, <1>10 DEF P!Next

(* Login begins with no other connection than lookup offers.               *)
LEMMA DoorsAgree == P!SameDoor
BY DEF P!SameDoor, P!Found, P!Offered, P!ForDomain, P!Oidc, P!Enabled, P!Rows

(* The type invariant follows.                                             *)
LEMMA ProvidersTypes ==
  ASSUME ProvidersInv
  PROVE  P!TypeOK
<1>1. ASSUME NEW i \in P!Rows
      PROVE  /\ conn[i].org \in Orgs /\ conn[i].issuer \in {i1, i2} \cup {None}
             /\ conn[i].secret \in {i1, i2} \cup {None}
             /\ \A j \in P!Rows : conn[i].org = conn[j].org /\ conn[i].slug = conn[j].slug => i = j
  <2>1. conn[i] \in RowType
    BY <1>1 DEF ProvidersInv, P!Rows
  <2>2. \A j \in P!Rows : conn[i].org = conn[j].org /\ conn[i].slug = conn[j].slug => i = j
    BY DEF ProvidersInv, RowsPaired
  <2> QED BY <2>1, <2>2 DEF RowType
<1>2. ASSUME NEW k \in DOMAIN bundle
      PROVE  bundle[k].i \in Slots /\ bundle[k].issuer \in {i1, i2}
  <2>1. bundle[k] \in LoginType
    BY ElementOfSeq DEF ProvidersInv
  <2> QED BY <2>1 DEF LoginType
<1>3. \A c \in Calls : request[c].pc \in {"idle", "create", "update", "patch", "start", "blob", "exchange"}
  BY DEF ProvidersInv, RequestType, CreateType, UpdateType, StartType, BlobType, ExchangeType
<1> QED BY <1>1, <1>2, <1>3 DEF P!TypeOK

-----------------------------------------------------------------------------
(* The switch of a connection changes only as a PATCH on it ends: a        *)
(* creation takes a slot without a row, and an update writes no column     *)
(* that it did not change.                                                 *)
LEMMA SwitchStep ==
  ASSUME P!SsoAssumption, ProvidersInv, P!Next
  PROVE  P!SwitchStandsStep
<1> SUFFICES ASSUME NEW i \in P!Rows, conn'[i] # Gone, conn'[i].enabled # conn[i].enabled
             PROVE  \E c \in Calls : request[c].pc = "patch" /\ request[c].i = i /\ request'[c].pc = "idle"
  BY DEF P!SwitchStandsStep
<1>1. /\ request \in [Calls -> RequestType] /\ RequestsHeld
      /\ conn \in [Slots -> RowType \cup {None, Gone}]
      /\ conn[i] \in RowType /\ conn[i] \notin {None, Gone} /\ i \in Slots
  BY DEF ProvidersInv, P!Rows
<1>2. ASSUME NEW c \in Calls, NEW j \in Slots, P!Delete(c, j)
      PROVE  FALSE
  BY <1>1, <1>2 DEF P!Delete
<1>3. ASSUME NEW c \in Calls, P!CreateCommit(c)
      PROVE  FALSE
  BY <1>1, <1>3 DEF P!CreateCommit
<1>4. ASSUME NEW c \in Calls, P!UpdateCommit(c)
      PROVE  request[c].pc = "patch" /\ request[c].i = i /\ request'[c].pc = "idle"
  <2>1. request[c].pc \in {"update", "patch"} /\ request' = [request EXCEPT ![c] = P!Idle]
    BY <1>4 DEF P!UpdateCommit, P!Ends
  <2>2. request[c] \in UpdateType
    BY <1>1, <2>1, RequestStage
  <2>3. request'[c].pc = "idle"
    BY <1>1, <2>1, RequestMoves, IdleStage
  <2>4. /\ request[c].i = i
        /\ conn'[i] = P!Written(conn[i], request[c].saw, request[c].new)
    BY <1>1, <1>4 DEF P!UpdateCommit
  <2>5. request[c].saw \in RowType /\ request[c].new \in RowType
    BY <2>2 DEF UpdateType
  <2>6. conn'[i].enabled = P!Column(conn[i].enabled, request[c].saw.enabled, request[c].new.enabled)
    BY <1>1, <2>4, <2>5, WrittenIsRow
  <2>7. request[c].pc # "update"
    BY <1>1, <2>6 DEF P!Column, RequestsHeld
  <2> QED BY <2>1, <2>3, <2>4, <2>7
<1>5. CASE conn' = conn
  BY <1>5
<1> QED BY <1>2, <1>3, <1>4, <1>5
       DEF P!Next, P!CreateRead, P!Update, P!Patch, P!Start, P!StartStore, P!Callback,
           P!CallbackRead, P!Exchange, P!IssueCode, P!Expire

-----------------------------------------------------------------------------
(* The tokens of the server, and what the browser holds of them.           *)
AccessType == [user : {u1, u2}, live : BOOLEAN]
RefreshType == [user : {u1, u2}, live : BOOLEAN, rotated : BOOLEAN]
PairType == [access : Nat, refresh : Nat]
ReqType == [pc : {"idle", "sent", "waiting", "answered"}, kind : {"get", "boot", "logout", "switch"},
            access : Nat, body : Nat, retry : BOOLEAN, got : PairType]
FlightType == [pc : {"none", "sent", "answered"}, body : Nat, got : PairType]
UseType == [token : Nat, tab : Tabs, kind : {"refresh", "switch"}]

BrowserTypes ==
  /\ scene \in ConsoleScenes
  /\ store \in PairType
  /\ access \in Seq(AccessType) /\ refresh \in Seq(RefreshType)
  /\ Len(refresh) <= Len(access)
  /\ req \in [Reqs -> ReqType] /\ flight \in [Tabs -> FlightType]
  /\ uses \subseteq UseType /\ again \subseteq 1 .. Len(refresh)
  /\ mixed \in BOOLEAN /\ out \in BOOLEAN

(* Every token that somebody holds was given out.                          *)
TokensHeld ==
  /\ store.access <= Len(access) /\ store.refresh <= Len(refresh)
  /\ \A r \in Reqs : /\ req[r].access <= Len(access) /\ req[r].body <= Len(refresh)
                     /\ req[r].pc = "idle" => req[r].body = 0
  /\ \A t \in Tabs : flight[t].body <= Len(refresh)
  /\ \A w \in uses : w.token <= Len(refresh)

(* A request that waits has a refresh to wait for.                         *)
WaitsHeld ==
  \A r \in Reqs : req[r].pc = "waiting" => flight[TabOfRequest[r]].pc # "none"

(* A pair under way is of one user; so is a new access token with the      *)
(* refresh token that was switched.                                        *)
PairsHeld ==
  /\ C!SameUser
  /\ \A t \in Tabs : flight[t].got # C!NoTokens =>
       /\ flight[t].pc = "answered"
       /\ flight[t].got.access \in 1 .. Len(access) /\ flight[t].got.refresh \in 1 .. Len(refresh)
       /\ access[flight[t].got.access].user = refresh[flight[t].got.refresh].user
  /\ \A r \in Reqs : req[r].got # C!NoTokens =>
       /\ req[r].pc = "answered" /\ req[r].kind = "switch"
       /\ req[r].got.access \in 1 .. Len(access) /\ req[r].body \in 1 .. Len(refresh)
       /\ access[req[r].got.access].user = refresh[req[r].body].user

(* The refresh token that a tab is about to be given is nowhere else.      *)
FreshHeld ==
  \A t \in Tabs : flight[t].got # C!NoTokens =>
    /\ store.refresh # flight[t].got.refresh
    /\ \A s \in Tabs : /\ flight[s].body # flight[t].got.refresh
                       /\ s # t => flight[s].got.refresh # flight[t].got.refresh
    /\ \A r \in Reqs : req[r].body # flight[t].got.refresh
    /\ \A w \in uses : w.token # flight[t].got.refresh

(* A rotated token was presented; a tab that presented a token will not do *)
(* so again.                                                               *)
UsesHeld ==
  /\ C!AgainExplained
  /\ \A n \in 1 .. Len(refresh) : refresh[n].rotated => \E w \in uses : w.token = n
  /\ \A w \in uses : w.kind = "refresh" /\ w.token # 0 =>
       /\ flight[w.tab].pc = "sent" => flight[w.tab].body # w.token
       /\ store.refresh = w.token => flight[w.tab].pc = "answered" /\ flight[w.tab].body = w.token

(* After a logout nothing is under way that could bring a token.           *)
OutHeld ==
  out =>
    /\ store = C!NoTokens
    /\ \A t \in Tabs : flight[t].pc # "sent" /\ flight[t].got = C!NoTokens
    /\ \A r \in Reqs : req[r].kind = "switch" => req[r].body = 0

(* What holds of the console in a browser.                                 *)
BrowserInv ==
  /\ BrowserTypes /\ TokensHeld /\ WaitsHeld /\ PairsHeld /\ FreshHeld
  /\ UsesHeld /\ OutHeld

(* What Append does to a sequence of elements of T.                        *)
LEMMA Appended ==
  ASSUME NEW T, NEW s \in Seq(T), NEW e \in T
  PROVE  /\ Append(s, e) \in Seq(T) /\ Len(Append(s, e)) = Len(s) + 1
         /\ Len(s) \in Nat /\ \A i \in 1 .. Len(s) : Append(s, e)[i] = s[i]
         /\ Append(s, e)[Len(s) + 1] = e
BY AppendProperties, LenProperties

(* No tokens are a pair of zeros, and nothing else is.                     *)
LEMMA NoTokensType ==
  /\ C!NoTokens \in PairType /\ C!NoTokens.access = 0 /\ C!NoTokens.refresh = 0
  /\ \A p \in PairType : p.access = 0 /\ p.refresh = 0 => p = C!NoTokens
BY DEF C!NoTokens, PairType

(* A request that is not made.                                             *)
LEMMA IdleReqType ==
  /\ C!IdleReq \in ReqType /\ C!IdleReq.pc = "idle" /\ C!IdleReq.kind = "get"
  /\ C!IdleReq.access = 0 /\ C!IdleReq.body = 0 /\ C!IdleReq.got = C!NoTokens
BY NoTokensType DEF C!IdleReq, ReqType

(* A tab that waits for no refresh.                                        *)
LEMMA NoFlightType ==
  /\ C!NoFlight \in FlightType /\ C!NoFlight.pc = "none"
  /\ C!NoFlight.body = 0 /\ C!NoFlight.got = C!NoTokens
BY NoTokensType DEF C!NoFlight, FlightType

(* The server may add tokens, never give one to another user.              *)
Grows ==
  /\ access' \in Seq(AccessType) /\ refresh' \in Seq(RefreshType)
  /\ Len(access) <= Len(access') /\ Len(refresh) <= Len(refresh')
  /\ \A i \in 1 .. Len(access) : access'[i].user = access[i].user
  /\ \A i \in 1 .. Len(refresh) : refresh'[i].user = refresh[i].user

(* The tokens of the server are numbered.                                  *)
LEMMA Lengths ==
  ASSUME BrowserTypes
  PROVE  /\ Len(access) \in Nat /\ Len(refresh) \in Nat /\ Len(refresh) <= Len(access)
         /\ \A i \in 1 .. Len(access) : access[i] \in AccessType
         /\ \A i \in 1 .. Len(refresh) : refresh[i] \in RefreshType
BY LenProperties, ElementOfSeq DEF BrowserTypes

(* The parts of the invariant that a step of the browser does not touch,   *)
(* whatever the server does.                                               *)
LEMMA TokensStay ==
  ASSUME BrowserTypes, TokensHeld, Grows, uses' = uses,
         store'.access <= Len(access'), store'.refresh <= Len(refresh'),
         \A r \in Reqs : /\ req'[r].access <= Len(access') /\ req'[r].body <= Len(refresh')
                         /\ req'[r].pc = "idle" => req'[r].body = 0,
         \A t \in Tabs : flight'[t].body <= Len(refresh')
  PROVE  TokensHeld'
<1>1. ASSUME NEW w \in uses
      PROVE  w.token <= Len(refresh')
  <2>1. w.token \in Nat /\ w.token <= Len(refresh)
    BY DEF BrowserTypes, UseType, TokensHeld
  <2>2. Len(refresh) \in Nat /\ Len(refresh') \in Nat /\ Len(refresh) <= Len(refresh')
    BY Lengths, LenProperties DEF Grows
  <2> QED BY <2>1, <2>2
<1> QED BY <1>1 DEF TokensHeld

(* The bounds of what is held, as the server adds tokens.                  *)
LEMMA HeldBounds ==
  ASSUME BrowserTypes, TokensHeld, Grows
  PROVE  /\ store.access \in Nat /\ store.refresh \in Nat
         /\ store.access <= Len(access') /\ store.refresh <= Len(refresh')
         /\ \A r \in Reqs : /\ req[r].access \in Nat /\ req[r].body \in Nat
                            /\ req[r].access <= Len(access') /\ req[r].body <= Len(refresh')
                            /\ req[r].pc = "idle" => req[r].body = 0
         /\ \A t \in Tabs : flight[t].body \in Nat /\ flight[t].body <= Len(refresh')
<1>1. /\ Len(refresh) \in Nat /\ Len(refresh') \in Nat /\ Len(refresh) <= Len(refresh')
      /\ Len(access) \in Nat /\ Len(access') \in Nat /\ Len(access) <= Len(access')
  BY Lengths, LenProperties DEF Grows
<1>2. store.access \in Nat /\ store.refresh \in Nat
  BY DEF BrowserTypes, PairType
<1>3. ASSUME NEW r \in Reqs
      PROVE  req[r].access \in Nat /\ req[r].body \in Nat
  <2>1. req[r] \in ReqType
    BY DEF BrowserTypes
  <2> QED BY <2>1 DEF ReqType
<1>4. ASSUME NEW t \in Tabs
      PROVE  flight[t].body \in Nat
  <2>1. flight[t] \in FlightType
    BY DEF BrowserTypes
  <2> QED BY <2>1 DEF FlightType
<1>5. ASSUME NEW r \in Reqs
      PROVE  /\ req[r].access <= Len(access') /\ req[r].body <= Len(refresh')
             /\ req[r].pc = "idle" => req[r].body = 0
  BY <1>1, <1>3 DEF TokensHeld
<1>6. ASSUME NEW t \in Tabs
      PROVE  flight[t].body <= Len(refresh')
  BY <1>1, <1>4 DEF TokensHeld
<1> QED BY <1>1, <1>2, <1>3, <1>4, <1>5, <1>6 DEF TokensHeld

(* Pairs under way stay of one user, whatever the server adds.             *)
LEMMA PairsStay ==
  ASSUME BrowserTypes, TokensHeld, PairsHeld, Grows, C!SameUser',
         \A t \in Tabs : flight'[t].got = C!NoTokens \/ flight'[t] = flight[t],
         \A r \in Reqs : req'[r].got = C!NoTokens \/ req'[r] = req[r]
  PROVE  PairsHeld'
<1>1. /\ Len(refresh) \in Nat /\ Len(refresh') \in Nat /\ Len(refresh) <= Len(refresh')
      /\ Len(access) \in Nat /\ Len(access') \in Nat /\ Len(access) <= Len(access')
  BY Lengths, LenProperties DEF Grows
<1>2. ASSUME NEW t \in Tabs, flight'[t].got # C!NoTokens
      PROVE  /\ flight'[t].pc = "answered"
             /\ flight'[t].got.access \in 1 .. Len(access')
             /\ flight'[t].got.refresh \in 1 .. Len(refresh')
             /\ access'[flight'[t].got.access].user = refresh'[flight'[t].got.refresh].user
  <2> DEFINE g == flight[t].got
  <2>1. /\ flight'[t] = flight[t] /\ flight[t].pc = "answered"
        /\ g.access \in 1 .. Len(access) /\ g.refresh \in 1 .. Len(refresh)
        /\ access[g.access].user = refresh[g.refresh].user
    BY <1>2 DEF PairsHeld
  <2>2. access'[g.access].user = access[g.access].user /\ refresh'[g.refresh].user = refresh[g.refresh].user
    BY <2>1 DEF Grows
  <2>3. g.access \in 1 .. Len(access') /\ g.refresh \in 1 .. Len(refresh')
    BY <1>1, <2>1
  <2> QED BY <2>1, <2>2, <2>3
<1>3. ASSUME NEW r \in Reqs, req'[r].got # C!NoTokens
      PROVE  /\ req'[r].pc = "answered" /\ req'[r].kind = "switch"
             /\ req'[r].got.access \in 1 .. Len(access') /\ req'[r].body \in 1 .. Len(refresh')
             /\ access'[req'[r].got.access].user = refresh'[req'[r].body].user
  <2> DEFINE a == req[r].got.access
             b == req[r].body
  <2>1. /\ req'[r] = req[r] /\ req[r].pc = "answered" /\ req[r].kind = "switch"
        /\ a \in 1 .. Len(access) /\ b \in 1 .. Len(refresh) /\ access[a].user = refresh[b].user
    BY <1>3 DEF PairsHeld
  <2>2. access'[a].user = access[a].user /\ refresh'[b].user = refresh[b].user
    BY <2>1 DEF Grows
  <2>3. a \in 1 .. Len(access') /\ b \in 1 .. Len(refresh')
    BY <1>1, <2>1
  <2> QED BY <2>1, <2>2, <2>3
<1> QED BY <1>2, <1>3 DEF PairsHeld

(* So does the stored pair, when it is not touched.                        *)
LEMMA SameUserStays ==
  ASSUME BrowserTypes, TokensHeld, PairsHeld, Grows, store' = store, mixed' = mixed
  PROVE  C!SameUser'
<1>1. store.access \in Nat /\ store.refresh \in Nat
  BY DEF BrowserTypes, PairType
<1>2. Len(access) \in Nat /\ Len(refresh) \in Nat
  BY Lengths
<1> SUFFICES ASSUME store.access # 0, store.refresh # 0, ~mixed
             PROVE  access'[store.access].user = refresh'[store.refresh].user
  BY DEF C!SameUser
<1>3. store.access \in 1 .. Len(access) /\ store.refresh \in 1 .. Len(refresh)
  BY <1>1, <1>2 DEF TokensHeld
<1> QED BY <1>3 DEF Grows, PairsHeld, C!SameUser

(* A refresh token on its way stays unknown when nothing new is held.      *)
LEMMA FreshStays ==
  ASSUME BrowserTypes, FreshHeld, PairsHeld, uses' = uses,
         store'.refresh \in {store.refresh, 0},
         \A t \in Tabs : /\ flight'[t].got = C!NoTokens \/ flight'[t].got = flight[t].got
                         /\ flight'[t].body \in {flight[t].body, store.refresh, 0},
         \A r \in Reqs : req'[r].body \in {req[r].body, store.refresh, 0}
  PROVE  FreshHeld'
<1> SUFFICES ASSUME NEW t \in Tabs, flight'[t].got # C!NoTokens
             PROVE  /\ store'.refresh # flight'[t].got.refresh
                    /\ \A s \in Tabs : /\ flight'[s].body # flight'[t].got.refresh
                                       /\ s # t => flight'[s].got.refresh # flight'[t].got.refresh
                    /\ \A r \in Reqs : req'[r].body # flight'[t].got.refresh
                    /\ \A w \in uses : w.token # flight'[t].got.refresh
  BY DEF FreshHeld
<1> DEFINE g == flight[t].got.refresh
<1>1. flight'[t].got = flight[t].got /\ flight[t].got # C!NoTokens
  OBVIOUS
<1>2. g # 0
  BY <1>1, Lengths DEF PairsHeld
<1> HIDE DEF g
<1>3. /\ store.refresh # g
      /\ \A s \in Tabs : flight[s].body # g /\ (s # t => flight[s].got.refresh # g)
      /\ \A r \in Reqs : req[r].body # g
      /\ \A w \in uses : w.token # g
  BY <1>1, Zenon DEF FreshHeld, g
<1>4. ASSUME NEW s \in Tabs
      PROVE  /\ flight'[s].body # g
             /\ s # t => flight'[s].got.refresh # g
  <2>1. /\ flight[s].body # g /\ store.refresh # g
        /\ s # t => flight[s].got.refresh # g
    BY <1>3
  <2>2. flight'[s].got.refresh \in {flight[s].got.refresh, 0}
    BY NoTokensType
  <2> QED BY <1>2, <2>1, <2>2
<1>5. flight'[t].got.refresh = g
  BY <1>1 DEF g
<1> QED BY <1>2, <1>3, <1>4, <1>5

(* Presented tokens stay explained when no tab presents one.               *)
LEMMA UsesStay ==
  ASSUME UsesHeld, uses' = uses, again' = again, Len(refresh') = Len(refresh),
         \A i \in 1 .. Len(refresh) : refresh'[i].rotated = refresh[i].rotated,
         store'.refresh \in {store.refresh, 0},
         \A t \in Tabs :
           \/ flight'[t].pc = flight[t].pc /\ flight'[t].body = flight[t].body
           \/ flight[t].pc = "none" /\ flight'[t].body = store.refresh
           \/ flight'[t].pc = "none" /\ store'.refresh = 0,
         uses \subseteq UseType
  PROVE  UsesHeld'
<1>1. C!AgainExplained'
  BY DEF UsesHeld, C!AgainExplained
<1>2. \A n \in 1 .. Len(refresh') : refresh'[n].rotated => \E w \in uses' : w.token = n
  BY DEF UsesHeld
<1>3. ASSUME NEW w \in uses', w.kind = "refresh", w.token # 0
      PROVE  /\ flight'[w.tab].pc = "sent" => flight'[w.tab].body # w.token
             /\ store'.refresh = w.token => flight'[w.tab].pc = "answered" /\ flight'[w.tab].body = w.token
  <2>1. /\ flight[w.tab].pc = "sent" => flight[w.tab].body # w.token
        /\ store.refresh = w.token => flight[w.tab].pc = "answered" /\ flight[w.tab].body = w.token
    BY <1>3 DEF UsesHeld
  <2>2. w.tab \in Tabs
    BY <1>3 DEF UseType
  <2> QED BY <1>3, <2>1, <2>2
<1> QED BY <1>1, <1>2, <1>3 DEF UsesHeld

-----------------------------------------------------------------------------
(* Whatever only gives up requests, refreshes and tokens keeps it; the     *)
(* server may close sessions meanwhile.                                    *)
LEMMA DropStep ==
  ASSUME BrowserInv,
         access' = access, refresh' \in Seq(RefreshType), Len(refresh') = Len(refresh),
         \A i \in 1 .. Len(refresh) : /\ refresh'[i].user = refresh[i].user
                                      /\ refresh'[i].rotated = refresh[i].rotated,
         UNCHANGED <<scene, uses, again, mixed>>,
         store' = C!NoTokens \/ (store' = store /\ flight' = flight),
         req' \in [Reqs -> ReqType], flight' \in [Tabs -> FlightType], out' \in BOOLEAN,
         \A r \in Reqs : req'[r] = req[r] \/ req'[r] = C!IdleReq,
         \A t \in Tabs : flight'[t] = flight[t] \/ flight'[t] = C!NoFlight,
         WaitsHeld',
         out' => out \/ (/\ store' = C!NoTokens /\ \A t \in Tabs : flight'[t].pc = "none"
                         /\ \A r \in Reqs : req'[r].kind = "switch" => req'[r].body = 0)
  PROVE  BrowserInv'
<1>1. /\ BrowserTypes /\ TokensHeld /\ PairsHeld /\ FreshHeld /\ UsesHeld /\ OutHeld
      /\ Len(access) \in Nat /\ Len(refresh) \in Nat
  BY Lengths DEF BrowserInv
<1>2. Grows
  BY <1>1 DEF Grows, BrowserTypes
<1>3. store' \in PairType /\ store'.refresh \in {store.refresh, 0}
  BY <1>1, NoTokensType DEF BrowserTypes
<1>4. BrowserTypes'
  BY <1>1, <1>3 DEF BrowserTypes
<1>5. TokensHeld'
  <2>1. store'.access <= Len(access') /\ store'.refresh <= Len(refresh')
    BY <1>1, <1>2, HeldBounds, NoTokensType
  <2>2. ASSUME NEW r \in Reqs
        PROVE  /\ req'[r].access <= Len(access') /\ req'[r].body <= Len(refresh')
               /\ req'[r].pc = "idle" => req'[r].body = 0
    BY <1>1, <1>2, HeldBounds, IdleReqType
  <2>3. ASSUME NEW t \in Tabs
        PROVE  flight'[t].body <= Len(refresh')
    BY <1>1, <1>2, HeldBounds, NoFlightType
  <2> QED BY <1>1, <1>2, <2>1, <2>2, <2>3, TokensStay
<1>6. PairsHeld'
  <2>1. C!SameUser'
    <3>1. CASE store' = store
      BY <1>1, <1>2, <3>1, SameUserStays
    <3>2. CASE store' = C!NoTokens
      BY <3>2, NoTokensType DEF C!SameUser
    <3> QED BY <3>1, <3>2
  <2>2. \A t \in Tabs : flight'[t].got = C!NoTokens \/ flight'[t] = flight[t]
    BY NoFlightType
  <2>3. \A r \in Reqs : req'[r].got = C!NoTokens \/ req'[r] = req[r]
    BY IdleReqType
  <2> QED BY <1>1, <1>2, <2>1, <2>2, <2>3, PairsStay
<1>7. FreshHeld'
  <2>1. \A t \in Tabs : /\ flight'[t].got = C!NoTokens \/ flight'[t].got = flight[t].got
                        /\ flight'[t].body \in {flight[t].body, store.refresh, 0}
    BY NoFlightType
  <2>2. \A r \in Reqs : req'[r].body \in {req[r].body, store.refresh, 0}
    BY IdleReqType
  <2> QED BY <1>1, <1>3, <2>1, <2>2, FreshStays
<1>8. UsesHeld'
  <2>1. \A t \in Tabs :
          \/ flight'[t].pc = flight[t].pc /\ flight'[t].body = flight[t].body
          \/ flight[t].pc = "none" /\ flight'[t].body = store.refresh
          \/ flight'[t].pc = "none" /\ store'.refresh = 0
    BY NoFlightType, NoTokensType
  <2>2. uses \subseteq UseType
    BY <1>1 DEF BrowserTypes
  <2> QED BY <1>1, <1>3, <2>1, <2>2, UsesStay
<1>9. OutHeld'
  <2>1. CASE out
    <3>1. store' = C!NoTokens
      BY <1>1, <2>1 DEF OutHeld
    <3>2. ASSUME NEW t \in Tabs
          PROVE  flight'[t].pc # "sent" /\ flight'[t].got = C!NoTokens
      BY <1>1, <2>1, NoFlightType DEF OutHeld
    <3>3. ASSUME NEW r \in Reqs, req'[r].kind = "switch"
          PROVE  req'[r].body = 0
      BY <1>1, <2>1, <3>3, IdleReqType DEF OutHeld
    <3> QED BY <3>1, <3>2, <3>3 DEF OutHeld
  <2>2. CASE out' /\ ~out
    <3>1. ASSUME NEW t \in Tabs
          PROVE  flight'[t].pc # "sent" /\ flight'[t].got = C!NoTokens
      BY <1>6, <2>2 DEF PairsHeld
    <3> QED BY <2>2, <3>1 DEF OutHeld
  <2>3. CASE ~out'
    BY <2>3 DEF OutHeld
  <2> QED BY <2>1, <2>2, <2>3
<1> QED BY <1>4, <1>5, <1>6, <1>7, <1>8, <1>9 DEF BrowserInv

(* The tab of a request is one of them.                                    *)
LEMMA TabOfType ==
  ASSUME C!ConsoleAssumption
  PROVE  TabOfRequest \in [Reqs -> Tabs]
BY DEF C!ConsoleAssumption

(* A request that fails for good gives up what it must.                    *)
LEMMA EndedStep ==
  ASSUME C!ConsoleAssumption, BrowserInv, NEW r \in Reqs, C!Ended(r),
         access' = access, refresh' \in Seq(RefreshType), Len(refresh') = Len(refresh),
         \A i \in 1 .. Len(refresh) : /\ refresh'[i].user = refresh[i].user
                                      /\ refresh'[i].rotated = refresh[i].rotated,
         UNCHANGED <<scene, uses, again, mixed>>
  PROVE  BrowserInv'
<1>1. /\ req \in [Reqs -> ReqType] /\ flight \in [Tabs -> FlightType] /\ out \in BOOLEAN
      /\ WaitsHeld /\ TokensHeld
  BY DEF BrowserInv, BrowserTypes
<1> DEFINE tab == TabOfRequest[r]
<1>2. tab \in Tabs /\ TabOfRequest \in [Reqs -> Tabs]
  BY TabOfType
<1>3. CASE req[r].kind = "logout"
  <2>1. store' = C!NoTokens
    BY <1>3 DEF C!Ended, C!Cleared
  <2>2. req' = [q \in Reqs |-> IF TabOfRequest[q] = tab THEN C!IdleReq ELSE req[q]]
    BY <1>3 DEF C!Ended, C!Reloaded
  <2>3. flight' = [flight EXCEPT ![tab] = C!NoFlight]
    BY <1>3 DEF C!Ended
  <2> HIDE DEF tab
  <2>4. req' \in [Reqs -> ReqType] /\ \A q \in Reqs : req'[q] = req[q] \/ req'[q] = C!IdleReq
    BY <1>1, <2>2, IdleReqType
  <2>5. /\ flight' \in [Tabs -> FlightType] /\ flight'[tab] = C!NoFlight
        /\ \A t \in Tabs \ {tab} : flight'[t] = flight[t]
    BY <1>1, <1>2, <2>3, NoFlightType
  <2>6. WaitsHeld'
    <3> SUFFICES ASSUME NEW q \in Reqs, req'[q].pc = "waiting"
                 PROVE  flight'[TabOfRequest[q]].pc # "none"
      BY DEF WaitsHeld
    <3>1. TabOfRequest[q] # tab /\ req'[q] = req[q]
      BY <2>2, IdleReqType
    <3> QED BY <1>1, <1>2, <2>5, <3>1 DEF WaitsHeld
  <2>7. out' \in BOOLEAN
    BY <1>1, <1>3 DEF C!Ended
  <2>8. out' => out \/ (/\ store' = C!NoTokens /\ \A t \in Tabs : flight'[t].pc = "none"
                        /\ \A q \in Reqs : req'[q].kind = "switch" => req'[q].body = 0)
    <3> SUFFICES ASSUME out', ~out
                 PROVE  /\ \A t \in Tabs : flight'[t].pc = "none"
                        /\ \A q \in Reqs : req'[q].kind = "switch" => req'[q].body = 0
      BY <2>1
    <3>1. /\ \A t \in Tabs \ {tab} : flight[t].pc = "none"
          /\ \A q \in Reqs \ {r} : req[q].kind # "switch" \/ req[q].pc = "idle"
      <4> DEFINE alone == /\ \A t \in Tabs \ {tab} : flight[t].pc = "none"
                          /\ \A q \in Reqs \ {r} : req[q].kind # "switch" \/ req[q].pc = "idle"
      <4>1. out' = (out \/ (req[r].kind = "logout" /\ alone))
        BY DEF C!Ended, tab
      <4> HIDE DEF alone
      <4>2. alone
        BY <1>3, <4>1
      <4> QED BY <4>2 DEF alone
    <3>2. \A t \in Tabs : flight'[t].pc = "none"
      BY <2>5, <3>1, NoFlightType
    <3>3. ASSUME NEW q \in Reqs, req'[q].kind = "switch"
          PROVE  req'[q].body = 0
      <4>1. req'[q] = req[q] /\ q # r
        BY <1>2, <2>2, <3>3, IdleReqType DEF tab
      <4>2. req[q].pc = "idle"
        BY <3>1, <3>3, <4>1
      <4> QED BY <1>1, <4>1, <4>2 DEF TokensHeld
    <3> QED BY <3>2, <3>3
  <2>9. \A t \in Tabs : flight'[t] = flight[t] \/ flight'[t] = C!NoFlight
    BY <2>5
  <2> QED BY <2>1, <2>4, <2>5, <2>6, <2>7, <2>8, <2>9, DropStep
<1>4. CASE req[r].kind # "logout"
  <2>1. /\ store' = C!NoTokens \/ store' = store
        /\ req' = [req EXCEPT ![r] = C!IdleReq] /\ flight' = flight /\ out' = out
    BY <1>1, <1>4 DEF C!Ended, C!Cleared
  <2>2. req' \in [Reqs -> ReqType] /\ \A q \in Reqs : req'[q] = req[q] \/ req'[q] = C!IdleReq
    BY <1>1, <2>1, IdleReqType
  <2>3. WaitsHeld'
    BY <1>1, <2>1, <2>2, IdleReqType DEF WaitsHeld
  <2> QED BY <1>1, <2>1, <2>2, <2>3, DropStep
<1> QED BY <1>3, <1>4

(* A refresh fails: its tab drops what it was doing.                       *)
LEMMA FlightFailsStep ==
  ASSUME C!ConsoleAssumption, BrowserInv, NEW t \in Tabs, C!FlightFails(t)
  PROVE  BrowserInv'
<1>1. /\ req \in [Reqs -> ReqType] /\ flight \in [Tabs -> FlightType] /\ out \in BOOLEAN
      /\ refresh \in Seq(RefreshType) /\ WaitsHeld
  BY DEF BrowserInv, BrowserTypes
<1>2. /\ store' = C!NoTokens /\ flight' = [flight EXCEPT ![t] = C!NoFlight]
      /\ req' = [q \in Reqs |-> IF TabOfRequest[q] = t THEN C!IdleReq ELSE req[q]]
      /\ UNCHANGED <<scene, access, refresh, uses, again, mixed, out>>
  BY DEF C!FlightFails, C!Cleared, C!Reloaded
<1>3. req' \in [Reqs -> ReqType] /\ \A q \in Reqs : req'[q] = req[q] \/ req'[q] = C!IdleReq
  BY <1>1, <1>2, IdleReqType
<1>4. /\ flight' \in [Tabs -> FlightType]
      /\ \A s \in Tabs : flight'[s] = flight[s] \/ flight'[s] = C!NoFlight
      /\ \A s \in Tabs \ {t} : flight'[s] = flight[s]
  BY <1>1, <1>2, NoFlightType
<1>5. WaitsHeld'
  <2> SUFFICES ASSUME NEW q \in Reqs, req'[q].pc = "waiting"
               PROVE  flight'[TabOfRequest[q]].pc # "none"
    BY DEF WaitsHeld
  <2>1. TabOfRequest[q] # t /\ req'[q] = req[q]
    BY <1>2, IdleReqType
  <2>2. TabOfRequest[q] \in Tabs
    BY TabOfType
  <2> QED BY <1>1, <1>4, <2>1, <2>2 DEF WaitsHeld
<1> QED BY <1>1, <1>2, <1>3, <1>4, <1>5, DropStep

(* A request is answered well; a logout closes the sessions of its user.   *)
LEMMA AnswerOkStep ==
  ASSUME C!ConsoleAssumption, BrowserInv, NEW r \in Reqs, C!AnswerOk(r)
  PROVE  BrowserInv'
<1>1. /\ req \in [Reqs -> ReqType] /\ flight \in [Tabs -> FlightType] /\ out \in BOOLEAN
      /\ refresh \in Seq(RefreshType) /\ WaitsHeld
  BY DEF BrowserInv, BrowserTypes
<1>2. access' = access /\ UNCHANGED <<scene, uses, again, mixed>>
  BY DEF C!AnswerOk
<1>3. CASE req[r].kind = "logout"
  <2> DEFINE u == access[req[r].access].user
             closed == [i \in DOMAIN refresh |->
                          IF refresh[i].user = u THEN [refresh[i] EXCEPT !.live = FALSE] ELSE refresh[i]]
             T == RefreshType
  <2>1. refresh' = closed /\ C!Ended(r)
    BY <1>3 DEF C!AnswerOk
  <2>2. ASSUME NEW i \in DOMAIN refresh
        PROVE  closed[i] \in T /\ closed[i].user = refresh[i].user /\ closed[i].rotated = refresh[i].rotated
    <3>1. refresh[i] \in RefreshType
      BY <1>1, ElementOfSeq
    <3>2. [refresh[i] EXCEPT !.live = FALSE] \in RefreshType
      BY <3>1 DEF RefreshType
    <3> HIDE DEF u
    <3> QED BY <3>1, <3>2 DEF RefreshType
  <2>3. closed \in [DOMAIN refresh -> T] /\ refresh \in Seq(T)
    <3> HIDE DEF T, u
    <3>1. \A i \in DOMAIN refresh : closed[i] \in T
      BY <2>2
    <3> QED BY <1>1, <3>1 DEF T
  <2>4. refresh' \in Seq(RefreshType) /\ Len(refresh') = Len(refresh) /\ DOMAIN refresh = 1 .. Len(refresh)
    <3> HIDE DEF closed, T
    <3>1. closed \in Seq(T) /\ Len(closed) = Len(refresh)
      BY <2>3, Remapped
    <3>2. DOMAIN refresh = 1 .. Len(refresh)
      BY <2>3, LenProperties
    <3> QED BY <2>1, <3>1, <3>2 DEF T
  <2>5. \A i \in 1 .. Len(refresh) : /\ refresh'[i].user = refresh[i].user
                                     /\ refresh'[i].rotated = refresh[i].rotated
    BY <2>1, <2>2, <2>4
  <2> QED BY <1>2, <2>1, <2>4, <2>5, EndedStep
<1>4. CASE req[r].kind # "logout"
  <2>1. /\ req' = [req EXCEPT ![r] = C!IdleReq] /\ refresh' = refresh
        /\ UNCHANGED <<store, flight, out>>
    BY <1>4 DEF C!AnswerOk
  <2>2. req' \in [Reqs -> ReqType] /\ \A q \in Reqs : req'[q] = req[q] \/ req'[q] = C!IdleReq
    BY <1>1, <2>1, IdleReqType
  <2>3. WaitsHeld'
    BY <1>1, <2>1, <2>2, IdleReqType DEF WaitsHeld
  <2> QED BY <1>1, <1>2, <2>1, <2>2, <2>3, DropStep
<1> QED BY <1>3, <1>4

(* A request fails for good.                                               *)
LEMMA AnswerFailsStep ==
  ASSUME C!ConsoleAssumption, BrowserInv, NEW r \in Reqs, C!AnswerFails(r)
  PROVE  BrowserInv'
<1>1. refresh \in Seq(RefreshType)
  BY DEF BrowserInv, BrowserTypes
<1> QED BY <1>1, EndedStep DEF C!AnswerFails

(* A request that waits joins the refresh of its tab, or begins it with    *)
(* the stored token, which the tab did not present yet.                    *)
LEMMA WaitsStep ==
  ASSUME C!ConsoleAssumption, BrowserInv, NEW r \in Reqs, C!Waits(r),
         req[r].got = C!NoTokens, req[r].pc # "idle",
         UNCHANGED <<scene, access, refresh, uses, again, mixed>>
  PROVE  BrowserInv'
<1> DEFINE tab == TabOfRequest[r]
           new == [pc |-> IF store.refresh = 0 THEN "answered" ELSE "sent",
                   body |-> store.refresh, got |-> C!NoTokens]
           k == [req[r] EXCEPT !.pc = "waiting"]
<1>1. /\ BrowserTypes /\ TokensHeld /\ WaitsHeld /\ PairsHeld /\ FreshHeld /\ UsesHeld /\ OutHeld
      /\ Len(access) \in Nat /\ Len(refresh) \in Nat
  BY Lengths DEF BrowserInv
<1>2. /\ req \in [Reqs -> ReqType] /\ flight \in [Tabs -> FlightType] /\ store \in PairType
      /\ refresh \in Seq(RefreshType) /\ access \in Seq(AccessType) /\ uses \subseteq UseType
  BY <1>1 DEF BrowserTypes
<1>3. tab \in Tabs /\ TabOfRequest \in [Reqs -> Tabs]
  BY TabOfType
<1>4. /\ k \in ReqType /\ k.pc = "waiting" /\ k.kind = req[r].kind /\ k.access = req[r].access
      /\ k.body = req[r].body /\ k.got = C!NoTokens
  BY <1>2 DEF ReqType
<1>5. /\ new \in FlightType /\ new.pc # "none" /\ new.body = store.refresh /\ new.got = C!NoTokens
      /\ new.pc = "sent" => store.refresh # 0
  BY <1>2, NoTokensType DEF FlightType, PairType
<1>6. /\ req' = [req EXCEPT ![r] = k]
      /\ \/ flight[tab].pc # "none" /\ flight' = flight
         \/ flight[tab].pc = "none" /\ flight' = [flight EXCEPT ![tab] = new]
      /\ store' = store /\ out' = out
  BY DEF C!Waits
<1> HIDE DEF tab, new, k
<1>7. /\ req' \in [Reqs -> ReqType] /\ req'[r] = k
      /\ \A q \in Reqs \ {r} : req'[q] = req[q]
  BY <1>2, <1>4, <1>6
<1>8. /\ flight' \in [Tabs -> FlightType] /\ flight'[tab].pc # "none"
      /\ \A t \in Tabs : \/ flight'[t] = flight[t]
                         \/ flight[t].pc = "none" /\ flight'[t] = new
  BY <1>2, <1>3, <1>5, <1>6
<1>9. Grows
  BY <1>1, <1>2 DEF Grows
<1>10. BrowserTypes'
  BY <1>1, <1>6, <1>7, <1>8 DEF BrowserTypes
<1>11. TokensHeld'
  <2>1. ASSUME NEW q \in Reqs
        PROVE  /\ req'[q].access <= Len(access') /\ req'[q].body <= Len(refresh')
               /\ req'[q].pc = "idle" => req'[q].body = 0
    BY <1>1, <1>4, <1>7, <1>9, HeldBounds
  <2>2. ASSUME NEW t \in Tabs
        PROVE  flight'[t].body <= Len(refresh')
    BY <1>1, <1>5, <1>8, <1>9, HeldBounds
  <2> QED BY <1>1, <1>6, <1>9, <2>1, <2>2, HeldBounds, TokensStay
<1>12. WaitsHeld'
  <2> SUFFICES ASSUME NEW q \in Reqs, req'[q].pc = "waiting"
               PROVE  flight'[TabOfRequest[q]].pc # "none"
    BY DEF WaitsHeld
  <2>1. TabOfRequest[q] \in Tabs
    BY <1>3
  <2>2. CASE q = r
    BY <1>8, <2>2 DEF tab
  <2>3. CASE q # r
    BY <1>1, <1>5, <1>7, <1>8, <2>1, <2>3 DEF WaitsHeld
  <2> QED BY <2>2, <2>3
<1>13. PairsHeld'
  <2>1. C!SameUser'
    BY <1>1, <1>6, <1>9, SameUserStays
  <2>2. \A t \in Tabs : flight'[t].got = C!NoTokens \/ flight'[t] = flight[t]
    BY <1>5, <1>8
  <2>3. \A q \in Reqs : req'[q].got = C!NoTokens \/ req'[q] = req[q]
    BY <1>4, <1>7
  <2> QED BY <1>1, <1>9, <2>1, <2>2, <2>3, PairsStay
<1>14. FreshHeld'
  <2>1. \A t \in Tabs : /\ flight'[t].got = C!NoTokens \/ flight'[t].got = flight[t].got
                        /\ flight'[t].body \in {flight[t].body, store.refresh, 0}
    BY <1>5, <1>8
  <2>2. \A q \in Reqs : req'[q].body \in {req[q].body, store.refresh, 0}
    BY <1>4, <1>7
  <2> QED BY <1>1, <1>6, <2>1, <2>2, FreshStays
<1>15. UsesHeld'
  <2>1. \A t \in Tabs :
          \/ flight'[t].pc = flight[t].pc /\ flight'[t].body = flight[t].body
          \/ flight[t].pc = "none" /\ flight'[t].body = store.refresh
          \/ flight'[t].pc = "none" /\ store'.refresh = 0
    BY <1>5, <1>8
  <2> QED BY <1>1, <1>2, <1>6, <2>1, UsesStay
<1>16. OutHeld'
  <2> SUFFICES ASSUME out
               PROVE  /\ store' = C!NoTokens
                      /\ \A t \in Tabs : flight'[t].pc # "sent" /\ flight'[t].got = C!NoTokens
                      /\ \A q \in Reqs : req'[q].kind = "switch" => req'[q].body = 0
    BY <1>6 DEF OutHeld
  <2>1. store = C!NoTokens /\ store.refresh = 0
    BY <1>1, NoTokensType DEF OutHeld
  <2>2. ASSUME NEW t \in Tabs
        PROVE  flight'[t].pc # "sent" /\ flight'[t].got = C!NoTokens
    BY <1>1, <1>5, <1>8, <2>1 DEF OutHeld
  <2>3. ASSUME NEW q \in Reqs, req'[q].kind = "switch"
        PROVE  req'[q].body = 0
    BY <1>1, <1>4, <1>7, <2>3 DEF OutHeld
  <2> QED BY <1>6, <2>1, <2>2, <2>3
<1> QED BY <1>10, <1>11, <1>12, <1>13, <1>14, <1>15, <1>16 DEF BrowserInv

(* A request is refused: it waits for a refresh, or fails for good.        *)
LEMMA Answer401Step ==
  ASSUME C!ConsoleAssumption, BrowserInv, NEW r \in Reqs, C!Answer401(r)
  PROVE  BrowserInv'
<1>1. refresh \in Seq(RefreshType)
  BY DEF BrowserInv, BrowserTypes
<1>2. req[r].pc = "sent" /\ UNCHANGED <<scene, access, refresh, uses, again, mixed>>
  BY DEF C!Answer401
<1>3. req[r].got = C!NoTokens
  BY <1>2 DEF BrowserInv, PairsHeld
<1>4. CASE C!Waits(r)
  BY <1>2, <1>3, <1>4, WaitsStep
<1>5. CASE C!Ended(r)
  BY <1>1, <1>2, <1>5, EndedStep
<1> QED BY <1>4, <1>5 DEF C!Answer401

-----------------------------------------------------------------------------
(* A sign-in stores tokens that nobody else has.                           *)
LEMMA SignInStep ==
  ASSUME BrowserInv, NEW t \in Tabs, NEW u \in {u1, u2}, C!SignIn(t, u)
  PROVE  BrowserInv'
<1> DEFINE a == [user |-> u, live |-> TRUE]
           f == [user |-> u, live |-> TRUE, rotated |-> FALSE]
           na == Len(access)
           nf == Len(refresh)
           new == [access |-> na + 1, refresh |-> nf + 1]
<1>1. /\ BrowserTypes /\ TokensHeld /\ WaitsHeld /\ PairsHeld /\ FreshHeld /\ UsesHeld
      /\ na \in Nat /\ nf \in Nat /\ nf <= na
  BY Lengths DEF BrowserInv
<1>2. /\ access \in Seq(AccessType) /\ refresh \in Seq(RefreshType) /\ uses \subseteq UseType
      /\ flight \in [Tabs -> FlightType] /\ req \in [Reqs -> ReqType]
  BY <1>1 DEF BrowserTypes
<1>3. /\ access' = Append(access, a) /\ refresh' = Append(refresh, f) /\ store' = new
      /\ mixed' = FALSE /\ out' = FALSE
      /\ UNCHANGED <<scene, sends, req, flight, uses, again>>
  BY DEF C!SignIn
<1>4. a \in AccessType /\ f \in RefreshType /\ a.user = f.user /\ ~f.rotated
  BY DEF AccessType, RefreshType
<1>5. new \in PairType /\ new.access = na + 1 /\ new.refresh = nf + 1
  BY <1>1 DEF PairType
<1> HIDE DEF a, f, new
<1>6. /\ access' \in Seq(AccessType) /\ Len(access') = na + 1 /\ access'[na + 1] = a
      /\ \A i \in 1 .. na : access'[i] = access[i]
      /\ refresh' \in Seq(RefreshType) /\ Len(refresh') = nf + 1 /\ refresh'[nf + 1] = f
      /\ \A i \in 1 .. nf : refresh'[i] = refresh[i]
  BY <1>2, <1>3, <1>4, Appended
<1> HIDE DEF na, nf
<1>7. Grows
  BY <1>1, <1>6 DEF Grows, na, nf
<1>8. BrowserTypes'
  <2>1. again' \subseteq 1 .. Len(refresh') /\ Len(refresh') <= Len(access')
    BY <1>1, <1>3, <1>6 DEF BrowserTypes, nf
  <2>2. mixed' \in BOOLEAN /\ out' \in BOOLEAN
    BY <1>3
  <2> QED BY <1>1, <1>3, <1>5, <1>6, <2>1, <2>2 DEF BrowserTypes
<1>9. TokensHeld'
  <2>1. store'.access <= Len(access') /\ store'.refresh <= Len(refresh')
    BY <1>1, <1>3, <1>5, <1>6
  <2> QED BY <1>1, <1>3, <1>7, <2>1, HeldBounds, TokensStay
<1>10. WaitsHeld'
  BY <1>1, <1>3 DEF WaitsHeld
<1>11. PairsHeld'
  <2>1. C!SameUser'
    BY <1>3, <1>4, <1>5, <1>6 DEF C!SameUser
  <2> QED BY <1>1, <1>3, <1>7, <2>1, PairsStay
<1>12. FreshHeld'
  <2>1. ASSUME NEW s \in Tabs, flight[s].got # C!NoTokens
        PROVE  store'.refresh # flight[s].got.refresh
    <3>1. flight[s].got.refresh \in 1 .. nf
      BY <1>1, <2>1 DEF PairsHeld, nf
    <3> QED BY <1>1, <1>3, <1>5, <3>1
  <2> QED BY <1>1, <1>3, <2>1 DEF FreshHeld
<1>13. UsesHeld'
  <2>1. C!AgainExplained'
    BY <1>1, <1>3 DEF UsesHeld, C!AgainExplained
  <2>2. ASSUME NEW n \in 1 .. nf + 1, refresh'[n].rotated
        PROVE  \E w \in uses : w.token = n
    <3>1. n \in 1 .. nf
      BY <1>1, <1>4, <1>6, <2>2
    <3> QED BY <1>1, <1>6, <2>2, <3>1 DEF UsesHeld, nf
  <2>3. ASSUME NEW w \in uses
        PROVE  store'.refresh # w.token
    <3>1. w.token \in Nat /\ w.token <= nf
      BY <1>1, <1>2 DEF TokensHeld, UseType, nf
    <3> QED BY <1>1, <1>3, <1>5, <3>1
  <2> QED BY <1>1, <1>3, <1>6, <2>1, <2>2, <2>3 DEF UsesHeld
<1>14. OutHeld'
  BY <1>3 DEF OutHeld
<1> QED BY <1>8, <1>9, <1>10, <1>11, <1>12, <1>13, <1>14 DEF BrowserInv

(* Steps that leave refreshes, refresh tokens and requests alone.          *)
LEMMA AccessStep ==
  ASSUME BrowserInv, UNCHANGED <<scene, refresh, req, flight, uses, again>>,
         access' \in Seq(AccessType), Len(access) <= Len(access'),
         \A i \in 1 .. Len(access) : access'[i].user = access[i].user,
         store' \in PairType, store'.refresh = store.refresh, store'.access <= Len(access'),
         mixed' \in BOOLEAN, out' \in BOOLEAN, C!SameUser', out' => out /\ store' = store
  PROVE  BrowserInv'
<1>1. /\ BrowserTypes /\ TokensHeld /\ WaitsHeld /\ PairsHeld /\ FreshHeld /\ UsesHeld /\ OutHeld
      /\ Len(access) \in Nat /\ Len(refresh) \in Nat
  BY Lengths DEF BrowserInv
<1>2. Grows
  BY <1>1 DEF Grows, BrowserTypes
<1>3. BrowserTypes'
  <2>1. Len(access') \in Nat /\ Len(refresh) <= Len(access')
    BY <1>1, LenProperties DEF BrowserTypes
  <2> QED BY <1>1, <2>1 DEF BrowserTypes
<1>4. TokensHeld'
  BY <1>1, <1>2, HeldBounds, TokensStay
<1>5. WaitsHeld'
  BY <1>1 DEF WaitsHeld
<1>6. PairsHeld'
  BY <1>1, <1>2, PairsStay
<1>7. FreshHeld'
  BY <1>1, FreshStays
<1>8. UsesHeld'
  BY <1>1 DEF UsesHeld, C!AgainExplained
<1>9. OutHeld'
  BY <1>1 DEF OutHeld
<1> QED BY <1>3, <1>4, <1>5, <1>6, <1>7, <1>8, <1>9 DEF BrowserInv

(* The SSO callback leaves an older refresh token, and says so in mixed.   *)
LEMMA SsoCallbackStep ==
  ASSUME BrowserInv, NEW t \in Tabs, NEW u \in {u1, u2}, C!SsoCallback(t, u)
  PROVE  BrowserInv'
<1> DEFINE a == [user |-> u, live |-> TRUE]
           na == Len(access)
           was == store.refresh # 0
<1>1. /\ BrowserTypes /\ TokensHeld /\ na \in Nat /\ access \in Seq(AccessType) /\ store \in PairType
  BY Lengths DEF BrowserInv, BrowserTypes
<1>2. /\ access' = Append(access, a) /\ store' = [store EXCEPT !.access = na + 1]
      /\ mixed' = was /\ out' = FALSE
      /\ UNCHANGED <<scene, sends, refresh, req, flight, uses, again>>
  BY DEF C!SsoCallback
<1>3. a \in AccessType
  BY DEF AccessType
<1>4. store' \in PairType /\ store'.refresh = store.refresh /\ store'.access = na + 1
  BY <1>1, <1>2 DEF PairType
<1>5. was \in BOOLEAN /\ (store.refresh # 0 => was)
  OBVIOUS
<1> HIDE DEF a, was
<1>6. /\ access' \in Seq(AccessType) /\ Len(access') = na + 1
      /\ \A i \in 1 .. na : access'[i] = access[i]
  BY <1>1, <1>2, <1>3, Appended
<1>7. Len(access) <= Len(access') /\ store'.access <= Len(access')
  BY <1>1, <1>4, <1>6
<1>8. mixed' \in BOOLEAN /\ out' \in BOOLEAN /\ ~out'
  BY <1>2, <1>5
<1>9. C!SameUser'
  BY <1>2, <1>4, <1>5 DEF C!SameUser
<1> QED BY <1>2, <1>4, <1>6, <1>7, <1>8, <1>9, AccessStep

(* An access token expires; it is its user's still.                        *)
LEMMA ExpireStep ==
  ASSUME BrowserInv, NEW i \in DOMAIN access, C!Expire(i)
  PROVE  BrowserInv'
<1>1. /\ BrowserTypes /\ TokensHeld /\ PairsHeld /\ Len(access) \in Nat /\ access \in Seq(AccessType)
      /\ DOMAIN access = 1 .. Len(access)
      /\ store \in PairType /\ mixed \in BOOLEAN /\ out \in BOOLEAN /\ refresh \in Seq(RefreshType)
      /\ Len(refresh) \in Nat
  BY Lengths, LenProperties DEF BrowserInv, BrowserTypes
<1> DEFINE T == AccessType
           a == [access[i] EXCEPT !.live = FALSE]
<1>2. /\ access' = [access EXCEPT ![i] = a]
      /\ UNCHANGED <<scene, store, refresh, req, flight, uses, again, mixed, out>>
  BY DEF C!Expire
<1>3. a \in T /\ a.user = access[i].user
  <2>1. access[i] \in AccessType
    BY <1>1, ElementOfSeq
  <2> QED BY <2>1 DEF AccessType
<1> HIDE DEF a, T
<1>4. access \in Seq(T)
  BY <1>1 DEF T
<1>5. access' \in Seq(T) /\ Len(access') = Len(access) /\ \A j \in 1 .. Len(access) : access'[j].user = access[j].user
  BY <1>1, <1>2, <1>3, <1>4, ExceptSeq
<1>6. access' \in Seq(AccessType)
  BY <1>5 DEF T
<1>7. Grows
  BY <1>1, <1>2, <1>5, <1>6 DEF Grows
<1>8. C!SameUser'
  BY <1>1, <1>2, <1>7, SameUserStays
<1>9. store.access <= Len(access')
  BY <1>1, <1>5 DEF TokensHeld
<1> QED BY <1>1, <1>2, <1>5, <1>6, <1>8, <1>9, AccessStep

-----------------------------------------------------------------------------
(* Steps of requests that leave the server and the refreshes alone.        *)
LEMMA RequestsStep ==
  ASSUME BrowserInv, UNCHANGED <<scene, access, refresh, flight, uses, again, out>>,
         store' \in PairType, store'.refresh = store.refresh, store'.access <= Len(access),
         mixed' \in BOOLEAN, C!SameUser', out => store' = store,
         req' \in [Reqs -> ReqType],
         \A r \in Reqs : \/ req'[r] = req[r]
                         \/ /\ req'[r].got = C!NoTokens /\ req'[r].access \in {store.access, 0}
                            /\ req'[r].body \in {store.refresh, 0} /\ req'[r].pc # "waiting"
                            /\ req'[r].pc = "idle" => req'[r].body = 0
  PROVE  BrowserInv'
<1>1. /\ BrowserTypes /\ TokensHeld /\ WaitsHeld /\ PairsHeld /\ FreshHeld /\ UsesHeld /\ OutHeld
      /\ Len(access) \in Nat /\ Len(refresh) \in Nat
  BY Lengths DEF BrowserInv
<1>2. Grows
  BY <1>1 DEF Grows, BrowserTypes
<1>3. BrowserTypes'
  BY <1>1 DEF BrowserTypes
<1>4. TokensHeld'
  <2>1. ASSUME NEW r \in Reqs
        PROVE  /\ req'[r].access <= Len(access') /\ req'[r].body <= Len(refresh')
               /\ req'[r].pc = "idle" => req'[r].body = 0
    BY <1>1, <1>2, HeldBounds
  <2> QED BY <1>1, <1>2, <2>1, HeldBounds, TokensStay
<1>5. WaitsHeld'
  BY <1>1 DEF WaitsHeld
<1>6. PairsHeld'
  BY <1>1, <1>2, PairsStay
<1>7. FreshHeld'
  BY <1>1, FreshStays
<1>8. UsesHeld'
  BY <1>1 DEF UsesHeld, C!AgainExplained
<1>9. OutHeld'
  <2> SUFFICES ASSUME out
               PROVE  /\ store' = C!NoTokens
                      /\ \A r \in Reqs : req'[r].kind = "switch" => req'[r].body = 0
    BY <1>1 DEF OutHeld
  <2>1. store = C!NoTokens /\ store.refresh = 0
    BY <1>1, NoTokensType DEF OutHeld
  <2>2. ASSUME NEW r \in Reqs, req'[r].kind = "switch"
        PROVE  req'[r].body = 0
    BY <1>1, <2>1, <2>2 DEF OutHeld
  <2> QED BY <2>1, <2>2
<1> QED BY <1>3, <1>4, <1>5, <1>6, <1>7, <1>8, <1>9 DEF BrowserInv

(* A request is sent with what is stored at that moment.                   *)
LEMMA SendStep ==
  ASSUME BrowserInv, NEW r \in Reqs, NEW kind \in scene.kinds, C!ConsoleAssumption, C!Send(r, kind)
  PROVE  BrowserInv'
<1> DEFINE body == C!Body(kind)
           k == [pc |-> "sent", kind |-> kind, access |-> store.access, body |-> body,
                 retry |-> TRUE, got |-> C!NoTokens]
<1>1. /\ BrowserTypes /\ TokensHeld /\ PairsHeld /\ scene \in ConsoleScenes /\ store \in PairType
      /\ req \in [Reqs -> ReqType] /\ mixed \in BOOLEAN /\ refresh \in Seq(RefreshType)
      /\ access \in Seq(AccessType) /\ Len(access) \in Nat /\ Len(refresh) \in Nat
  BY Lengths DEF BrowserInv, BrowserTypes
<1>2. /\ req' = [req EXCEPT ![r] = k]
      /\ UNCHANGED <<scene, store, access, refresh, flight, uses, again, mixed, out>>
  BY DEF C!Send
<1>3. kind \in {"get", "boot", "logout", "switch"}
  BY <1>1 DEF C!ConsoleAssumption
<1>4. body \in Nat /\ body \in {store.refresh, 0}
  BY <1>1 DEF C!Body, PairType
<1> HIDE DEF body
<1>5. /\ k \in ReqType /\ k.got = C!NoTokens /\ k.access = store.access /\ k.body = body
      /\ k.pc = "sent"
  BY <1>1, <1>3, <1>4, NoTokensType DEF ReqType, PairType
<1> HIDE DEF k
<1>6. /\ req' \in [Reqs -> ReqType]
      /\ \A q \in Reqs : req'[q] = req[q] \/ req'[q] = k
  BY <1>1, <1>2, <1>5
<1>7. Grows
  BY <1>1, <1>2 DEF Grows
<1>8. C!SameUser'
  BY <1>1, <1>2, <1>7, SameUserStays
<1>9. \A q \in Reqs : \/ req'[q] = req[q]
                      \/ /\ req'[q].got = C!NoTokens /\ req'[q].access \in {store.access, 0}
                         /\ req'[q].body \in {store.refresh, 0} /\ req'[q].pc # "waiting"
                         /\ req'[q].pc = "idle" => req'[q].body = 0
  BY <1>4, <1>5, <1>6
<1>10. store.access <= Len(access)
  BY <1>1 DEF TokensHeld
<1> QED BY <1>1, <1>2, <1>6, <1>8, <1>9, <1>10, RequestsStep

(* The access token of a switch is stored: it is of the user whose refresh *)
(* token was switched, which may not be stored any more.                   *)
LEMMA SwitchArrivesStep ==
  ASSUME C!ConsoleAssumption, BrowserInv, NEW r \in Reqs, C!SwitchArrives(r)
  PROVE  BrowserInv'
<1> DEFINE g == req[r].got
           other == store.refresh # req[r].body
<1>1. /\ BrowserTypes /\ TokensHeld /\ PairsHeld /\ OutHeld /\ store \in PairType
      /\ req \in [Reqs -> ReqType] /\ mixed \in BOOLEAN /\ out \in BOOLEAN /\ refresh \in Seq(RefreshType)
      /\ Len(access) \in Nat /\ Len(refresh) \in Nat
  BY Lengths DEF BrowserInv, BrowserTypes
<1>2. req[r].pc = "answered" /\ UNCHANGED <<scene, sends, access, refresh, uses, again>>
  BY DEF C!SwitchArrives
<1>3. CASE g # C!NoTokens
  <2>1. /\ store' = [store EXCEPT !.access = g.access] /\ req' = [req EXCEPT ![r] = C!IdleReq]
        /\ mixed' = (mixed \/ other) /\ UNCHANGED <<flight, out>>
    BY <1>3 DEF C!SwitchArrives
  <2>2. /\ g.access \in 1 .. Len(access) /\ req[r].body \in 1 .. Len(refresh)
        /\ access[g.access].user = refresh[req[r].body].user
        /\ req[r].kind = "switch" /\ req[r].body # 0
    BY <1>1, <1>3 DEF PairsHeld
  <2>3. store' \in PairType /\ store'.refresh = store.refresh /\ store'.access = g.access
    BY <1>1, <2>1, <2>2 DEF PairType
  <2>4. ~out
    BY <1>1, <2>2 DEF OutHeld
  <2>5. other \in BOOLEAN
    OBVIOUS
  <2>6. mixed' \in BOOLEAN /\ (~mixed' => ~other)
    <3> HIDE DEF other
    <3> QED BY <1>1, <2>1, <2>5
  <2>7. C!SameUser'
    BY <1>2, <2>2, <2>3, <2>6 DEF C!SameUser
  <2>8. /\ req' \in [Reqs -> ReqType]
        /\ \A q \in Reqs : req'[q] = req[q] \/ req'[q] = C!IdleReq
    BY <1>1, <2>1, IdleReqType
  <2>9. \A q \in Reqs : \/ req'[q] = req[q]
                        \/ /\ req'[q].got = C!NoTokens /\ req'[q].access \in {store.access, 0}
                           /\ req'[q].body \in {store.refresh, 0} /\ req'[q].pc # "waiting"
                           /\ req'[q].pc = "idle" => req'[q].body = 0
    BY <2>8, IdleReqType
  <2>10. store'.access <= Len(access)
    BY <1>1, <2>2, <2>3
  <2> HIDE DEF g, other
  <2> QED BY <1>2, <2>1, <2>3, <2>4, <2>6, <2>7, <2>8, <2>9, <2>10, RequestsStep
<1>4. CASE g = C!NoTokens
  <2>1. (C!Waits(r) \/ C!Ended(r)) /\ mixed' = mixed
    BY <1>4 DEF C!SwitchArrives
  <2>2. CASE C!Waits(r)
    BY <1>2, <1>4, <2>1, <2>2, WaitsStep
  <2>3. CASE C!Ended(r)
    BY <1>1, <1>2, <2>1, <2>3, EndedStep
  <2> QED BY <2>1, <2>2, <2>3
<1> QED BY <1>3, <1>4

(* The pair that a refresh brings is stored, and its refresh token is      *)
(* nowhere else; the requests that waited are sent again.                  *)
LEMMA FlightArrivesStep ==
  ASSUME C!ConsoleAssumption, BrowserInv, NEW t \in Tabs, C!FlightArrives(t)
  PROVE  BrowserInv'
<1> DEFINE g == flight[t].got
<1>1. /\ BrowserTypes /\ TokensHeld /\ WaitsHeld /\ PairsHeld /\ FreshHeld /\ UsesHeld /\ OutHeld
      /\ Len(access) \in Nat /\ Len(refresh) \in Nat
  BY Lengths DEF BrowserInv
<1>2. /\ req \in [Reqs -> ReqType] /\ flight \in [Tabs -> FlightType] /\ store \in PairType
      /\ refresh \in Seq(RefreshType) /\ access \in Seq(AccessType) /\ uses \subseteq UseType
  BY <1>1 DEF BrowserTypes
<1>3. /\ flight[t].pc = "answered" /\ g # C!NoTokens /\ store' = g /\ mixed' = FALSE
      /\ flight' = [flight EXCEPT ![t] = C!NoFlight]
      /\ req' = [r \in Reqs |->
                   IF TabOfRequest[r] = t /\ req[r].pc = "waiting"
                   THEN [req[r] EXCEPT !.pc = "sent", !.retry = FALSE, !.access = g.access]
                   ELSE req[r]]
      /\ UNCHANGED <<scene, sends, access, refresh, uses, again, out>>
  BY DEF C!FlightArrives
<1>4. /\ g \in PairType /\ g.access \in 1 .. Len(access) /\ g.refresh \in 1 .. Len(refresh)
      /\ access[g.access].user = refresh[g.refresh].user
  <2>1. flight[t] \in FlightType
    BY <1>2
  <2> QED BY <1>1, <1>3, <2>1 DEF PairsHeld, FlightType
<1>5. /\ store.refresh # g.refresh
      /\ \A s \in Tabs : flight[s].body # g.refresh /\ (s # t => flight[s].got.refresh # g.refresh)
      /\ \A r \in Reqs : req[r].body # g.refresh
      /\ \A w \in uses : w.token # g.refresh
  BY <1>1, <1>3 DEF FreshHeld
<1>6. ~out
  BY <1>1, <1>3 DEF OutHeld
<1> HIDE DEF g
<1>7. ASSUME NEW r \in Reqs
      PROVE  /\ req'[r] \in ReqType
             /\ req'[r].body = req[r].body
             /\ \/ req'[r] = req[r] /\ ~(TabOfRequest[r] = t /\ req[r].pc = "waiting")
                \/ req'[r].access = g.access /\ req'[r].pc = "sent" /\ req[r].pc = "waiting"
                   /\ req'[r].got = req[r].got
  <2>1. req[r] \in ReqType
    BY <1>2
  <2>2. CASE TabOfRequest[r] = t /\ req[r].pc = "waiting"
    <3>1. req'[r] = [req[r] EXCEPT !.pc = "sent", !.retry = FALSE, !.access = g.access]
      BY <1>3, <2>2
    <3>2. g.access \in Nat
      BY <1>4 DEF PairType
    <3> QED BY <2>1, <2>2, <3>1, <3>2 DEF ReqType
  <2>3. CASE ~(TabOfRequest[r] = t /\ req[r].pc = "waiting")
    BY <1>3, <2>1, <2>3
  <2> QED BY <2>2, <2>3
<1>8. req' \in [Reqs -> ReqType]
  BY <1>3, <1>7
<1>9. /\ flight' \in [Tabs -> FlightType] /\ flight'[t] = C!NoFlight
      /\ \A s \in Tabs \ {t} : flight'[s] = flight[s]
  BY <1>2, <1>3, NoFlightType
<1>kept. /\ store' = g /\ mixed' = FALSE
      /\ UNCHANGED <<scene, access, refresh, uses, again, out>>
  BY <1>3
<1>10. Grows
  BY <1>kept, <1>1, <1>2 DEF Grows
<1>11. BrowserTypes'
  BY <1>1, <1>kept, <1>4, <1>8, <1>9 DEF BrowserTypes
<1>12. TokensHeld'
  <2>1. store'.access <= Len(access') /\ store'.refresh <= Len(refresh')
    BY <1>1, <1>kept, <1>4
  <2>2. ASSUME NEW r \in Reqs
        PROVE  /\ req'[r].access <= Len(access') /\ req'[r].body <= Len(refresh')
               /\ req'[r].pc = "idle" => req'[r].body = 0
    BY <1>1, <1>kept, <1>4, <1>7, <1>10, HeldBounds
  <2>3. ASSUME NEW s \in Tabs
        PROVE  flight'[s].body <= Len(refresh')
    BY <1>1, <1>9, <1>10, NoFlightType, HeldBounds
  <2> QED BY <1>1, <1>kept, <1>10, <2>1, <2>2, <2>3, TokensStay
<1>13. WaitsHeld'
  <2> SUFFICES ASSUME NEW r \in Reqs, req'[r].pc = "waiting"
               PROVE  flight'[TabOfRequest[r]].pc # "none"
    BY DEF WaitsHeld
  <2>1. req'[r] = req[r] /\ TabOfRequest[r] # t
    BY <1>7
  <2>2. TabOfRequest[r] \in Tabs
    BY TabOfType
  <2> QED BY <1>1, <1>9, <2>1, <2>2 DEF WaitsHeld
<1>14. PairsHeld'
  <2>1. C!SameUser'
    BY <1>kept, <1>4 DEF C!SameUser
  <2>2. \A s \in Tabs : flight'[s].got = C!NoTokens \/ flight'[s] = flight[s]
    BY <1>9, NoFlightType
  <2>3. ASSUME NEW r \in Reqs
        PROVE  req'[r].got = C!NoTokens \/ req'[r] = req[r]
    BY <1>1, <1>7 DEF PairsHeld
  <2> QED BY <1>1, <1>10, <2>1, <2>2, <2>3, PairsStay
<1>15. FreshHeld'
  <2> SUFFICES ASSUME NEW s \in Tabs, flight'[s].got # C!NoTokens
               PROVE  /\ store'.refresh # flight'[s].got.refresh
                      /\ \A p \in Tabs : /\ flight'[p].body # flight'[s].got.refresh
                                         /\ p # s => flight'[p].got.refresh # flight'[s].got.refresh
                      /\ \A r \in Reqs : req'[r].body # flight'[s].got.refresh
                      /\ \A w \in uses : w.token # flight'[s].got.refresh
    BY <1>kept DEF FreshHeld
  <2> DEFINE m == flight[s].got.refresh
  <2>1. s # t /\ flight'[s] = flight[s] /\ flight[s].got # C!NoTokens
    BY <1>9, NoFlightType
  <2>2. /\ \A p \in Tabs : flight[p].body # m /\ (p # s => flight[p].got.refresh # m)
        /\ \A r \in Reqs : req[r].body # m
        /\ \A w \in uses : w.token # m
    BY <1>1, <2>1 DEF FreshHeld
  <2>3. m # 0
    BY <1>1, <2>1 DEF PairsHeld
  <2>4. store'.refresh # m
    BY <1>kept, <1>5, <2>1
  <2>5. flight'[s].got.refresh = m
    BY <2>1
  <2> HIDE DEF m
  <2>6. ASSUME NEW p \in Tabs
        PROVE  flight'[p].body # m /\ (p # s => flight'[p].got.refresh # m)
    BY <1>9, <2>2, <2>3, NoFlightType, NoTokensType
  <2>7. \A r \in Reqs : req'[r].body # m
    BY <1>7, <2>2
  <2> QED BY <2>2, <2>4, <2>5, <2>6, <2>7
<1>16. UsesHeld'
  <2>1. C!AgainExplained'
    BY <1>1, <1>kept DEF UsesHeld, C!AgainExplained
  <2>2. \A n \in 1 .. Len(refresh') : refresh'[n].rotated => \E w \in uses' : w.token = n
    BY <1>1, <1>kept DEF UsesHeld
  <2>3. ASSUME NEW w \in uses', w.kind = "refresh", w.token # 0
        PROVE  /\ flight'[w.tab].pc = "sent" => flight'[w.tab].body # w.token
               /\ store'.refresh # w.token
    <3>1. w \in uses /\ w.tab \in Tabs
      BY <1>2, <1>kept DEF UseType
    <3>2. flight[w.tab].pc = "sent" => flight[w.tab].body # w.token
      BY <1>1, <2>3, <3>1 DEF UsesHeld
    <3> QED BY <1>kept, <1>5, <1>9, <3>1, <3>2, NoFlightType
  <2> QED BY <2>1, <2>2, <2>3 DEF UsesHeld
<1>17. OutHeld'
  BY <1>kept, <1>6 DEF OutHeld
<1> QED BY <1>11, <1>12, <1>13, <1>14, <1>15, <1>16, <1>17 DEF BrowserInv

-----------------------------------------------------------------------------
(* The tab did not refresh with that token before.                         *)
FirstUse(n, tab) ==
  \A w \in uses : w.kind = "refresh" /\ w.token = n /\ n # 0 => w.tab # tab

(* POST /auth/refresh with a token that somebody holds: a pair that is     *)
(* nobody's yet, or none; whoever presents a rotated token is not the only *)
(* one, or switched.                                                       *)
LEMMA RefreshServed ==
  ASSUME BrowserInv, NEW n \in Nat, n <= Len(refresh),
         NEW tab \in Tabs, NEW kind \in {"refresh", "switch"},
         C!Refresh(n, [token |-> 0, tab |-> tab, kind |-> kind]),
         kind = "switch" \/ FirstUse(n, tab)
  PROVE  /\ Grows /\ Len(refresh') <= Len(access')
         /\ uses' = uses \cup {[token |-> n, tab |-> tab, kind |-> kind]}
         /\ uses' \subseteq UseType /\ again' \subseteq 1 .. Len(refresh')
         /\ \A i \in 1 .. Len(refresh') : refresh'[i].rotated => \E w \in uses' : w.token = i
         /\ C!AgainExplained'
         /\ C!Granted(n) \in PairType
         /\ C!Granted(n) # C!NoTokens =>
              /\ n # 0
              /\ C!Granted(n).access = Len(access) + 1 /\ Len(access') = Len(access) + 1
              /\ C!Granted(n).refresh = Len(refresh) + 1 /\ Len(refresh') = Len(refresh) + 1
              /\ access'[Len(access) + 1].user = refresh[n].user
              /\ refresh'[Len(refresh) + 1].user = refresh[n].user
<1> DEFINE use == [token |-> n, tab |-> tab, kind |-> kind]
           na == Len(access)
           nf == Len(refresh)
<1>1. /\ BrowserTypes /\ TokensHeld /\ UsesHeld /\ na \in Nat /\ nf \in Nat /\ nf <= na
      /\ access \in Seq(AccessType) /\ refresh \in Seq(RefreshType) /\ uses \subseteq UseType
      /\ again \subseteq 1 .. nf
      /\ \A i \in 1 .. nf : refresh[i] \in RefreshType
  BY Lengths DEF BrowserInv, BrowserTypes
<1>2. DOMAIN refresh = 1 .. nf
  BY <1>1, LenProperties
<1>3. /\ use \in UseType /\ use.token = n /\ use.tab = tab /\ use.kind = kind
  BY DEF UseType
<1>4. uses' = uses \cup {use}
  BY DEF C!Refresh
<1>5. uses' \subseteq UseType /\ use \in uses'
  BY <1>1, <1>3, <1>4
<1>6. C!AgainExplained /\ \A i \in 1 .. nf : refresh[i].rotated => \E w \in uses : w.token = i
  BY <1>1 DEF UsesHeld
<1>7. CASE n # 0 /\ refresh[n].live
  <2> DEFINE a == [user |-> refresh[n].user, live |-> TRUE]
             f == [user |-> refresh[n].user, live |-> TRUE, rotated |-> FALSE]
             old == [refresh[n] EXCEPT !.live = FALSE, !.rotated = TRUE]
             rest == [refresh EXCEPT ![n] = old]
             T == RefreshType
  <2>1. /\ access' = Append(access, a) /\ again' = again
        /\ refresh' = Append([refresh EXCEPT ![n].live = FALSE, ![n].rotated = TRUE], f)
    BY <1>7 DEF C!Refresh
  <2>2. n \in 1 .. nf /\ refresh[n] \in RefreshType
    BY <1>1, <1>7
  <2>3. [refresh EXCEPT ![n].live = FALSE, ![n].rotated = TRUE] = rest
    BY <1>1, <1>2, <2>2
  <2>4. a \in AccessType /\ f \in T /\ old \in T /\ old.user = refresh[n].user
        /\ a.user = refresh[n].user /\ f.user = refresh[n].user /\ ~f.rotated
    BY <2>2 DEF AccessType, RefreshType
  <2>5. refresh' = Append(rest, f)
    BY <2>1, <2>3
  <2>6. C!Granted(n) = [access |-> na + 1, refresh |-> nf + 1]
    BY <1>7 DEF C!Granted
  <2> HIDE DEF a, f, old, T
  <2>7. refresh \in Seq(T)
    BY <1>1 DEF T
  <2>8. rest \in Seq(T) /\ Len(rest) = nf /\ DOMAIN rest = DOMAIN refresh
    BY <1>2, <2>2, <2>4, <2>7, ExceptSeq
  <2>9. /\ rest[n] = old /\ \A i \in 1 .. nf : i # n => rest[i] = refresh[i]
    BY <1>2, <2>2
  <2> HIDE DEF rest
  <2>10. /\ refresh' \in Seq(T) /\ Len(refresh') = nf + 1 /\ refresh'[nf + 1] = f
         /\ \A i \in 1 .. nf : refresh'[i] = rest[i]
    BY <2>4, <2>5, <2>8, Appended
  <2>11. /\ access' \in Seq(AccessType) /\ Len(access') = na + 1 /\ access'[na + 1] = a
         /\ \A i \in 1 .. na : access'[i] = access[i]
    BY <1>1, <2>1, <2>4, Appended
  <2> HIDE DEF na, nf
  <2>12. \A i \in 1 .. nf : refresh'[i].user = refresh[i].user
    BY <2>4, <2>9, <2>10
  <2>13. Grows /\ Len(refresh') <= Len(access')
    BY <1>1, <2>10, <2>11, <2>12 DEF Grows, T, na, nf
  <2>14. again' \subseteq 1 .. Len(refresh')
    BY <1>1, <2>1, <2>10
  <2>15. ASSUME NEW i \in 1 .. Len(refresh'), refresh'[i].rotated
         PROVE  \E w \in uses' : w.token = i
    <3>1. i \in 1 .. nf
      BY <1>1, <2>4, <2>10, <2>15
    <3>2. CASE i = n
      BY <1>3, <1>5, <3>2
    <3>3. CASE i # n
      BY <1>4, <1>6, <2>9, <2>10, <2>15, <3>1, <3>3
    <3> QED BY <3>2, <3>3
  <2>16. C!AgainExplained'
    BY <1>4, <1>6, <2>1 DEF C!AgainExplained
  <2>17. /\ C!Granted(n) \in PairType /\ n # 0
         /\ C!Granted(n).access = na + 1 /\ C!Granted(n).refresh = nf + 1
    BY <1>1, <1>7, <2>6 DEF PairType
  <2> QED BY <1>4, <1>5, <2>4, <2>10, <2>11, <2>13, <2>14, <2>15, <2>16, <2>17 DEF na, nf
<1>8. CASE ~(n # 0 /\ refresh[n].live)
  <2> DEFINE u == refresh[n].user
             closed == [i \in DOMAIN refresh |->
                          IF refresh[i].user = u THEN [refresh[i] EXCEPT !.live = FALSE] ELSE refresh[i]]
             T == RefreshType
  <2>1. /\ access' = access
        /\ refresh' = refresh \/ refresh' = closed
        /\ again' = again \/ (n # 0 /\ refresh[n].rotated /\ again' = again \cup {n})
    BY <1>8 DEF C!Refresh
  <2>2. C!Granted(n) = C!NoTokens
    BY <1>8 DEF C!Granted
  <2>3. ASSUME NEW i \in DOMAIN refresh
        PROVE  closed[i] \in T /\ closed[i].user = refresh[i].user /\ closed[i].rotated = refresh[i].rotated
    <3>1. refresh[i] \in RefreshType
      BY <1>1, <1>2
    <3>2. [refresh[i] EXCEPT !.live = FALSE] \in RefreshType
      BY <3>1 DEF RefreshType
    <3> HIDE DEF u
    <3> QED BY <3>1, <3>2 DEF RefreshType
  <2>4. closed \in [DOMAIN refresh -> T] /\ refresh \in Seq(T)
    <3> HIDE DEF T, u
    <3>1. \A i \in DOMAIN refresh : closed[i] \in T
      BY <2>3
    <3> QED BY <1>1, <3>1 DEF T
  <2> HIDE DEF closed, T
  <2>5. closed \in Seq(T) /\ Len(closed) = nf
    BY <2>4, Remapped
  <2>6. /\ refresh' \in Seq(T) /\ Len(refresh') = nf
        /\ \A i \in 1 .. nf : /\ refresh'[i].user = refresh[i].user
                              /\ refresh'[i].rotated = refresh[i].rotated
    BY <1>2, <2>1, <2>3, <2>4, <2>5
  <2>7. Grows /\ Len(refresh') <= Len(access')
    BY <1>1, <2>1, <2>6 DEF Grows, T
  <2>8. n # 0 => n \in 1 .. nf
    BY <1>1
  <2>9. again' \subseteq 1 .. Len(refresh')
    <3>1. ASSUME NEW m \in again'
          PROVE  m \in again \/ (m = n /\ n # 0)
      BY <2>1, <3>1
    <3>2. ASSUME NEW m \in again'
          PROVE  m \in 1 .. nf
      BY <1>1, <2>8, <3>1
    <3> QED BY <2>6, <3>2
  <2>10. \A i \in 1 .. Len(refresh') : refresh'[i].rotated => \E w \in uses' : w.token = i
    BY <1>4, <1>6, <2>6
  <2>11. C!AgainExplained'
    <3> SUFFICES ASSUME NEW m \in again'
                 PROVE  \E v, w \in uses' : /\ v.token = m /\ w.token = m
                                            /\ v.tab # w.tab \/ v.kind = "switch"
      BY DEF C!AgainExplained
    <3>1. CASE m \in again
      BY <1>4, <1>6, <3>1 DEF C!AgainExplained
    <3>2. CASE m = n /\ n # 0 /\ refresh[n].rotated
      <4>1. PICK w \in uses : w.token = n
        BY <1>6, <2>8, <3>2
      <4>2. w \in UseType /\ w \in uses'
        BY <1>1, <1>4
      <4>3. CASE kind = "switch"
        BY <1>3, <1>5, <3>2, <4>3
      <4>4. CASE w.kind = "switch"
        BY <3>2, <4>1, <4>2, <4>4
      <4>5. CASE kind = "refresh" /\ w.kind = "refresh"
        BY <1>3, <1>5, <3>2, <4>1, <4>2, <4>5 DEF FirstUse
      <4> QED BY <4>2, <4>3, <4>4, <4>5 DEF UseType
    <3> QED BY <2>1, <3>1, <3>2
  <2> QED BY <1>4, <1>5, <2>2, <2>7, <2>9, <2>10, <2>11, NoTokensType
<1> QED BY <1>7, <1>8

(* What is held of the browser once the server has served a refresh.       *)
LEMMA ServedKeeps ==
  ASSUME BrowserInv, Grows, Len(refresh') <= Len(access'),
         NEW n \in Nat, n <= Len(refresh), NEW tab \in Tabs, NEW kind \in {"refresh", "switch"},
         uses' = uses \cup {[token |-> n, tab |-> tab, kind |-> kind]},
         uses' \subseteq UseType, again' \subseteq 1 .. Len(refresh'),
         UNCHANGED <<scene, store, mixed, out>>,
         req' \in [Reqs -> ReqType], flight' \in [Tabs -> FlightType],
         \A r \in Reqs : /\ req'[r].access = req[r].access /\ req'[r].body = req[r].body
                         /\ req'[r].pc = "idle" => req[r].pc = "idle",
         \A t \in Tabs : flight'[t].body = flight[t].body
  PROVE  /\ BrowserTypes' /\ TokensHeld' /\ C!SameUser'
<1>1. /\ BrowserTypes /\ TokensHeld /\ PairsHeld /\ Len(refresh) \in Nat
  BY Lengths DEF BrowserInv
<1>2. BrowserTypes'
  BY <1>1 DEF BrowserTypes, Grows
<1>3. Len(refresh') \in Nat /\ Len(refresh) <= Len(refresh')
  BY LenProperties DEF Grows
<1>4. ASSUME NEW w \in uses'
      PROVE  w.token <= Len(refresh')
  <2>1. CASE w \in uses
    <3>1. w.token \in Nat /\ w.token <= Len(refresh)
      BY <1>1, <2>1 DEF BrowserTypes, UseType, TokensHeld
    <3> QED BY <1>1, <1>3, <3>1
  <2>2. CASE w.token = n
    BY <1>1, <1>3, <2>2
  <2> QED BY <2>1, <2>2
<1>5. TokensHeld'
  <2>1. store'.access <= Len(access') /\ store'.refresh <= Len(refresh')
    BY <1>1, HeldBounds
  <2>2. ASSUME NEW r \in Reqs
        PROVE  /\ req'[r].access <= Len(access') /\ req'[r].body <= Len(refresh')
               /\ req'[r].pc = "idle" => req'[r].body = 0
    BY <1>1, HeldBounds
  <2>3. ASSUME NEW t \in Tabs
        PROVE  flight'[t].body <= Len(refresh')
    BY <1>1, HeldBounds
  <2> QED BY <1>4, <2>1, <2>2, <2>3 DEF TokensHeld
<1>6. C!SameUser'
  BY <1>1, SameUserStays
<1> QED BY <1>2, <1>5, <1>6

(* The server rotates the refresh token that a switch sent.                *)
LEMMA SwitchServerStep ==
  ASSUME C!ConsoleAssumption, BrowserInv, NEW r \in Reqs, C!SwitchServer(r)
  PROVE  BrowserInv'
<1> DEFINE n == req[r].body
           tab == TabOfRequest[r]
           use == [token |-> n, tab |-> tab, kind |-> "switch"]
           g == C!Granted(n)
           k == [req[r] EXCEPT !.pc = "answered", !.got = g]
<1>1. /\ BrowserTypes /\ TokensHeld /\ WaitsHeld /\ PairsHeld /\ FreshHeld /\ UsesHeld /\ OutHeld
      /\ Len(access) \in Nat /\ Len(refresh) \in Nat
      /\ req \in [Reqs -> ReqType] /\ flight \in [Tabs -> FlightType] /\ uses \subseteq UseType
  BY Lengths DEF BrowserInv, BrowserTypes
<1>2. /\ req[r].pc = "sent" /\ req[r].kind = "switch"
      /\ C!Refresh(n, [token |-> 0, tab |-> tab, kind |-> "switch"])
      /\ req' = [req EXCEPT ![r].pc = "answered", ![r].got = g]
      /\ UNCHANGED <<scene, store, flight, mixed, out>>
  BY DEF C!SwitchServer
<1>3. tab \in Tabs /\ req[r] \in ReqType
  BY <1>1, TabOfType
<1>4. n \in Nat /\ n <= Len(refresh)
  BY <1>1, <1>3 DEF ReqType, TokensHeld
<1>5. req' = [req EXCEPT ![r] = k]
  BY <1>1, <1>2
<1> HIDE DEF g, k, n, tab
<1>6. /\ Grows /\ Len(refresh') <= Len(access') /\ uses' = uses \cup {use}
      /\ uses' \subseteq UseType /\ again' \subseteq 1 .. Len(refresh')
      /\ \A i \in 1 .. Len(refresh') : refresh'[i].rotated => \E w \in uses' : w.token = i
      /\ C!AgainExplained'
      /\ g \in PairType
      /\ g # C!NoTokens => /\ n # 0
                           /\ g.access = Len(access) + 1 /\ Len(access') = Len(access) + 1
                           /\ access'[Len(access) + 1].user = refresh[n].user
  BY <1>2, <1>3, <1>4, RefreshServed DEF g
<1>7. /\ k \in ReqType /\ k.pc = "answered" /\ k.got = g /\ k.kind = "switch" /\ k.body = n
      /\ k.access = req[r].access
  BY <1>2, <1>3, <1>6 DEF ReqType, k, n
<1>8. /\ req' \in [Reqs -> ReqType] /\ req'[r] = k /\ \A q \in Reqs \ {r} : req'[q] = req[q]
  BY <1>1, <1>5, <1>7
<1>9. \A q \in Reqs : /\ req'[q].access = req[q].access /\ req'[q].body = req[q].body
                      /\ req'[q].pc = "idle" => req[q].pc = "idle"
  BY <1>7, <1>8 DEF n
<1>10. BrowserTypes' /\ TokensHeld' /\ C!SameUser'
  BY <1>1, <1>2, <1>3, <1>4, <1>6, <1>8, <1>9, ServedKeeps
<1>11. WaitsHeld'
  BY <1>1, <1>2, <1>7, <1>8 DEF WaitsHeld
<1>12. PairsHeld'
  <2>1. ASSUME NEW t \in Tabs, flight[t].got # C!NoTokens
        PROVE  /\ flight[t].pc = "answered"
               /\ flight[t].got.access \in 1 .. Len(access')
               /\ flight[t].got.refresh \in 1 .. Len(refresh')
               /\ access'[flight[t].got.access].user = refresh'[flight[t].got.refresh].user
    <3> DEFINE x == flight[t].got.access
               y == flight[t].got.refresh
    <3>1. /\ flight[t].pc = "answered" /\ x \in 1 .. Len(access) /\ y \in 1 .. Len(refresh)
          /\ access[x].user = refresh[y].user
      BY <1>1, <2>1 DEF PairsHeld
    <3>2. Len(access') \in Nat /\ Len(refresh') \in Nat
      BY <1>6, LenProperties DEF Grows
    <3> HIDE DEF x, y
    <3>3. x \in 1 .. Len(access') /\ y \in 1 .. Len(refresh') /\ access'[x].user = refresh'[y].user
      BY <1>1, <1>6, <3>1, <3>2 DEF Grows
    <3> QED BY <3>1, <3>3 DEF x, y
  <2>2. ASSUME NEW q \in Reqs, req'[q].got # C!NoTokens
        PROVE  /\ req'[q].pc = "answered" /\ req'[q].kind = "switch"
               /\ req'[q].got.access \in 1 .. Len(access') /\ req'[q].body \in 1 .. Len(refresh')
               /\ access'[req'[q].got.access].user = refresh'[req'[q].body].user
    <3>1. Len(access') \in Nat /\ Len(refresh') \in Nat
      BY <1>6, LenProperties DEF Grows
    <3>2. CASE q = r
      <4>1. g # C!NoTokens
        BY <1>7, <1>8, <2>2, <3>2
      <4>2. n \in 1 .. Len(refresh)
        BY <1>1, <1>4, <1>6, <4>1
      <4>3. g.access \in 1 .. Len(access') /\ n \in 1 .. Len(refresh')
            /\ access'[g.access].user = refresh'[n].user
        BY <1>1, <1>6, <3>1, <4>1, <4>2 DEF Grows
      <4> QED BY <1>7, <1>8, <3>2, <4>3
    <3>3. CASE q # r
      <4> DEFINE x == req[q].got.access
                 y == req[q].body
      <4>1. req'[q] = req[q]
        BY <1>8, <3>3
      <4>2. /\ req[q].pc = "answered" /\ req[q].kind = "switch"
            /\ x \in 1 .. Len(access) /\ y \in 1 .. Len(refresh) /\ access[x].user = refresh[y].user
        BY <1>1, <2>2, <4>1 DEF PairsHeld
      <4> HIDE DEF x, y
      <4>3. x \in 1 .. Len(access') /\ y \in 1 .. Len(refresh') /\ access'[x].user = refresh'[y].user
        BY <1>1, <1>6, <3>1, <4>2 DEF Grows
      <4> QED BY <4>1, <4>2, <4>3 DEF x, y
    <3> QED BY <3>2, <3>3
  <2> QED BY <1>2, <1>10, <2>1, <2>2 DEF PairsHeld
<1>13. FreshHeld'
  <2> SUFFICES ASSUME NEW s \in Tabs, flight[s].got # C!NoTokens
               PROVE  /\ store.refresh # flight[s].got.refresh
                      /\ \A p \in Tabs : /\ flight[p].body # flight[s].got.refresh
                                         /\ p # s => flight[p].got.refresh # flight[s].got.refresh
                      /\ \A q \in Reqs : req'[q].body # flight[s].got.refresh
                      /\ \A w \in uses' : w.token # flight[s].got.refresh
    BY <1>2 DEF FreshHeld
  <2>1. /\ store.refresh # flight[s].got.refresh
        /\ \A p \in Tabs : /\ flight[p].body # flight[s].got.refresh
                           /\ p # s => flight[p].got.refresh # flight[s].got.refresh
        /\ \A q \in Reqs : req[q].body # flight[s].got.refresh
        /\ \A w \in uses : w.token # flight[s].got.refresh
    BY <1>1 DEF FreshHeld
  <2>2. n # flight[s].got.refresh
    BY <2>1 DEF n
  <2> QED BY <1>6, <1>9, <2>1, <2>2
<1>14. UsesHeld'
  <2>1. ASSUME NEW w \in uses', w.kind = "refresh", w.token # 0
        PROVE  /\ flight[w.tab].pc = "sent" => flight[w.tab].body # w.token
               /\ store.refresh = w.token => flight[w.tab].pc = "answered" /\ flight[w.tab].body = w.token
    <3>1. w \in uses
      BY <1>6, <2>1
    <3> QED BY <1>1, <2>1, <3>1 DEF UsesHeld
  <2> QED BY <1>2, <1>6, <2>1 DEF UsesHeld
<1>15. OutHeld'
  <2> SUFFICES ASSUME out
               PROVE  \A q \in Reqs : req'[q].kind = "switch" => req'[q].body = 0
    BY <1>1, <1>2 DEF OutHeld
  <2>1. ASSUME NEW q \in Reqs, req'[q].kind = "switch"
        PROVE  req'[q].body = 0
    <3>1. req[q].kind = "switch"
      BY <1>2, <1>8, <2>1
    <3> QED BY <1>1, <1>9, <3>1 DEF OutHeld
  <2> QED BY <2>1
<1> QED BY <1>10, <1>11, <1>12, <1>13, <1>14, <1>15 DEF BrowserInv

(* The refresh of a tab: the pair it is granted is new.                    *)
LEMMA FlightServerStep ==
  ASSUME C!ConsoleAssumption, BrowserInv, NEW t \in Tabs, C!FlightServer(t)
  PROVE  BrowserInv'
<1> DEFINE n == flight[t].body
           use == [token |-> n, tab |-> t, kind |-> "refresh"]
           g == C!Granted(n)
           k == [flight[t] EXCEPT !.pc = "answered", !.got = g]
<1>1. /\ BrowserTypes /\ TokensHeld /\ WaitsHeld /\ PairsHeld /\ FreshHeld /\ UsesHeld /\ OutHeld
      /\ Len(access) \in Nat /\ Len(refresh) \in Nat
      /\ req \in [Reqs -> ReqType] /\ flight \in [Tabs -> FlightType] /\ uses \subseteq UseType
      /\ store \in PairType
  BY Lengths DEF BrowserInv, BrowserTypes
<1>2. /\ flight[t].pc = "sent"
      /\ C!Refresh(n, [token |-> 0, tab |-> t, kind |-> "refresh"])
      /\ flight' = [flight EXCEPT ![t].pc = "answered", ![t].got = g]
      /\ UNCHANGED <<scene, store, req, mixed, out>>
  BY DEF C!FlightServer
<1>3. flight[t] \in FlightType
  BY <1>1
<1>4. n \in Nat /\ n <= Len(refresh)
  BY <1>1, <1>3 DEF FlightType, TokensHeld
<1>5. flight' = [flight EXCEPT ![t] = k]
  BY <1>1, <1>2
<1>6. FirstUse(n, t)
  BY <1>1, <1>2 DEF UsesHeld, FirstUse
<1> HIDE DEF g, k, n
<1>7. /\ Grows /\ Len(refresh') <= Len(access') /\ uses' = uses \cup {use}
      /\ uses' \subseteq UseType /\ again' \subseteq 1 .. Len(refresh')
      /\ \A i \in 1 .. Len(refresh') : refresh'[i].rotated => \E w \in uses' : w.token = i
      /\ C!AgainExplained'
      /\ g \in PairType
      /\ g # C!NoTokens => /\ g.access = Len(access) + 1 /\ Len(access') = Len(access) + 1
                           /\ g.refresh = Len(refresh) + 1 /\ Len(refresh') = Len(refresh) + 1
                           /\ access'[Len(access) + 1].user = refresh[n].user
                           /\ refresh'[Len(refresh) + 1].user = refresh[n].user
  <2>1. C!Refresh(n, [token |-> 0, tab |-> t, kind |-> "refresh"])
    BY <1>2
  <2> QED BY <1>4, <1>6, <2>1, RefreshServed DEF g
<1>8. /\ k \in FlightType /\ k.pc = "answered" /\ k.got = g /\ k.body = n
  BY <1>2, <1>3, <1>7 DEF FlightType, k, n
<1>9. /\ flight' \in [Tabs -> FlightType] /\ flight'[t] = k
      /\ \A s \in Tabs \ {t} : flight'[s] = flight[s]
  BY <1>1, <1>5, <1>8
<1>10. \A s \in Tabs : flight'[s].body = flight[s].body
  BY <1>8, <1>9 DEF n
<1>11. BrowserTypes' /\ TokensHeld' /\ C!SameUser'
  BY <1>1, <1>2, <1>4, <1>7, <1>9, <1>10, ServedKeeps
<1>12. WaitsHeld'
  <2> SUFFICES ASSUME NEW q \in Reqs, req[q].pc = "waiting"
               PROVE  flight'[TabOfRequest[q]].pc # "none"
    BY <1>2 DEF WaitsHeld
  <2>1. TabOfRequest[q] \in Tabs
    BY TabOfType
  <2> QED BY <1>1, <1>8, <1>9, <2>1 DEF WaitsHeld
<1>13. PairsHeld'
  <2>1. Len(access') \in Nat /\ Len(refresh') \in Nat
    BY <1>7, LenProperties DEF Grows
  <2>2. ASSUME NEW s \in Tabs, flight'[s].got # C!NoTokens
        PROVE  /\ flight'[s].pc = "answered"
               /\ flight'[s].got.access \in 1 .. Len(access')
               /\ flight'[s].got.refresh \in 1 .. Len(refresh')
               /\ access'[flight'[s].got.access].user = refresh'[flight'[s].got.refresh].user
    <3>1. CASE s = t
      <4>1. g # C!NoTokens
        BY <1>8, <1>9, <2>2, <3>1
      <4>2. /\ g.access \in 1 .. Len(access') /\ g.refresh \in 1 .. Len(refresh')
            /\ access'[g.access].user = refresh'[g.refresh].user
        BY <1>1, <1>7, <4>1
      <4> QED BY <1>8, <1>9, <3>1, <4>2
    <3>2. CASE s # t
      <4> DEFINE x == flight[s].got.access
                 y == flight[s].got.refresh
      <4>1. flight'[s] = flight[s]
        BY <1>9, <3>2
      <4>2. /\ flight[s].pc = "answered" /\ x \in 1 .. Len(access) /\ y \in 1 .. Len(refresh)
            /\ access[x].user = refresh[y].user
        BY <1>1, <2>2, <4>1 DEF PairsHeld
      <4> HIDE DEF x, y
      <4>3. x \in 1 .. Len(access') /\ y \in 1 .. Len(refresh') /\ access'[x].user = refresh'[y].user
        BY <1>1, <1>7, <2>1, <4>2 DEF Grows
      <4> QED BY <4>1, <4>2, <4>3 DEF x, y
    <3> QED BY <3>1, <3>2
  <2>3. ASSUME NEW q \in Reqs, req[q].got # C!NoTokens
        PROVE  /\ req[q].pc = "answered" /\ req[q].kind = "switch"
               /\ req[q].got.access \in 1 .. Len(access') /\ req[q].body \in 1 .. Len(refresh')
               /\ access'[req[q].got.access].user = refresh'[req[q].body].user
    <3> DEFINE x == req[q].got.access
               y == req[q].body
    <3>1. /\ req[q].pc = "answered" /\ req[q].kind = "switch"
          /\ x \in 1 .. Len(access) /\ y \in 1 .. Len(refresh) /\ access[x].user = refresh[y].user
      BY <1>1, <2>3 DEF PairsHeld
    <3> HIDE DEF x, y
    <3>2. x \in 1 .. Len(access') /\ y \in 1 .. Len(refresh') /\ access'[x].user = refresh'[y].user
      BY <1>1, <1>7, <2>1, <3>1 DEF Grows
    <3> QED BY <3>1, <3>2 DEF x, y
  <2> QED BY <1>2, <1>11, <2>2, <2>3 DEF PairsHeld
<1>14. FreshHeld'
  <2> SUFFICES ASSUME NEW s \in Tabs, flight'[s].got # C!NoTokens
               PROVE  /\ store'.refresh # flight'[s].got.refresh
                      /\ \A p \in Tabs : /\ flight'[p].body # flight'[s].got.refresh
                                         /\ p # s => flight'[p].got.refresh # flight'[s].got.refresh
                      /\ \A q \in Reqs : req'[q].body # flight'[s].got.refresh
                      /\ \A w \in uses' : w.token # flight'[s].got.refresh
    BY DEF FreshHeld
  <2>1. CASE s = t
    <3>1. g # C!NoTokens /\ flight'[s].got = g
      BY <1>8, <1>9, <2>1
    <3>2. g.refresh = Len(refresh) + 1
      BY <1>7, <3>1
    <3>3. store.refresh # g.refresh
      BY <1>1, <3>2 DEF TokensHeld, PairType
    <3>4. ASSUME NEW p \in Tabs
          PROVE  flight[p].body # g.refresh /\ (p # t => flight'[p].got.refresh # g.refresh)
      <4>1. flight[p] \in FlightType /\ flight[p].body <= Len(refresh)
        BY <1>1 DEF TokensHeld
      <4>2. flight[p].body \in Nat /\ flight[p].got \in PairType
        BY <4>1 DEF FlightType
      <4>3. flight[p].got.refresh \in 0 .. Len(refresh)
        BY <1>1, <4>2, NoTokensType DEF PairsHeld
      <4> QED BY <1>1, <1>9, <3>2, <4>1, <4>2, <4>3
    <3>5. ASSUME NEW q \in Reqs
          PROVE  req[q].body # g.refresh
      <4>1. req[q] \in ReqType /\ req[q].body <= Len(refresh)
        BY <1>1 DEF TokensHeld
      <4> QED BY <1>1, <3>2, <4>1 DEF ReqType
    <3>6. ASSUME NEW w \in uses'
          PROVE  w.token # g.refresh
      <4>1. CASE w \in uses
        <5>1. w \in UseType /\ w.token <= Len(refresh)
          BY <1>1, <4>1 DEF TokensHeld
        <5> QED BY <1>1, <3>2, <5>1 DEF UseType
      <4>2. CASE w.token = n
        BY <1>1, <1>4, <3>2, <4>2
      <4> QED BY <1>7, <4>1, <4>2
    <3> QED BY <1>2, <1>10, <2>1, <3>1, <3>3, <3>4, <3>5, <3>6
  <2>2. CASE s # t
    <3> DEFINE m == flight[s].got.refresh
    <3>1. flight'[s] = flight[s] /\ flight[s].got # C!NoTokens
      BY <1>9, <2>2
    <3>2. /\ store.refresh # m
          /\ \A p \in Tabs : flight[p].body # m /\ (p # s => flight[p].got.refresh # m)
          /\ \A q \in Reqs : req[q].body # m
          /\ \A w \in uses : w.token # m
      BY <1>1, <3>1 DEF FreshHeld
    <3>3. m \in 1 .. Len(refresh)
      BY <1>1, <3>1 DEF PairsHeld
    <3>4. n # m
      BY <3>2 DEF n
    <3>5. flight'[s].got.refresh = m
      BY <3>1
    <3> HIDE DEF m
    <3>6. ASSUME NEW p \in Tabs, p # s
          PROVE  flight'[p].got.refresh # m
      <4>1. CASE p = t
        BY <1>1, <1>7, <1>8, <1>9, <3>3, <4>1, NoTokensType
      <4>2. CASE p # t
        BY <1>9, <3>2, <3>6, <4>2
      <4> QED BY <4>1, <4>2
    <3>7. \A w \in uses' : w.token # m
      BY <1>7, <3>2, <3>4
    <3> QED BY <1>2, <1>10, <3>2, <3>5, <3>6, <3>7
  <2> QED BY <2>1, <2>2
<1>15. UsesHeld'
  <2>1. ASSUME NEW w \in uses', w.kind = "refresh", w.token # 0
        PROVE  /\ flight'[w.tab].pc = "sent" => flight'[w.tab].body # w.token
               /\ store.refresh = w.token => flight'[w.tab].pc = "answered" /\ flight'[w.tab].body = w.token
    <3>1. w.tab \in Tabs
      BY <1>7 DEF UseType
    <3>2. CASE w \in uses
      <4>1. /\ flight[w.tab].pc = "sent" => flight[w.tab].body # w.token
            /\ store.refresh = w.token => flight[w.tab].pc = "answered" /\ flight[w.tab].body = w.token
        BY <1>1, <2>1, <3>2 DEF UsesHeld
      <4> QED BY <1>2, <1>8, <1>9, <3>1, <4>1
    <3>3. CASE w = use
      BY <1>8, <1>9, <3>3
    <3> QED BY <1>7, <3>2, <3>3
  <2> QED BY <1>2, <1>7, <2>1 DEF UsesHeld
<1>16. OutHeld'
  BY <1>1, <1>2 DEF OutHeld
<1> QED BY <1>11, <1>12, <1>13, <1>14, <1>15, <1>16 DEF BrowserInv

-----------------------------------------------------------------------------
(* It holds at the beginning, when the browser has no token.               *)
LEMMA BrowserInit ==
  ASSUME C!Init
  PROVE  BrowserInv
<1>1. /\ scene \in ConsoleScenes /\ store = C!NoTokens /\ access = <<>> /\ refresh = <<>>
      /\ req = [r \in Reqs |-> C!IdleReq] /\ flight = [t \in Tabs |-> C!NoFlight]
      /\ uses = {} /\ again = {} /\ mixed = FALSE /\ out = FALSE
  BY DEF C!Init
<1>2. Len(access) = 0 /\ Len(refresh) = 0 /\ access \in Seq(AccessType) /\ refresh \in Seq(RefreshType)
  BY <1>1
<1>3. BrowserTypes
  <2>1. req \in [Reqs -> ReqType] /\ flight \in [Tabs -> FlightType] /\ store \in PairType
    BY <1>1, NoTokensType, IdleReqType, NoFlightType
  <2>2. mixed \in BOOLEAN /\ out \in BOOLEAN /\ uses \subseteq UseType /\ again \subseteq 1 .. Len(refresh)
    BY <1>1
  <2> QED BY <1>1, <1>2, <2>1, <2>2 DEF BrowserTypes
<1>4. TokensHeld
  BY <1>1, <1>2, NoTokensType, IdleReqType, NoFlightType DEF TokensHeld
<1>5. WaitsHeld
  BY <1>1, IdleReqType DEF WaitsHeld
<1>6. PairsHeld
  BY <1>1, NoTokensType, IdleReqType, NoFlightType DEF PairsHeld, C!SameUser
<1>7. FreshHeld
  BY <1>1, NoFlightType DEF FreshHeld
<1>8. UsesHeld
  BY <1>1, <1>2 DEF UsesHeld, C!AgainExplained
<1>9. OutHeld
  BY <1>1 DEF OutHeld
<1> QED BY <1>3, <1>4, <1>5, <1>6, <1>7, <1>8, <1>9 DEF BrowserInv

(* No step of the console or of the server breaks it.                      *)
LEMMA BrowserStep ==
  ASSUME C!ConsoleAssumption, BrowserInv, C!Next
  PROVE  BrowserInv'
<1>1. scene.users \subseteq {u1, u2}
  BY DEF C!ConsoleAssumption, BrowserInv, BrowserTypes
<1>2. ASSUME NEW t \in Tabs, NEW u \in scene.users, C!SignIn(t, u) \/ C!SsoCallback(t, u)
      PROVE  BrowserInv'
  BY <1>1, <1>2, SignInStep, SsoCallbackStep
<1>3. ASSUME NEW t \in Tabs, C!FlightServer(t) \/ C!FlightArrives(t) \/ C!FlightFails(t)
      PROVE  BrowserInv'
  BY <1>3, FlightServerStep, FlightArrivesStep, FlightFailsStep
<1>4. ASSUME NEW r \in Reqs, NEW k \in scene.kinds, C!Send(r, k)
      PROVE  BrowserInv'
  BY <1>4, SendStep
<1>5. ASSUME NEW r \in Reqs, C!AnswerOk(r) \/ C!Answer401(r) \/ C!AnswerFails(r)
      PROVE  BrowserInv'
  BY <1>5, AnswerOkStep, Answer401Step, AnswerFailsStep
<1>6. ASSUME NEW r \in Reqs, C!SwitchServer(r) \/ C!SwitchArrives(r)
      PROVE  BrowserInv'
  BY <1>6, SwitchServerStep, SwitchArrivesStep
<1>7. ASSUME NEW i \in DOMAIN access, C!Expire(i)
      PROVE  BrowserInv'
  BY <1>7, ExpireStep
<1> QED BY <1>2, <1>3, <1>4, <1>5, <1>6, <1>7 DEF C!Next

(* The type invariant follows.                                             *)
LEMMA BrowserTyped ==
  ASSUME C!ConsoleAssumption, BrowserInv
  PROVE  C!TypeOK
<1>1. /\ Len(access) \in Nat /\ Len(refresh) \in Nat /\ Len(refresh) <= Len(access)
      /\ DOMAIN refresh = 1 .. Len(refresh)
  BY Lengths, LenProperties DEF BrowserInv, BrowserTypes
<1>2. store.access \in 0 .. Len(access) /\ store.refresh \in 0 .. Len(refresh)
  BY <1>1 DEF BrowserInv, BrowserTypes, TokensHeld, PairType
<1>3. ASSUME NEW r \in Reqs
      PROVE  /\ req[r].pc \in {"idle", "sent", "waiting", "answered"}
             /\ req[r].pc = "waiting" => flight[TabOfRequest[r]].pc # "none"
  <2>1. req[r] \in ReqType
    BY DEF BrowserInv, BrowserTypes
  <2> QED BY <2>1 DEF BrowserInv, WaitsHeld, ReqType
<1> QED BY <1>1, <1>2, <1>3 DEF C!TypeOK, BrowserInv, BrowserTypes

-----------------------------------------------------------------------------
(* The three invariants of every behaviour.                                *)
LEMMA SessionsInvHolds == Spec => [](part = "sessions" => SessionsInv)
<1> DEFINE Inv == part = "sessions" => SessionsInv
<1>1. S!SessionsAssumption
  BY SignInAssumption
<1>2. Init => Inv
  BY <1>1, SessionsInit DEF Init
<1>3. Inv /\ [Next]_vars => Inv'
  <2> SUFFICES ASSUME Inv, [Next]_vars, part' = "sessions" PROVE SessionsInv'
    OBVIOUS
  <2>1. CASE part = "sessions" /\ S!Next
    BY <1>1, <2>1, SessionsStep
  <2>2. CASE UNCHANGED vars
    <3>1. part = "sessions" /\ UNCHANGED <<mix, user, session, reset, code, state, uris, call, since>>
      BY <2>2 DEF vars, sessionsVars
    <3> QED BY <3>1
         DEF SessionsInv, S!TypeOK, RowsHeld, RoomHeld, Opening, S!OneUse, S!SpentFor, KeptOut,
             S!RevocationHolds, S!Earned, LinksHeld, S!OneLinkUnlessOverlap, PasswordsHeld, UrisHeld
  <2> QED BY <2>1, <2>2 DEF Next
<1> HIDE DEF Inv
<1>4. Spec => []Inv
  BY <1>2, <1>3, PTL DEF Spec
<1> QED BY <1>4 DEF Inv

(* The invariant of the connections and logins.                            *)
LEMMA ProvidersInvHolds == Spec => [](part = "providers" => ProvidersInv)
<1> DEFINE Inv == part = "providers" => ProvidersInv
<1>1. P!SsoAssumption
  BY SignInAssumption
<1>2. Init => Inv
  BY <1>1, ProvidersInit DEF Init
<1>3. Inv /\ [Next]_vars => Inv'
  <2> SUFFICES ASSUME Inv, [Next]_vars, part' = "providers" PROVE ProvidersInv'
    OBVIOUS
  <2>1. CASE part = "providers" /\ P!Next
    BY <1>1, <2>1, ProvidersStep
  <2>2. CASE UNCHANGED vars
    <3>1. part = "providers" /\ UNCHANGED <<conn, bundle, request, paired, sent, logins, refused, changes>>
      BY <2>2 DEF vars, providersVars
    <3> QED BY <3>1
         DEF ProvidersInv, RowsPaired, CreationsHeld, RequestsHeld, P!Rows, P!SlugTaken,
             P!SecretsExplained, P!SentWhereBegun, P!RefusedByOverlap
  <2> QED BY <2>1, <2>2 DEF Next
<1> HIDE DEF Inv
<1>4. Spec => []Inv
  BY <1>2, <1>3, PTL DEF Spec
<1> QED BY <1>4 DEF Inv

(* The invariant of the console.                                           *)
LEMMA BrowserInvHolds == Spec => [](part = "console" => BrowserInv)
<1> DEFINE Inv == part = "console" => BrowserInv
<1>1. C!ConsoleAssumption
  BY SignInAssumption
<1>2. Init => Inv
  BY BrowserInit DEF Init
<1>3. Inv /\ [Next]_vars => Inv'
  <2> SUFFICES ASSUME Inv, [Next]_vars, part' = "console" PROVE BrowserInv'
    OBVIOUS
  <2>1. CASE part = "console" /\ C!Next
    BY <1>1, <2>1, BrowserStep
  <2>2. CASE UNCHANGED vars
    <3>1. /\ part = "console"
          /\ UNCHANGED <<scene, store, access, refresh, req, flight, uses, again, mixed, out>>
      BY <2>2 DEF vars, consoleVars
    <3> QED BY <3>1
         DEF BrowserInv, BrowserTypes, TokensHeld, WaitsHeld, PairsHeld, C!SameUser, FreshHeld,
             UsesHeld, C!AgainExplained, OutHeld
  <2> QED BY <2>1, <2>2 DEF Next
<1> HIDE DEF Inv
<1>4. Spec => []Inv
  BY <1>2, <1>3, PTL DEF Spec
<1> QED BY <1>4 DEF Inv

-----------------------------------------------------------------------------
(* Credentials are spent once, a revocation keeps the user out, and a user *)
(* has one reset link, but for the calls that overlap (auth.py, oauth.py). *)
THEOREM SessionsStay == Spec => []SessionsHold
<1>1. (part = "sessions" => SessionsInv) => SessionsHold
  BY DEF SessionsInv, KeptOut, LinksHeld, SessionsHold
<1> QED BY <1>1, SessionsInvHolds, PTL

(* The secret and the code of a login go where the definitions say, and no *)
(* connection is refused for its slug but by an overlap (sso.py,           *)
(* sso_connections.py).                                                    *)
THEOREM ProvidersStay == Spec => []ProvidersHold
<1>1. (part = "providers" => ProvidersInv) => ProvidersHold
  BY ProvidersTypes, DoorsAgree DEF ProvidersInv, ProvidersHold
<1> QED BY <1>1, ProvidersInvHolds, PTL

(* A rotated refresh token is presented again, the user behind the stored  *)
(* tokens changes, and a token is stored after a logout only as the        *)
(* definitions say (api.ts, auth.ts, SsoCallback.tsx).                     *)
THEOREM BrowserStays == Spec => []BrowserHolds
<1>1. C!ConsoleAssumption
  BY SignInAssumption
<1>2. (part = "console" => BrowserInv) => BrowserHolds
  <2> SUFFICES ASSUME BrowserInv
               PROVE  C!TypeOK /\ C!AgainExplained /\ C!SameUser /\ C!LogoutStands
    BY DEF BrowserHolds
  <2>1. C!TypeOK
    BY <1>1, BrowserTyped
  <2>2. C!LogoutStands
    BY DEF BrowserInv, OutHeld, C!LogoutStands
  <2> QED BY <2>1, <2>2 DEF BrowserInv, PairsHeld, UsesHeld
<1> QED BY <1>2, BrowserInvHolds, PTL

(* A password that was reset comes back, and a redirect URI is lost, only  *)
(* by a call in flight across the change; only PATCH turns a connection on *)
(* or off (auth.py, oauth.py, sso_connections.py:159).                     *)
THEOREM SettingsStay == Spec => SettingsStick
<1> DEFINE Step == /\ part = "sessions" => S!PasswordSticksStep /\ S!RedirectsKeptStep
                   /\ part = "providers" => P!SwitchStandsStep
           InvS == part = "sessions" => SessionsInv
           InvP == part = "providers" => ProvidersInv
<1>1. S!SessionsAssumption /\ P!SsoAssumption
  BY SignInAssumption
<1>2. InvS /\ InvP /\ [Next]_vars => [Step]_vars
  <2> SUFFICES ASSUME InvS, InvP, Next PROVE Step
    OBVIOUS
  <2>1. CASE part = "sessions"
    <3>1. SessionsInv /\ S!Next
      BY <2>1 DEF Next
    <3> QED BY <1>1, <2>1, <3>1, PasswordStep, RedirectsStep
  <2>2. CASE part = "providers"
    <3>1. ProvidersInv /\ P!Next
      BY <2>2 DEF Next
    <3> QED BY <1>1, <2>2, <3>1, SwitchStep
  <2> QED BY <2>1, <2>2
<1>3. Spec => []InvS /\ []InvP
  BY SessionsInvHolds, ProvidersInvHolds, PTL
<1> QED BY <1>2, <1>3, PTL DEF Spec, SettingsStick
=============================================================================
