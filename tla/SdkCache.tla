------------------------------ MODULE SdkCache ------------------------------
(***************************************************************************)
(* The clients of the decision service (sdk/kynara_sdk/client.py,          *)
(* sdk-ts/src/client.ts): a cache in the agent's process in front of the   *)
(* one of the service, three attempts, and what to do when none answers.   *)
(* The service goes on with an attempt that the client has given up.       *)
(* One agent, user, action and resource; the requests differ in their      *)
(* context, which the key of the service's cache and that of the Python    *)
(* client leave out.                                                       *)
(*                                                                         *)
(* Span is how long the service and the network may take with an attempt   *)
(* from the moment that its answer is read.  Nothing in the code bounds it:*)
(* the timeout of httpx is for each operation, the TypeScript client's     *)
(* timer is cleared before the body of the answer is read, and neither     *)
(* stops the service.                                                      *)
(***************************************************************************)
EXTENDS Naturals, FiniteSets

CONSTANTS Calls,              \* those who check, again and again
          Contexts,
          Verdicts,           \* what the policies may say: effects by context
          SdkTTL, ServiceTTL,
          Span,
          Attempts,           \* 3 in both clients
          MaxChanges,         \* bounds the changes of the policies
          Traffic,              \* bounds: who checks, how often one check is
                              \* attempted, how often the policies change
          None

Effects == {"allow", "deny", "require_approval"}

SdkAssumption ==
  /\ Verdicts \subseteq [Contexts -> Effects]
  /\ {SdkTTL, ServiceTTL, Span, Attempts} \subseteq Nat \ {0} /\ MaxChanges \in Nat
  /\ Traffic \subseteq [calls : SUBSET Calls, attempts : 1..Attempts, changes : 0..MaxChanges]

VARIABLES load,       \* one of Traffic
          client,     \* the language, and fail_closed
          policy,     \* the effect in each context
          cache,      \* the service's
          sdk,        \* the client's, by key
          gone,       \* history: for how long no context has had an effect
          call,
          work,       \* what becomes of each attempt
          changes

vars == <<load, client, policy, cache, sdk, gone, call, work, changes>>

Asks == Calls \X (1..Attempts)
ClockLimit == SdkTTL + ServiceTTL + 2 * Span

Entry(ttl) == [effect : Effects \cup {"none"}, left : 0..ttl]
NoEntry == [effect |-> "none", left |-> 0]

(* An attempt: on its way to the service or in its first awaits, with the  *)
(* effect read from the policies or from the cache, and with the answer on *)
(* its way; age is since the effect was read.                              *)
WorkType == [pc : {"none", "asked", "read", "cached", "sent"}, effect : Effects \cup {"none"},
             age : 0..Span]
NoWork == [pc |-> "none", effect |-> "none", age |-> 0]
Underway == [NoWork EXCEPT !.pc = "asked"]

(* made   history: approval requests the service created for this check    *)
(* lost   history: an attempt was given up that the service was still at,  *)
(*        or had answered                                                  *)
(* old    history: for how long no context had had this effect             *)
CallType == [pc : {"new", "asking", "done"}, context : Contexts \cup {None},
             attempt : 0..Attempts,
             answer : Effects \cup {"none", "unavailable"}, answered : BOOLEAN,
             made : Nat, lost : BOOLEAN, old : 0..ClockLimit]
New == [pc |-> "new", context |-> None, attempt |-> 0,
        answer |-> "none", answered |-> FALSE, made |-> 0, lost |-> FALSE, old |-> 0]

Key(context) == IF client.language = "python" THEN None ELSE context

Init ==
  /\ load \in Traffic
  /\ client \in [language : {"python", "typescript"}, fail_closed : BOOLEAN]
  /\ policy \in Verdicts
  /\ cache = NoEntry
  /\ sdk = [k \in Contexts \cup {None} |-> NoEntry]
  /\ gone = [e \in Effects |-> IF \E c \in Contexts : policy[c] = e THEN 0 ELSE ClockLimit]
  /\ call = [c \in Calls |-> New] /\ work = [a \in Asks |-> NoWork] /\ changes = 0

-----------------------------------------------------------------------------
Return(k, answer) ==
  [k EXCEPT !.pc = "done", !.attempt = 0, !.answer = answer, !.answered = TRUE,
            !.old = gone[answer]]

(* The attempt that c waits for.                                           *)
Latest(c) == <<c, call[c].attempt>>

(* check: the cached decision, if there is one.  Nobody checks again while *)
(* the service is at an earlier check of theirs.                           *)
Check(c, context) ==
  LET hit == sdk[Key(context)]
      begun == [New EXCEPT !.context = context] IN
  /\ c \in load.calls
  /\ call[c].pc # "asking" /\ \A i \in 1..Attempts : work[<<c, i>>].pc = "none"
  /\ IF hit.effect # "none"
     THEN call' = [call EXCEPT ![c] = Return(begun, hit.effect)] /\ UNCHANGED work
     ELSE /\ call' = [call EXCEPT ![c] = [begun EXCEPT !.pc = "asking", !.attempt = 1]]
          /\ work' = [work EXCEPT ![<<c, 1>>] = Underway]
  /\ UNCHANGED <<load, client, policy, cache, sdk, gone, changes>>

(* The service, decide: the effect that it has cached is the answer.       *)
Hit(a) ==
  /\ work[a].pc = "asked"
  /\ cache.effect # "none"
  /\ work' = [work EXCEPT ![a] = [pc |-> "cached", effect |-> cache.effect, age |-> 0]]
  /\ UNCHANGED <<load, client, policy, cache, sdk, gone, call, changes>>

(* Without one, when it looks, or without Redis: the policies are read.    *)
Read(a) ==
  /\ work[a].pc = "asked"
  /\ work' = [work EXCEPT ![a] = [pc |-> "read", effect |-> policy[call[a[1]].context], age |-> 0]]
  /\ UNCHANGED <<load, client, policy, cache, sdk, gone, call, changes>>

(* setex, unless the effect is cached already or must be approved, and     *)
(* _emit_decision, which requests the approval whether or not somebody     *)
(* waits for the answer.  setex may fail, and where the commit does, the   *)
(* answer is as good as lost.                                              *)
Finish(a) ==
  LET c == a[1]
      waiting == call[c].pc = "asking" /\ a = Latest(c) IN
  /\ work[a].pc \in {"read", "cached"}
  /\ work' = [work EXCEPT ![a] = IF waiting THEN [@ EXCEPT !.pc = "sent"] ELSE NoWork]
  /\ call' = [call EXCEPT ![c].made = IF work[a].effect = "require_approval" THEN @ + 1 ELSE @]
  /\ \/ /\ work[a].pc = "read" /\ work[a].effect # "require_approval"
        /\ cache' = [effect |-> work[a].effect, left |-> ServiceTTL]
     \/ UNCHANGED cache
  /\ UNCHANGED <<load, client, policy, sdk, gone, changes>>

(* The service fails at an attempt, and nothing more comes of it.          *)
Drop(a) ==
  /\ work[a].pc \in {"asked", "read", "cached"}
  /\ work' = [work EXCEPT ![a] = NoWork]
  /\ UNCHANGED <<load, client, policy, cache, sdk, gone, call, changes>>

(* What a client keeps: Python any decision, TypeScript only an allow.     *)
Kept_Any(effect) == TRUE
Kept(effect) == client.language = "python" \/ effect = "allow"

(* The answer to the latest attempt arrives.                               *)
Arrive(c) ==
  LET effect == work[Latest(c)].effect IN
  /\ call[c].pc = "asking" /\ work[Latest(c)].pc = "sent"
  /\ sdk' = IF Kept(effect)
            THEN [sdk EXCEPT ![Key(call[c].context)] = [effect |-> effect, left |-> SdkTTL]]
            ELSE sdk
  /\ call' = [call EXCEPT ![c] = Return(call[c], effect)]
  /\ work' = [work EXCEPT ![Latest(c)] = NoWork]
  /\ UNCHANGED <<load, client, policy, cache, gone, changes>>

(* After the last attempt: Python raises or, if it may, allows; TypeScript *)
(* denies or, if it may, raises.                                           *)
Unanswered ==
  CASE client.language = "python" -> IF client.fail_closed THEN "unavailable" ELSE "allow"
    [] client.language = "typescript" -> IF client.fail_closed THEN "deny" ELSE "unavailable"

(* An attempt that failed, or is given up while the service is at it or    *)
(* its answer on the way, is made again.                                   *)
Fail(c) ==
  LET a == Latest(c)
      k == [call[c] EXCEPT !.lost = @ \/ work[a].pc # "none"]
      left == [work EXCEPT ![a] = IF @.pc = "sent" THEN NoWork ELSE @] IN
  /\ call[c].pc = "asking"
  /\ IF k.attempt < load.attempts
     THEN /\ call' = [call EXCEPT ![c] = [k EXCEPT !.attempt = @ + 1]]
          /\ work' = [left EXCEPT ![<<c, k.attempt + 1>>] = Underway]
     ELSE /\ call' = [call EXCEPT ![c] = [k EXCEPT !.pc = "done", !.attempt = 0, !.answer = Unanswered]]
          /\ work' = left
  /\ UNCHANGED <<load, client, policy, cache, sdk, gone, changes>>

(* The cache is full, or invalidateCache.                                  *)
Evict(k) ==
  /\ sdk[k].effect # "none"
  /\ sdk' = [sdk EXCEPT ![k] = NoEntry]
  /\ UNCHANGED <<load, client, policy, cache, gone, call, work, changes>>

SetPolicy ==
  /\ changes < load.changes /\ changes' = changes + 1
  /\ policy' \in Verdicts
  /\ gone' = [e \in Effects |-> IF \E c \in Contexts : policy'[c] = e THEN 0 ELSE gone[e]]
  /\ UNCHANGED <<load, client, cache, sdk, call, work>>

(* An entry is used up to the moment it expires.                           *)
Left(e) == IF e.left = 0 THEN NoEntry ELSE [e EXCEPT !.left = @ - 1]

Tick ==
  /\ \A a \in Asks : work[a].pc \in {"read", "cached", "sent"} => work[a].age < Span
  /\ cache' = IF cache.left <= 1 THEN NoEntry ELSE Left(cache)
  /\ sdk' = [k \in DOMAIN sdk |-> Left(sdk[k])]
  /\ gone' = [e \in Effects |-> IF gone[e] = ClockLimit \/ \E c \in Contexts : policy[c] = e
                                THEN gone[e] ELSE gone[e] + 1]
  /\ work' = [a \in Asks |-> IF work[a].pc \in {"read", "cached", "sent"}
                             THEN [work[a] EXCEPT !.age = @ + 1] ELSE work[a]]
  /\ UNCHANGED <<load, client, policy, call, changes>>

Next ==
  \/ \E c \in Calls : \/ \E x \in Contexts : Check(c, x)
                      \/ Arrive(c) \/ Fail(c)
  \/ \E a \in Asks : Hit(a) \/ Read(a) \/ Finish(a) \/ Drop(a)
  \/ \E k \in DOMAIN sdk : Evict(k)
  \/ SetPolicy
  \/ Tick

Spec == Init /\ [][Next]_vars

-----------------------------------------------------------------------------
(* The types of the caches and of a check.                                 *)
TypeOK ==
  /\ load \in Traffic
  /\ client \in [language : {"python", "typescript"}, fail_closed : BOOLEAN]
  /\ policy \in Verdicts
  /\ cache \in Entry(ServiceTTL)
  /\ sdk \in [Contexts \cup {None} -> Entry(SdkTTL)]
  /\ gone \in [Effects -> 0..ClockLimit] /\ call \in [Calls -> CallType]
  /\ work \in [Asks -> WorkType]
  /\ changes \in 0..MaxChanges

Returned(c) == call[c].pc = "done" /\ call[c].answered

(* An answer the policies stopped giving in every context is still given   *)
(* less long than the two caches and two attempts, whatever answers and    *)
(* late entries overtake each other: one attempt to read and cache it, the *)
(* entry's life, another to read and deliver that, and the client's entry; *)
(* a refusal by the TypeScript client less long by the last (check).       *)
AnswersBounded ==
  \A c \in Calls : Returned(c) =>
    IF client.language = "python" \/ call[c].answer = "allow"
    THEN call[c].old < SdkTTL + ServiceTTL + 2 * Span
    ELSE call[c].old < ServiceTTL + 2 * Span

(* A check no attempt of which was answered allows nothing, unless the     *)
(* Python client was told to fail open.                                    *)
NoAnswerNoAllow ==
  \A c \in Calls : call[c].pc = "done" /\ ~call[c].answered /\ call[c].answer = "allow" =>
    client = [language |-> "python", fail_closed |-> FALSE]

(* One check asks for one approval, unless an attempt was given up that    *)
(* the service was still at, or had answered: then each may ask for one.   *)
ApprovalsExplained ==
  \A c \in Calls : call[c].made > 1 => call[c].lost

=============================================================================
