------------------------------- MODULE Proxy -------------------------------
(***************************************************************************)
(* The transparent proxy (kynara-proxy): a conversation of an agent with   *)
(* a model, or with a tool service, that goes through it.  It looks for    *)
(* tool calls in the request, asks about each in turn and forwards or      *)
(* refuses the request; only if it saw none in the request does it look    *)
(* at the answer, and then it strips what is denied, by the tool's name.   *)
(*                                                                         *)
(* Policies change at any moment; what the proxy is told is what they say  *)
(* then, or the fallback when neither the sidecar nor the service answers. *)
(***************************************************************************)
EXTENDS Naturals, Sequences, FiniteSets, SequencesExt

CONSTANTS Tools,
          MaxCalls,           \* bound: tool calls in one conversation
          MaxAnswer,          \* bound: tool calls in one answer of the model
          MaxChanges,         \* bound: changes of policy
          FailOpen            \* KYNARA_FAIL_OPEN

ProxyAssumption ==
  {MaxCalls, MaxAnswer, MaxChanges} \subseteq Nat /\ FailOpen \in BOOLEAN

VARIABLES format,     \* what the bodies look like
          policy,     \* what is answered for each tool now
          changes,
          history,    \* the tool calls the messages carry so far
          pc, todo,   \* of the request under way: the calls to ask about
          calls,      \* the calls of the answer, as the proxy passes them on
          told,       \* what it was told, tool by tool, in this request or answer
          seen,       \* the request had calls
          run         \* history: the calls that were run, and how they got through

vars == <<format, policy, changes, history, pc, todo, calls, told, seen, run>>

Effects == {"allow", "deny", "require_approval"}

(* "mixed" is a body in the form of OpenAI with max_tokens, which counts   *)
(* as Anthropic's; "direct" names one tool and is run by the upstream.     *)
Formats == {"openai", "anthropic", "mixed", "direct"}

Init ==
  /\ format \in Formats
  /\ policy \in [Tools -> Effects] /\ changes = 0
  /\ history = <<>> /\ pc = "agent" /\ todo = <<>> /\ calls = <<>>
  /\ told = {} /\ seen = FALSE /\ run = {}

conversation == <<format, policy, changes, history>>

-----------------------------------------------------------------------------
(* inspect_request                                                         *)
InRequest(messages) == IF format = "mixed" THEN <<>> ELSE messages

(* proxy, step 1                                                           *)
Send ==
  /\ pc = "agent" /\ format # "direct" /\ Len(history) < MaxCalls
  /\ todo' = InRequest(history)
  /\ seen' = (InRequest(history) # <<>>)
  /\ told' = {} /\ calls' = <<>> /\ pc' = "request"
  /\ UNCHANGED <<conversation, run>>

SendDirect(t) ==
  /\ pc = "agent" /\ format = "direct" /\ Len(history) < MaxCalls
  /\ history' = Append(history, t)
  /\ todo' = <<t>> /\ seen' = TRUE /\ told' = {} /\ calls' = <<>> /\ pc' = "request"
  /\ UNCHANGED <<format, policy, changes, run>>

(* policy.check                                                            *)
Fallback == IF FailOpen THEN "allow" ELSE "deny"
Told(t) == {policy[t], Fallback}

(* proxy, step 2: what must be approved ends it at once, a denial only     *)
(* after the others were asked about.                                      *)
CheckRequest(effect) ==
  /\ pc = "request" /\ todo # <<>> /\ effect \in Told(Head(todo))
  /\ told' = told \cup {<<Head(todo), effect>>}
  /\ todo' = IF effect = "require_approval" THEN <<>> ELSE Tail(todo)
  /\ pc' = IF effect = "require_approval" THEN "agent" ELSE pc
  /\ UNCHANGED <<conversation, calls, seen, run>>

Denied == {t \in Tools : <<t, "deny">> \in told}

(* Step 3: 403.  The conversation goes on from where it was.               *)
Refuse ==
  /\ pc = "request" /\ todo = <<>> /\ Denied # {}
  /\ pc' = "agent"
  /\ UNCHANGED <<conversation, todo, calls, told, seen, run>>

(* Step 4, and the answer of a model, which may come as a stream.          *)
Blocked == Denied # {}

Forward(answer, stream) ==
  LET inspected == ~seen /\ ~stream IN
  /\ pc = "request" /\ todo = <<>> /\ ~Blocked /\ format # "direct"
  /\ Len(history) + Len(answer) <= MaxCalls
  /\ calls' = answer
  /\ todo' = IF inspected THEN answer ELSE <<>>
  /\ pc' = IF inspected THEN "answer" ELSE "deliver"
  /\ told' = {}
  /\ UNCHANGED <<conversation, seen, run>>

ForwardDirect ==
  /\ pc = "request" /\ todo = <<>> /\ ~Blocked /\ format = "direct"
  /\ run' = run \cup {[tool |-> Last(history), by |-> "request", told |-> told]}
  /\ pc' = "agent"
  /\ UNCHANGED <<conversation, todo, calls, told, seen>>

(* _enforce_response_tool_calls, _rewrite_deny_in_response: every call of  *)
(* the denied tool goes; one that needs approval stays.                    *)
Stripped(t) ==
  LET kept[n \in 0..Len(calls)] ==
        IF n = 0 THEN <<>>
        ELSE IF calls[n] = t THEN kept[n - 1] ELSE Append(kept[n - 1], calls[n])
  IN kept[Len(calls)]

CheckAnswer(effect) ==
  /\ pc = "answer" /\ todo # <<>> /\ effect \in Told(Head(todo))
  /\ told' = told \cup {<<Head(todo), effect>>}
  /\ todo' = Tail(todo)
  /\ calls' = IF effect = "deny" THEN Stripped(Head(todo)) ELSE calls
  /\ UNCHANGED <<conversation, pc, seen, run>>

(* The agent runs what it receives, and carries it along from then on.     *)
Deliver ==
  /\ pc \in {"answer", "deliver"} /\ todo = <<>>
  /\ run' = run \cup {[tool |-> calls[i], told |-> told,
                       by |-> IF pc = "answer" THEN "inspected" ELSE "passed"] : i \in DOMAIN calls}
  /\ history' = history \o calls
  /\ pc' = "agent"
  /\ UNCHANGED <<format, policy, changes, todo, calls, told, seen>>

SetPolicy(t, effect) ==
  /\ changes < MaxChanges /\ policy[t] # effect
  /\ policy' = [policy EXCEPT ![t] = effect]
  /\ changes' = changes + 1
  /\ UNCHANGED <<format, history, pc, todo, calls, told, seen, run>>

Answers == UNION {[1..n -> Tools] : n \in 0..MaxAnswer}

Next ==
  \/ Send \/ Refuse \/ ForwardDirect \/ Deliver
  \/ \E t \in Tools : \/ SendDirect(t)
                      \/ \E e \in Effects : SetPolicy(t, e)
  \/ \E e \in Effects : CheckRequest(e) \/ CheckAnswer(e)
  \/ \E a \in Answers, stream \in BOOLEAN : Forward(a, stream)

Spec == Init /\ [][Next]_vars

-----------------------------------------------------------------------------
(* The types of the conversation (inspector.py, policy.py).                *)
TypeOK ==
  /\ format \in Formats /\ policy \in [Tools -> Effects] /\ changes \in 0..MaxChanges
  /\ history \in Seq(Tools) /\ Len(history) <= MaxCalls
  /\ pc \in {"agent", "request", "answer", "deliver"}
  /\ {todo, calls} \subseteq Seq(Tools) /\ told \subseteq Tools \X Effects /\ seen \in BOOLEAN
  /\ \A r \in run : r.tool \in Tools /\ r.by \in {"request", "inspected", "passed"}

(* No call the proxy looked at is run after it was told to deny that tool, *)
(* however the policies change between the calls of one answer, and a      *)
(* direct one only if it was told to allow it.                             *)
InspectedIsObeyed ==
  \A r \in run :
    /\ r.by # "passed" => <<r.tool, "deny">> \notin r.told
    /\ r.by = "inspected" => \E e \in Effects \ {"deny"} : <<r.tool, e>> \in r.told
    /\ r.by = "request" => <<r.tool, "allow">> \in r.told

ForwardedIsAllowedStep ==
  pc = "request" /\ pc' \in {"answer", "deliver"} =>
     \A i \in DOMAIN InRequest(history) : <<history[i], "allow">> \in told

(* A request is forwarded only when each call it was seen to carry was     *)
(* allowed in it.                                                          *)
ForwardedIsAllowed == [][ForwardedIsAllowedStep]_vars

=============================================================================
