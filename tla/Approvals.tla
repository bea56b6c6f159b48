----------------------------- MODULE Approvals -----------------------------
(***************************************************************************)
(* Human review of require_approval decisions and of JIT elevation         *)
(* requests: the table approval_requests.                                  *)
(*                                                                         *)
(* A reviewer resolves a request from Slack, Teams or a deep link          *)
(* (api/v1/integrations.py, _resolve_approval) or from an MCP client       *)
(* (api/mcp_server.py, kynara_approve_request and kynara_reject_request).  *)
(* Both read the row, decide on what they read and write it back by        *)
(* primary key; nothing locks the row in between, and the session writes   *)
(* what it assigned whatever the row has become.  The chat path commits    *)
(* the outcome with an audit row of the organisation's chain, which fails  *)
(* when another row was appended since it read the tip (see AuditLog).     *)
(* Administrators list the queue with GET /approvals (api/v1/approvals.py).*)
(***************************************************************************)
EXTENDS Naturals, Sequences

CONSTANTS Requests,       \* rows of approval_requests
          Calls,          \* review calls in flight
          Channels        \* how reviewers answer: "chat", "mcp"

ASSUME ApprovalsAssumption == Channels \subseteq {"chat", "mcp"}

VARIABLES status,         \* the committed status of a request
          overdue,        \* expires_at, 24 hours after creation, has passed
          trail,          \* what the audit chain says of a request, in order
          listed,         \* the status an administrator was last shown
          silent,         \* history: requests whose last outcome has no audit row
          call            \* the review calls

vars == <<status, overdue, trail, listed, silent, call>>

Outcomes == {"approved", "rejected"}

Terminal == Outcomes \cup {"expired"}

(* pc       the next await: expire, tip, append or write                   *)
(* tipValid no row was appended to the chain since the tip was read        *)
(* stale    somebody else resolved the request since the call read it      *)
CallType ==
  [pc : {"idle", "expire", "tip", "append", "write", "done", "failed"},
   via : {"chat", "mcp"}, on : Requests, outcome : Outcomes,
   tipValid : BOOLEAN, stale : BOOLEAN]

Running(c) == call[c].pc \in {"expire", "tip", "append", "write"}

Init ==
  /\ status = [a \in Requests |-> "none"]
  /\ overdue = [a \in Requests |-> FALSE]
  /\ trail = [a \in Requests |-> <<>>]
  /\ listed = [a \in Requests |-> "none"]
  /\ silent = {}
  /\ call \in [Calls -> {q \in CallType : /\ q.pc = "idle"
                                          /\ q.via = "chat"
                                          /\ q.outcome = "approved"
                                          /\ ~q.tipValid /\ ~q.stale}]

-----------------------------------------------------------------------------
(* A row was appended to the organisation's chain.                         *)
Superseded(calls) == [c \in Calls |-> [calls[c] EXCEPT !.tipValid = FALSE]]

(* _emit_decision: the audit row of the decision is committed before.      *)
RequireApproval(a) ==
  /\ status[a] = "none"
  /\ status' = [status EXCEPT ![a] = "pending"]
  /\ UNCHANGED <<overdue, trail, listed, silent, call>>

(* request_elevation: the request is committed by its audit row.           *)
RequestElevation(a) ==
  /\ status[a] = "none"
  /\ status' = [status EXCEPT ![a] = "pending"]
  /\ trail' = [trail EXCEPT ![a] = Append(@, "requested")]
  /\ call' = Superseded(call)
  /\ UNCHANGED <<overdue, listed, silent>>

PassExpiry(a) ==
  /\ status[a] # "none"
  /\ ~overdue[a]
  /\ overdue' = [overdue EXCEPT ![a] = TRUE]
  /\ UNCHANGED <<status, trail, listed, silent, call>>

(* Mutant: the status that was read does not matter.                       *)
Refused_Never(a) == FALSE

(* 409 "Approval is already ..."                                           *)
Refused(a) == status[a] # "pending"

(* The call reads the row: session.get, then the early returns.  Only the  *)
(* chat path looks at expires_at.                                          *)
Review(c, via, a, outcome) ==
  /\ ~Running(c)
  /\ via \in Channels
  /\ status[a] # "none"
  /\ LET next == IF Refused(a) THEN "failed"
                 ELSE IF via = "mcp" THEN "write"
                 ELSE IF overdue[a] THEN "expire" ELSE "tip"
     IN  call' = [call EXCEPT ![c] =
                    [pc |-> next, via |-> via, on |-> a, outcome |-> outcome,
                     tipValid |-> FALSE, stale |-> FALSE]]
  /\ UNCHANGED <<status, overdue, trail, listed, silent>>

(* The commit of a call: it writes what it assigned.                       *)
Resolve(c, to, calls) ==
  /\ status' = [status EXCEPT ![call[c].on] = to]
  /\ call' = [d \in Calls |-> IF d # c /\ Running(d) /\ call[d].on = call[c].on
                             THEN [calls[d] EXCEPT !.stale = TRUE] ELSE calls[d]]
  /\ UNCHANGED <<overdue, listed>>

(* 410 "Approval has expired": committed, not audited.                     *)
Expire(c) ==
  /\ call[c].pc = "expire"
  /\ Resolve(c, "expired", [call EXCEPT ![c].pc = "failed"])
  /\ UNCHANGED <<trail, silent>>

(* record_admin, _next_sequence_and_prev_hash.                             *)
ReadTip(c) ==
  /\ call[c].pc = "tip"
  /\ call' = [call EXCEPT ![c].pc = "append", ![c].tipValid = TRUE]
  /\ UNCHANGED <<status, overdue, trail, listed, silent>>

(* Mutant: the outcome is committed before record_admin is called, as      *)
(* kill_agent does, so that it stays when the audit row is refused.        *)
RecordConflict_Kept(c) ==
  /\ call[c].pc = "append"
  /\ ~call[c].tipValid
  /\ Resolve(c, call[c].outcome, [call EXCEPT ![c].pc = "failed"])
  /\ UNCHANGED <<trail, silent>>

(* Mutant: a request has one audit row, which a later outcome overwrites.  *)
Record_Upserts(c) ==
  /\ call[c].pc = "append"
  /\ call[c].tipValid
  /\ Resolve(c, call[c].outcome, [Superseded(call) EXCEPT ![c].pc = "done"])
  /\ trail' = [trail EXCEPT ![call[c].on] = <<call[c].outcome>>]
  /\ silent' = silent \ {call[c].on}

(* record_admin: one flush and commit for the outcome and its audit row.   *)
Record(c) ==
  /\ call[c].pc = "append"
  /\ call[c].tipValid
  /\ Resolve(c, call[c].outcome, [Superseded(call) EXCEPT ![c].pc = "done"])
  /\ trail' = [trail EXCEPT ![call[c].on] = Append(@, call[c].outcome)]
  /\ silent' = silent \ {call[c].on}

(* The unique index refuses the audit row: 500, and the outcome is rolled  *)
(* back with it.                                                           *)
RecordConflict(c) ==
  /\ call[c].pc = "append"
  /\ ~call[c].tipValid
  /\ call' = [call EXCEPT ![c].pc = "failed"]
  /\ UNCHANGED <<status, overdue, trail, listed, silent>>

(* Mutant: the button's "approve" is stored as it is.                      *)
Write_Raw(c) ==
  /\ call[c].pc = "write"
  /\ Resolve(c, IF call[c].outcome = "approved" THEN "approve" ELSE "reject",
             [call EXCEPT ![c].pc = "done"])
  /\ silent' = silent \cup {call[c].on}
  /\ UNCHANGED trail

(* kynara_approve_request, kynara_reject_request: no audit row.            *)
Write(c) ==
  /\ call[c].pc = "write"
  /\ Resolve(c, call[c].outcome, [call EXCEPT ![c].pc = "done"])
  /\ silent' = silent \cup {call[c].on}
  /\ UNCHANGED trail

(* A crash or a lost connection.                                           *)
Fail(c) ==
  /\ Running(c)
  /\ call' = [call EXCEPT ![c].pc = "failed"]
  /\ UNCHANGED <<status, overdue, trail, listed, silent>>

(* list_approvals: _expire_stale only flushes; the answer shows the change *)
(* and the end of the request rolls it back.                               *)
List ==
  /\ listed' = [a \in Requests |-> IF status[a] = "pending" /\ overdue[a]
                                  THEN "expired" ELSE status[a]]
  /\ UNCHANGED <<status, overdue, trail, silent, call>>

(* Another request of the organisation appends to the chain.               *)
OtherRecord ==
  /\ call' = Superseded(call)
  /\ UNCHANGED <<status, overdue, trail, listed, silent>>

CallStep(c) == \/ Expire(c) \/ ReadTip(c) \/ Record(c) \/ RecordConflict(c)
               \/ Write(c)

Next ==
  \/ \E a \in Requests : RequireApproval(a) \/ RequestElevation(a) \/ PassExpiry(a)
  \/ \E c \in Calls, a \in Requests, via \in Channels, outcome \in Outcomes :
       Review(c, via, a, outcome)
  \/ \E c \in Calls : CallStep(c) \/ Fail(c)
  \/ List
  \/ OtherRecord

Spec == Init /\ [][Next]_vars

-----------------------------------------------------------------------------
(* The types of the variables (models/approval.py).                        *)
TypeOK ==
  /\ status \in [Requests -> {"none", "pending"} \cup Terminal]
  /\ overdue \in [Requests -> BOOLEAN]
  /\ trail \in [Requests -> Seq({"requested"} \cup Outcomes)]
  /\ listed \in [Requests -> {"none", "pending"} \cup Terminal]
  /\ silent \subseteq Requests
  /\ call \in [Calls -> CallType]

(* A resolved request is resolved again only by a call that read it before *)
(* it was resolved: reviews one after the other get a 409.                 *)
SecondNeedsOverlap ==
  [][\A a \in Requests :
       status[a] \in Terminal /\ status'[a] # status[a]
       => \E c \in Calls : /\ Running(c) /\ ~Running(c)'
                           /\ call[c].on = a /\ call[c].stale]_vars

(* Whatever the audit chain says last is what the request became: unless   *)
(* an MCP reviewer had the last word, an outcome is in the database        *)
(* exactly if it is in the chain, although reviews overlap, their audit    *)
(* rows conflict and either write may fail.  A request may still have      *)
(* expired since.                                                          *)
TrailIsTruth ==
  \A a \in Requests \ silent :
    LET last == IF trail[a] = <<>> THEN "requested" ELSE trail[a][Len(trail[a])]
    IN  /\ status[a] \in Outcomes => last = status[a]
        /\ last \in Outcomes => status[a] \in {last, "expired"}

(* A reviewer in chat who is told that the outcome was recorded can find   *)
(* it in the chain, even if somebody else overwrote it.                    *)
AnswerIsRecorded ==
  \A c \in Calls : call[c].pc = "done" /\ call[c].via = "chat" =>
    \E i \in 1 .. Len(trail[call[c].on]) : trail[call[c].on][i] = call[c].outcome

-----------------------------------------------------------------------------
(* What a test says and the code does not do.                              *)

(* tests/test_approvals.py:101: only pending can transition.               *)
TerminalIsFinal ==
  [][\A a \in Requests : status[a] \in Terminal => status'[a] = status[a]]_vars

=============================================================================
