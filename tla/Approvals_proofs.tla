-------------------------- MODULE Approvals_proofs --------------------------
(***************************************************************************)
(* For any number of requests and reviewers: what the audit chain says of  *)
(* a request is what it became unless an MCP reviewer had the last word,   *)
(* and a second outcome takes two calls that overlap.                      *)
(*                                                                         *)
(* TrailIsTruth is inductive.  AnswerIsRecorded is once the calls that     *)
(* write without an audit row are known to be MCP calls (WriteIsMcp).      *)
(* SecondNeedsOverlap rests on what a call in flight knows: as long as it  *)
(* is not stale, the request it read is still pending (Fresh).             *)
(*                                                                         *)
(* For any number of administrators and approvals: a change of a section   *)
(* that met no other stands (a lone request has loaded what is stored,     *)
(* AloneInv; two inserts cannot both succeed, InsertInv), and a task sends *)
(* by the account its row gives it (DispatchInv, PostedInv).               *)
(*                                                                         *)
(* For any number of organisations and rows: the verifier accepts exactly  *)
(* the chains that appends alone can build, and a night that exits 0 told  *)
(* of every break (JobInv).  Both directions of the first use that what    *)
(* was stored tells where a row belongs, tampered with or not              *)
(* (TablesInv).                                                            *)
(***************************************************************************)
EXTENDS ApprovalsMC, SequenceTheorems, FiniteSetTheorems, FunctionTheorems,
        WellFoundedInduction, TLAPS

WriteIsMcp == \A c \in Calls : call[c].pc = "write" => call[c].via = "mcp"

Fresh ==
  \A c \in Calls : Running(c) /\ ~call[c].stale => status[call[c].on] = "pending"

IInv == TypeOK /\ WriteIsMcp /\ Fresh /\ TrailIsTruth /\ AnswerIsRecorded

-----------------------------------------------------------------------------
(* Appending to the trail of a request.                                    *)
LEMMA AppendTrail ==
  ASSUME NEW S, NEW t \in Seq(S), NEW e \in S
  PROVE  /\ Append(t, e) \in Seq(S)
         /\ Append(t, e) # <<>>
         /\ Len(Append(t, e)) = Len(t) + 1
         /\ Append(t, e)[Len(t) + 1] = e
         /\ \A i \in 1 .. Len(t) : Append(t, e)[i] = t[i]
         /\ Len(t) \in Nat
  OBVIOUS

(* Initially nothing is requested and nobody reviews.                      *)
LEMMA InitInv == Init => IInv
<1> SUFFICES ASSUME Init PROVE IInv
  OBVIOUS
<1>1. \A c \in Calls : call[c] \in CallType /\ call[c].pc = "idle" /\ call[c].via = "chat"
  BY DEF Init
<1>2. TypeOK
  BY DEF Init, TypeOK, Terminal, Outcomes
<1>3. WriteIsMcp /\ Fresh /\ AnswerIsRecorded
  BY <1>1 DEF WriteIsMcp, Fresh, Running, AnswerIsRecorded
<1>4. TrailIsTruth
  BY DEF Init, TrailIsTruth, Outcomes
<1> QED BY <1>2, <1>3, <1>4 DEF IInv

(* A call takes a step that commits nothing.                               *)
LEMMA LocalStep ==
  ASSUME IInv, NEW c \in Calls, NEW q \in CallType,
         call' = [call EXCEPT ![c] = q], UNCHANGED <<status, overdue, trail, listed, silent>>,
         q.pc # "done" /\ (q.pc = "write" => q.via = "mcp"),
         q.pc \in {"expire", "tip", "append", "write"} /\ ~q.stale
           => status[q.on] = "pending"
  PROVE  IInv'
<1>1. call \in [Calls -> CallType] /\ call'[c] = q /\ \A d \in Calls \ {c} : call'[d] = call[d]
  BY DEF IInv, TypeOK
<1>2. TypeOK'
  BY <1>1 DEF IInv, TypeOK
<1>3. WriteIsMcp'
  BY <1>1 DEF IInv, WriteIsMcp
<1>4. Fresh'
  BY <1>1 DEF IInv, Fresh, Running
<1>5. TrailIsTruth'
  BY DEF IInv, TrailIsTruth
<1>6. AnswerIsRecorded'
  BY <1>1 DEF IInv, AnswerIsRecorded
<1> QED BY <1>2, <1>3, <1>4, <1>5, <1>6 DEF IInv

(* A call reads the request: it goes on only if that is pending.           *)
LEMMA ReviewInv ==
  ASSUME IInv, NEW c \in Calls, NEW a \in Requests, NEW via \in Channels,
         NEW outcome \in Outcomes, Review(c, via, a, outcome)
  PROVE  IInv'
<1> DEFINE next == IF Refused(a) THEN "failed"
                   ELSE IF via = "mcp" THEN "write"
                   ELSE IF overdue[a] THEN "expire" ELSE "tip"
           q == [pc |-> next, via |-> via, on |-> a, outcome |-> outcome,
                 tipValid |-> FALSE, stale |-> FALSE]
<1>1. via \in {"chat", "mcp"}
  BY ApprovalsAssumption
<1>2. q \in CallType
  BY <1>1 DEF CallType
<1>3. q.pc \in {"expire", "tip", "append", "write"} => status[q.on] = "pending"
  BY DEF Refused
<1>4. q.pc # "done" /\ (q.pc = "write" => q.via = "mcp")
  OBVIOUS
<1>5. call' = [call EXCEPT ![c] = q] /\ UNCHANGED <<status, overdue, trail, listed, silent>>
  BY DEF Review
<1> HIDE DEF q
<1> QED BY <1>2, <1>3, <1>4, <1>5, LocalStep

(* The other steps of a call that commit nothing.                          *)
LEMMA QuietInv ==
  ASSUME IInv, NEW c \in Calls, ReadTip(c) \/ RecordConflict(c) \/ Fail(c)
  PROVE  IInv'
<1>1. PICK pc \in {"append", "failed"}, valid \in BOOLEAN :
        /\ call' = [call EXCEPT ![c].pc = pc, ![c].tipValid = valid]
        /\ pc = "append" => call[c].pc = "tip"
        /\ UNCHANGED <<status, overdue, trail, listed, silent>>
  <2>1. CASE ReadTip(c)
    BY <2>1 DEF ReadTip
  <2>2. CASE RecordConflict(c) \/ Fail(c)
    <3>1. call \in [Calls -> CallType] /\ call[c].tipValid \in BOOLEAN
      BY DEF IInv, TypeOK, CallType
    <3>2. [call EXCEPT ![c].pc = "failed"]
            = [call EXCEPT ![c].pc = "failed", ![c].tipValid = call[c].tipValid]
      BY <3>1 DEF CallType
    <3> QED BY <2>2, <3>1, <3>2 DEF RecordConflict, Fail
  <2> QED BY <2>1, <2>2
<1> DEFINE q == [call[c] EXCEPT !.pc = pc, !.tipValid = valid]
<1>2. call[c] \in CallType
  BY DEF IInv, TypeOK
<1>3. q \in CallType /\ q.pc = pc /\ q.via = call[c].via /\ q.on = call[c].on
      /\ q.stale = call[c].stale
  BY <1>2 DEF CallType
<1>4. call' = [call EXCEPT ![c] = q]
  BY <1>1, <1>2 DEF IInv, TypeOK
<1>5. q.pc # "done" /\ (q.pc = "write" => q.via = "mcp")
  BY <1>1, <1>3 DEF IInv, WriteIsMcp
<1>6. q.pc \in {"expire", "tip", "append", "write"} /\ ~q.stale => status[q.on] = "pending"
  BY <1>1, <1>3 DEF IInv, Fresh, Running
<1> HIDE DEF q
<1> QED BY <1>1, <1>3, <1>4, <1>5, <1>6, LocalStep

(* Superseding the tips makes no other difference.                         *)
LEMMA SupersededSame ==
  ASSUME NEW calls \in [Calls -> CallType]
  PROVE  /\ Superseded(calls) \in [Calls -> CallType]
         /\ \A c \in Calls : /\ Superseded(calls)[c].pc = calls[c].pc
                             /\ Superseded(calls)[c].via = calls[c].via
                             /\ Superseded(calls)[c].on = calls[c].on
                             /\ Superseded(calls)[c].outcome = calls[c].outcome
                             /\ Superseded(calls)[c].stale = calls[c].stale
BY DEF Superseded, CallType

(* A call ends by writing a status: those that overlap it become stale.    *)
LEMMA ResolveStep ==
  ASSUME TypeOK, Fresh, WriteIsMcp,
         NEW c \in Calls, NEW to \in Terminal, NEW end \in {"done", "failed"},
         NEW calls \in [Calls -> CallType],
         calls[c].pc = end,
         \A d \in Calls : /\ d # c => calls[d].pc = call[d].pc
                          /\ calls[d].via = call[d].via
                          /\ calls[d].on = call[d].on
                          /\ calls[d].outcome = call[d].outcome
                          /\ calls[d].stale = call[d].stale,
         Resolve(c, to, calls)
  PROVE  /\ call' \in [Calls -> CallType]
         /\ status' \in [Requests -> {"none", "pending"} \cup Terminal]
         /\ WriteIsMcp' /\ Fresh'
         /\ call'[c].pc = end
         /\ \A d \in Calls : /\ d # c => call'[d].pc = call[d].pc
                             /\ call'[d].via = call[d].via
                             /\ call'[d].on = call[d].on
                             /\ call'[d].outcome = call[d].outcome
<1> DEFINE a == call[c].on
<1>1. /\ call \in [Calls -> CallType] /\ status \in [Requests -> {"none", "pending"} \cup Terminal]
      /\ a \in Requests
  BY DEF TypeOK, CallType
<1>2. \A d \in Calls : /\ call'[d] \in CallType
                       /\ call'[d].pc = calls[d].pc
                       /\ call'[d].via = calls[d].via
                       /\ call'[d].on = calls[d].on
                       /\ call'[d].outcome = calls[d].outcome
                       /\ d # c /\ Running(d) /\ call[d].on = a => call'[d].stale
                       /\ calls[d].stale => call'[d].stale
  <2> SUFFICES ASSUME NEW d \in Calls
               PROVE  /\ call'[d] \in CallType
                      /\ call'[d].pc = calls[d].pc
                      /\ call'[d].via = calls[d].via
                      /\ call'[d].on = calls[d].on
                      /\ call'[d].outcome = calls[d].outcome
                      /\ d # c /\ Running(d) /\ call[d].on = a => call'[d].stale
                      /\ calls[d].stale => call'[d].stale
    OBVIOUS
  <2>1. calls[d] \in CallType
    OBVIOUS
  <2>2. call'[d] = IF d # c /\ Running(d) /\ call[d].on = a
                   THEN [calls[d] EXCEPT !.stale = TRUE] ELSE calls[d]
    BY DEF Resolve
  <2>3. CASE d # c /\ Running(d) /\ call[d].on = a
    <3>1. call'[d] = [calls[d] EXCEPT !.stale = TRUE]
      BY <2>2, <2>3
    <3> QED BY <2>1, <3>1 DEF CallType
  <2>4. CASE ~(d # c /\ Running(d) /\ call[d].on = a)
    <3>1. call'[d] = calls[d]
      BY <2>2, <2>4
    <3> QED BY <2>1, <2>4, <3>1
  <2> QED BY <2>3, <2>4
<1>3. call' \in [Calls -> CallType]
  BY <1>2 DEF Resolve
<1>4. status' = [status EXCEPT ![a] = to]
  BY DEF Resolve
<1>5. WriteIsMcp'
  BY <1>2 DEF WriteIsMcp
<1>6. Fresh'
  <2> SUFFICES ASSUME NEW d \in Calls, Running(d)', ~call'[d].stale
               PROVE  status'[call'[d].on] = "pending"
    BY DEF Fresh
  <2>1. d # c
    BY <1>2 DEF Running
  <2>2. Running(d) /\ ~call[d].stale /\ call[d].on # a
    BY <1>2, <2>1 DEF Running
  <2>3. call[d].on \in Requests
    BY <1>1 DEF CallType
  <2>4. status[call[d].on] = "pending"
    BY <2>2 DEF Fresh
  <2> QED BY <1>1, <1>2, <1>4, <2>2, <2>3, <2>4
<1> QED BY <1>1, <1>2, <1>3, <1>4, <1>5, <1>6

(* An outcome and its audit row: the trail keeps up with what it became.   *)
LEMMA TrailGrows ==
  ASSUME TrailIsTruth, AnswerIsRecorded, TypeOK,
         NEW a \in Requests, NEW to \in Outcomes,
         trail' = [trail EXCEPT ![a] = Append(@, to)],
         status' = [status EXCEPT ![a] = to], silent' = silent \ {a},
         \A d \in Calls : /\ call'[d].on = call[d].on
                          /\ call'[d].via = call[d].via
                          /\ call'[d].outcome = call[d].outcome
                          /\ call'[d].pc = "done" => \/ call[d].pc = "done"
                                                     \/ call[d].on = a /\ call[d].outcome = to
  PROVE  TrailIsTruth' /\ AnswerIsRecorded'
<1> DEFINE Words == {"requested"} \cup Outcomes
<1>1. trail \in [Requests -> Seq(Words)] /\ status \in [Requests -> {"none", "pending"} \cup Terminal]
  BY DEF TypeOK
<1>2. to \in Words /\ trail[a] \in Seq(Words)
  BY <1>1
<1>3. /\ trail'[a] = Append(trail[a], to)
      /\ \A b \in Requests \ {a} : trail'[b] = trail[b]
  BY <1>1
<1>4. /\ trail'[a] # <<>> /\ trail'[a][Len(trail'[a])] = to
      /\ Len(trail'[a]) = Len(trail[a]) + 1 /\ Len(trail[a]) \in Nat
      /\ \A i \in 1 .. Len(trail[a]) : trail'[a][i] = trail[a][i]
  <2> HIDE DEF Words
  <2> QED BY <1>2, <1>3, AppendTrail
<1>5. TrailIsTruth'
  <2> SUFFICES ASSUME NEW b \in Requests \ silent'
               PROVE  LET last == IF trail'[b] = <<>> THEN "requested"
                                  ELSE trail'[b][Len(trail'[b])]
                      IN  /\ status'[b] \in Outcomes => last = status'[b]
                          /\ last \in Outcomes => status'[b] \in {last, "expired"}
    BY DEF TrailIsTruth
  <2>1. CASE b = a
    BY <1>1, <1>4, <2>1
  <2>2. CASE b # a
    BY <1>1, <1>3, <2>2 DEF TrailIsTruth
  <2> QED BY <2>1, <2>2
<1>6. AnswerIsRecorded'
  <2> SUFFICES ASSUME NEW d \in Calls, call'[d].pc = "done", call'[d].via = "chat"
               PROVE  \E i \in 1 .. Len(trail'[call[d].on]) :
                        trail'[call[d].on][i] = call[d].outcome
    BY DEF AnswerIsRecorded
  <2>1. call[d].on \in Requests
    BY DEF TypeOK, CallType
  <2>2. CASE call[d].on = a /\ call[d].outcome = to
    <3>1. Len(trail'[a]) \in 1 .. Len(trail'[a])
      BY <1>4
    <3> QED BY <1>4, <2>2, <3>1
  <2>3. CASE call[d].pc = "done"
    <3>1. PICK i \in 1 .. Len(trail[call[d].on]) : trail[call[d].on][i] = call[d].outcome
      BY <2>3 DEF AnswerIsRecorded
    <3>2. i \in 1 .. Len(trail'[call[d].on]) /\ trail'[call[d].on][i] = call[d].outcome
      <4>1. CASE call[d].on = a
        BY <1>4, <3>1, <4>1
      <4>2. CASE call[d].on # a
        BY <1>3, <2>1, <3>1, <4>2
      <4> QED BY <4>1, <4>2
    <3> QED BY <3>2
  <2> QED BY <2>2, <2>3
<1> QED BY <1>5, <1>6

(* A chat call finds the request overdue and says so.                      *)
LEMMA ExpireInv ==
  ASSUME IInv, NEW c \in Calls, Expire(c)
  PROVE  IInv'
<1> DEFINE calls == [call EXCEPT ![c].pc = "failed"]
<1>1. call \in [Calls -> CallType]
  BY DEF IInv, TypeOK
<1>2. /\ calls \in [Calls -> CallType] /\ calls[c].pc = "failed"
      /\ \A d \in Calls : /\ d # c => calls[d].pc = call[d].pc
                          /\ calls[d].via = call[d].via /\ calls[d].on = call[d].on
                          /\ calls[d].outcome = call[d].outcome
                          /\ calls[d].stale = call[d].stale
  BY <1>1 DEF CallType
<1>3. Resolve(c, "expired", calls) /\ UNCHANGED <<trail, silent>>
  BY DEF Expire
<1>4. TypeOK /\ Fresh /\ WriteIsMcp
  BY DEF IInv
<1>5. "expired" \in Terminal
  BY DEF Terminal
<1> HIDE DEF calls
<1>6. /\ call' \in [Calls -> CallType]
      /\ status' \in [Requests -> {"none", "pending"} \cup Terminal]
      /\ WriteIsMcp' /\ Fresh' /\ call'[c].pc = "failed"
      /\ \A d \in Calls : /\ d # c => call'[d].pc = call[d].pc
                          /\ call'[d].via = call[d].via
                          /\ call'[d].on = call[d].on
                          /\ call'[d].outcome = call[d].outcome
  BY <1>2, <1>3, <1>4, <1>5, ResolveStep
<1>7. TypeOK'
  BY <1>3, <1>4, <1>6 DEF TypeOK, Resolve
<1>8. status' = [status EXCEPT ![call[c].on] = "expired"]
  BY <1>3 DEF Resolve
<1>9. TrailIsTruth'
  BY <1>3, <1>4, <1>8 DEF IInv, TrailIsTruth, TypeOK, Outcomes
<1>10. AnswerIsRecorded'
  BY <1>3, <1>6 DEF IInv, AnswerIsRecorded
<1> QED BY <1>6, <1>7, <1>9, <1>10 DEF IInv

(* The outcome and its audit row are one commit.                           *)
LEMMA RecordInv ==
  ASSUME IInv, NEW c \in Calls, Record(c)
  PROVE  IInv'
<1> DEFINE calls == [Superseded(call) EXCEPT ![c].pc = "done"]
           a == call[c].on
           to == call[c].outcome
<1>1. call \in [Calls -> CallType]
  BY DEF IInv, TypeOK
<1>2. /\ calls \in [Calls -> CallType] /\ calls[c].pc = "done"
      /\ \A d \in Calls : /\ d # c => calls[d].pc = call[d].pc
                          /\ calls[d].via = call[d].via /\ calls[d].on = call[d].on
                          /\ calls[d].outcome = call[d].outcome
                          /\ calls[d].stale = call[d].stale
  <2>1. /\ Superseded(call) \in [Calls -> CallType]
        /\ \A d \in Calls : /\ Superseded(call)[d].pc = call[d].pc
                            /\ Superseded(call)[d].via = call[d].via
                            /\ Superseded(call)[d].on = call[d].on
                            /\ Superseded(call)[d].outcome = call[d].outcome
                            /\ Superseded(call)[d].stale = call[d].stale
    BY <1>1, SupersededSame
  <2> DEFINE sup == Superseded(call)
  <2>2. calls = [sup EXCEPT ![c].pc = "done"]
    OBVIOUS
  <2> HIDE DEF sup, calls
  <2>3. sup \in [Calls -> CallType] /\ sup[c] \in CallType
    BY <2>1 DEF sup
  <2>4. calls[c] = [sup[c] EXCEPT !.pc = "done"] /\ \A d \in Calls \ {c} : calls[d] = sup[d]
    BY <2>2, <2>3
  <2>5. calls[c] \in CallType /\ calls[c].pc = "done" /\ calls[c].via = sup[c].via
        /\ calls[c].on = sup[c].on /\ calls[c].outcome = sup[c].outcome
        /\ calls[c].stale = sup[c].stale
    BY <2>3, <2>4 DEF CallType
  <2>6. calls \in [Calls -> CallType]
    BY <2>2, <2>3, <2>4, <2>5
  <2>7. \A d \in Calls : /\ sup[d].pc = call[d].pc /\ sup[d].via = call[d].via
                         /\ sup[d].on = call[d].on /\ sup[d].outcome = call[d].outcome
                         /\ sup[d].stale = call[d].stale
    BY <2>1 DEF sup
  <2>8. ASSUME NEW d \in Calls
        PROVE  /\ d # c => calls[d].pc = call[d].pc
               /\ calls[d].via = call[d].via /\ calls[d].on = call[d].on
               /\ calls[d].outcome = call[d].outcome
               /\ calls[d].stale = call[d].stale
    <3>1. CASE d = c
      BY <2>5, <2>7, <3>1
    <3>2. CASE d # c
      <4>1. calls[d] = sup[d]
        BY <2>4, <3>2
      <4> QED BY <2>7, <3>2, <4>1
    <3> QED BY <3>1, <3>2
  <2> QED BY <2>5, <2>6, <2>8
<1>3. /\ Resolve(c, to, calls) /\ trail' = [trail EXCEPT ![a] = Append(@, to)]
      /\ silent' = silent \ {a}
  BY DEF Record
<1>4. TypeOK /\ Fresh /\ WriteIsMcp
  BY DEF IInv
<1>5. to \in Outcomes /\ to \in Terminal /\ a \in Requests
  BY <1>1 DEF Terminal, CallType
<1> HIDE DEF calls
<1>6. /\ call' \in [Calls -> CallType]
      /\ status' \in [Requests -> {"none", "pending"} \cup Terminal]
      /\ WriteIsMcp' /\ Fresh' /\ call'[c].pc = "done"
      /\ \A d \in Calls : /\ d # c => call'[d].pc = call[d].pc
                          /\ call'[d].via = call[d].via
                          /\ call'[d].on = call[d].on
                          /\ call'[d].outcome = call[d].outcome
  <2> HIDE DEF a
  <2> QED BY <1>2, <1>3, <1>4, <1>5, ResolveStep
<1>7. trail' \in [Requests -> Seq({"requested"} \cup Outcomes)]
  <2>1. trail \in [Requests -> Seq({"requested"} \cup Outcomes)] /\ trail[a] \in Seq({"requested"} \cup Outcomes)
    BY <1>4, <1>5 DEF TypeOK
  <2>2. Append(trail[a], to) \in Seq({"requested"} \cup Outcomes)
    BY <1>5, <2>1
  <2> QED BY <1>3, <1>5, <2>1, <2>2
<1>8. TypeOK'
  BY <1>3, <1>4, <1>6, <1>7 DEF TypeOK, Resolve
<1>9. status' = [status EXCEPT ![a] = to]
  BY <1>3 DEF Resolve
<1>10. \A d \in Calls : /\ call'[d].on = call[d].on
                        /\ call'[d].via = call[d].via
                        /\ call'[d].outcome = call[d].outcome
                        /\ call'[d].pc = "done" => \/ call[d].pc = "done"
                                                   \/ call[d].on = a /\ call[d].outcome = to
  BY <1>6
<1>11. TrailIsTruth' /\ AnswerIsRecorded'
  <2>1. TrailIsTruth /\ AnswerIsRecorded
    BY DEF IInv
  <2> HIDE DEF a, to
  <2> QED BY <1>3, <1>4, <1>5, <1>9, <1>10, <2>1, TrailGrows
<1> QED BY <1>6, <1>8, <1>11 DEF IInv

(* An MCP call writes the outcome and nothing in the chain.                *)
LEMMA WriteInv ==
  ASSUME IInv, NEW c \in Calls, Write(c)
  PROVE  IInv'
<1> DEFINE calls == [call EXCEPT ![c].pc = "done"]
<1>1. call \in [Calls -> CallType] /\ call[c].outcome \in Terminal
  BY DEF IInv, TypeOK, CallType, Terminal
<1>2. /\ calls \in [Calls -> CallType] /\ calls[c].pc = "done"
      /\ \A d \in Calls : /\ d # c => calls[d].pc = call[d].pc
                          /\ calls[d].via = call[d].via /\ calls[d].on = call[d].on
                          /\ calls[d].outcome = call[d].outcome
                          /\ calls[d].stale = call[d].stale
  BY <1>1 DEF CallType
<1>3. /\ Resolve(c, call[c].outcome, calls) /\ UNCHANGED trail
      /\ silent' = silent \cup {call[c].on} /\ call[c].on \in Requests
  BY <1>1 DEF Write, CallType
<1>4. TypeOK /\ Fresh /\ WriteIsMcp
  BY DEF IInv
<1> HIDE DEF calls
<1>6. /\ call' \in [Calls -> CallType]
      /\ status' \in [Requests -> {"none", "pending"} \cup Terminal]
      /\ WriteIsMcp' /\ Fresh'
      /\ \A d \in Calls : /\ d # c => call'[d].pc = call[d].pc
                          /\ call'[d].via = call[d].via
                          /\ call'[d].on = call[d].on
                          /\ call'[d].outcome = call[d].outcome
  BY <1>1, <1>2, <1>3, <1>4, ResolveStep
<1>7. TypeOK'
  BY <1>3, <1>4, <1>6 DEF TypeOK, Resolve
<1>8. TrailIsTruth'
  <2>1. status' = [status EXCEPT ![call[c].on] = call[c].outcome]
    BY <1>3 DEF Resolve
  <2> QED BY <1>3, <1>4, <2>1 DEF IInv, TrailIsTruth, TypeOK
<1>9. AnswerIsRecorded'
  <2>1. call[c].via = "mcp"
    BY <1>4 DEF Write, WriteIsMcp
  <2> QED BY <1>3, <1>6, <2>1 DEF IInv, AnswerIsRecorded
<1> QED BY <1>6, <1>7, <1>8, <1>9 DEF IInv

(* A request appears, with or without an audit row of its own.             *)
LEMMA RequestInv ==
  ASSUME IInv, NEW a \in Requests, RequireApproval(a) \/ RequestElevation(a)
  PROVE  IInv'
<1> DEFINE Words == {"requested"} \cup Outcomes
<1>1. /\ call \in [Calls -> CallType]
      /\ status \in [Requests -> {"none", "pending"} \cup Terminal]
      /\ trail \in [Requests -> Seq(Words)]
  BY DEF IInv, TypeOK
<1>2. /\ call' \in [Calls -> CallType]
      /\ \A c \in Calls : /\ call'[c].pc = call[c].pc /\ call'[c].via = call[c].via
                          /\ call'[c].on = call[c].on /\ call'[c].outcome = call[c].outcome
                          /\ call'[c].stale = call[c].stale
  BY <1>1, SupersededSame DEF RequireApproval, RequestElevation
<1>3. /\ status[a] = "none" /\ status' = [status EXCEPT ![a] = "pending"]
      /\ UNCHANGED <<overdue, listed, silent>>
  BY DEF RequireApproval, RequestElevation
<1>4. /\ trail' \in [Requests -> Seq(Words)]
      /\ \A b \in Requests \ {a} : trail'[b] = trail[b]
      /\ \/ trail'[a] = trail[a]
         \/ trail'[a] = Append(trail[a], "requested")
  <2>1. "requested" \in Words /\ trail[a] \in Seq(Words)
    BY <1>1
  <2>2. Append(trail[a], "requested") \in Seq(Words)
    BY <2>1
  <2>3. trail' = trail \/ trail' = [trail EXCEPT ![a] = Append(@, "requested")]
    BY DEF RequireApproval, RequestElevation
  <2> HIDE DEF Words
  <2> QED BY <1>1, <2>2, <2>3
<1>5. TypeOK'
  BY <1>1, <1>2, <1>3, <1>4 DEF IInv, TypeOK
<1>6. WriteIsMcp'
  BY <1>2 DEF IInv, WriteIsMcp
<1>7. Fresh'
  <2>1. \A c \in Calls : call[c].on \in Requests
    BY <1>1 DEF CallType
  <2> QED BY <1>1, <1>2, <1>3, <2>1 DEF IInv, Fresh, Running
<1>8. \A b \in Requests : \A i \in 1 .. Len(trail[b]) :
        i \in 1 .. Len(trail'[b]) /\ trail'[b][i] = trail[b][i]
  <2> SUFFICES ASSUME NEW b \in Requests, NEW i \in 1 .. Len(trail[b])
               PROVE  i \in 1 .. Len(trail'[b]) /\ trail'[b][i] = trail[b][i]
    OBVIOUS
  <2>1. "requested" \in Words /\ trail[b] \in Seq(Words)
    BY <1>1
  <2>2. trail'[b] = trail[b] \/ trail'[b] = Append(trail[b], "requested")
    BY <1>4
  <2> HIDE DEF Words
  <2>3. /\ Len(Append(trail[b], "requested")) = Len(trail[b]) + 1
        /\ \A j \in 1 .. Len(trail[b]) : Append(trail[b], "requested")[j] = trail[b][j]
        /\ Len(trail[b]) \in Nat
    BY <2>1, AppendTrail
  <2> QED BY <2>2, <2>3
<1>9. TrailIsTruth' /\ AnswerIsRecorded'
  <2>1. TrailIsTruth /\ AnswerIsRecorded
    BY DEF IInv
  <2>2. TrailIsTruth'
    <3> SUFFICES ASSUME NEW b \in Requests \ silent
                 PROVE  LET last == IF trail'[b] = <<>> THEN "requested"
                                    ELSE trail'[b][Len(trail'[b])]
                        IN  /\ status'[b] \in Outcomes => last = status'[b]
                            /\ last \in Outcomes => status'[b] \in {last, "expired"}
      BY <1>3 DEF TrailIsTruth
    <3>1. CASE b # a
      BY <1>1, <1>3, <1>4, <2>1, <3>1 DEF TrailIsTruth
    <3>2. CASE b = a
      <4>1. status'[a] = "pending"
        BY <1>1, <1>3
      <4>2. CASE trail'[a] = trail[a]
        BY <1>3, <2>1, <3>2, <4>1, <4>2 DEF TrailIsTruth, Outcomes
      <4>3. CASE trail'[a] = Append(trail[a], "requested")
        <5>1. "requested" \in Words /\ trail[a] \in Seq(Words)
          BY <1>1
        <5>2. trail'[a] # <<>> /\ trail'[a][Len(trail'[a])] = "requested"
          <6> HIDE DEF Words
          <6> QED BY <4>3, <5>1, AppendTrail
        <5> QED BY <3>2, <4>1, <5>2 DEF Outcomes
      <4> QED BY <1>4, <4>2, <4>3
    <3> QED BY <3>1, <3>2
  <2>3. AnswerIsRecorded'
    <3> SUFFICES ASSUME NEW c \in Calls, call[c].pc = "done", call[c].via = "chat"
                 PROVE  \E i \in 1 .. Len(trail'[call[c].on]) :
                          trail'[call[c].on][i] = call[c].outcome
      BY <1>2 DEF AnswerIsRecorded
    <3>1. PICK i \in 1 .. Len(trail[call[c].on]) : trail[call[c].on][i] = call[c].outcome
      BY <2>1 DEF AnswerIsRecorded
    <3>2. call[c].on \in Requests
      BY <1>1 DEF CallType
    <3>3. i \in 1 .. Len(trail'[call[c].on]) /\ trail'[call[c].on][i] = trail[call[c].on][i]
      BY <1>8, <3>2
    <3> QED BY <3>1, <3>3
  <2> QED BY <2>2, <2>3
<1> QED BY <1>5, <1>6, <1>7, <1>9 DEF IInv

(* Time passes, an administrator looks, another request appends its row.   *)
LEMMA AsideInv ==
  ASSUME IInv, (\E a \in Requests : PassExpiry(a)) \/ List \/ OtherRecord
  PROVE  IInv'
<1>1. call \in [Calls -> CallType]
  BY DEF IInv, TypeOK
<1>2. /\ UNCHANGED <<status, trail, silent>> /\ call' \in [Calls -> CallType]
      /\ \A c \in Calls : /\ call'[c].pc = call[c].pc /\ call'[c].via = call[c].via
                          /\ call'[c].on = call[c].on /\ call'[c].outcome = call[c].outcome
                          /\ call'[c].stale = call[c].stale
  BY <1>1, SupersededSame DEF PassExpiry, List, OtherRecord
<1>3. overdue' \in [Requests -> BOOLEAN]
  BY DEF IInv, TypeOK, PassExpiry, List, OtherRecord
<1>4. listed' \in [Requests -> {"none", "pending"} \cup Terminal]
  BY DEF IInv, TypeOK, PassExpiry, List, OtherRecord, Terminal
<1>5. TypeOK'
  BY <1>2, <1>3, <1>4 DEF IInv, TypeOK
<1>6. WriteIsMcp' /\ Fresh'
  BY <1>2 DEF IInv, WriteIsMcp, Fresh, Running
<1>7. TrailIsTruth' /\ AnswerIsRecorded'
  BY <1>2 DEF IInv, TrailIsTruth, AnswerIsRecorded
<1> QED BY <1>5, <1>6, <1>7 DEF IInv

(* A step that changes nothing.                                            *)
LEMMA StutterInv ==
  ASSUME IInv, UNCHANGED vars
  PROVE  IInv'
BY DEF vars, IInv, TypeOK, WriteIsMcp, Fresh, Running, TrailIsTruth, AnswerIsRecorded

(* Every step keeps the invariant.                                         *)
LEMMA StepInv == IInv /\ [Next]_vars => IInv'
<1> SUFFICES ASSUME IInv, [Next]_vars PROVE IInv'
  OBVIOUS
<1>1. CASE \E a \in Requests : RequireApproval(a) \/ RequestElevation(a)
  BY <1>1, RequestInv
<1>2. CASE \E c \in Calls, a \in Requests, via \in Channels, outcome \in Outcomes :
             Review(c, via, a, outcome)
  BY <1>2, ReviewInv
<1>3. CASE \E c \in Calls : Expire(c)
  BY <1>3, ExpireInv
<1>4. CASE \E c \in Calls : Record(c)
  BY <1>4, RecordInv
<1>5. CASE \E c \in Calls : Write(c)
  BY <1>5, WriteInv
<1>6. CASE \E c \in Calls : ReadTip(c) \/ RecordConflict(c) \/ Fail(c)
  BY <1>6, QuietInv
<1>7. CASE (\E a \in Requests : PassExpiry(a)) \/ List \/ OtherRecord
  BY <1>7, AsideInv
<1>8. CASE UNCHANGED vars
  BY <1>8, StutterInv
<1> QED BY <1>1, <1>2, <1>3, <1>4, <1>5, <1>6, <1>7, <1>8 DEF Next, CallStep

-----------------------------------------------------------------------------
(* The strengthened invariant holds in every behaviour.                    *)
THEOREM Invariance == Spec => []IInv
BY InitInv, StepInv, PTL DEF Spec

(* The variables keep their types.                                         *)
THEOREM TypeCorrect == Spec => []TypeOK
<1>1. IInv => TypeOK
  BY DEF IInv
<1> QED BY <1>1, Invariance, PTL

(* Unless an MCP reviewer had the last word, the outcome in the database   *)
(* and the last word of the audit chain agree (integrations.py,            *)
(* _resolve_approval).                                                     *)
THEOREM TrailKeepsUp == Spec => []TrailIsTruth
<1>1. IInv => TrailIsTruth
  BY DEF IInv
<1> QED BY <1>1, Invariance, PTL

(* An outcome that was confirmed to a reviewer in chat is in the chain     *)
(* (integrations.py, _resolve_approval).                                   *)
THEOREM AnswersRecorded == Spec => []AnswerIsRecorded
<1>1. IInv => AnswerIsRecorded
  BY DEF IInv
<1> QED BY <1>1, Invariance, PTL

(* Whatever the channels, a request is resolved a second time only by a    *)
(* call that overlaps the first (the 409 of _resolve_approval and of the   *)
(* MCP tools).                                                             *)
THEOREM OverlapNeeded == Spec => SecondNeedsOverlap
<1> DEFINE Overlap == \A a \in Requests :
             status[a] \in Terminal /\ status'[a] # status[a]
             => \E c \in Calls : /\ Running(c) /\ ~Running(c)'
                                 /\ call[c].on = a /\ call[c].stale
<1>1. ASSUME IInv, Next PROVE Overlap
  <2> SUFFICES ASSUME NEW a \in Requests, status[a] \in Terminal, status'[a] # status[a]
               PROVE  \E c \in Calls : /\ Running(c) /\ ~Running(c)'
                                       /\ call[c].on = a /\ call[c].stale
    OBVIOUS
  <2>1. status[a] \notin {"none", "pending"} /\ status \in [Requests -> {"none", "pending"} \cup Terminal]
    BY <1>1 DEF Terminal, Outcomes, IInv, TypeOK
  <2>2. PICK c \in Calls : Expire(c) \/ Record(c) \/ Write(c)
    BY <1>1, <2>1 DEF Next, CallStep, RequireApproval, RequestElevation, PassExpiry,
       Review, ReadTip, RecordConflict, Fail, List, OtherRecord
  <2>3. Running(c) /\ ~Running(c)' /\ call[c].on = a
    <3>1. call \in [Calls -> CallType]
      BY <1>1 DEF IInv, TypeOK
    <3>2. PICK to, calls : /\ Resolve(c, to, calls)
                           /\ calls[c].pc \in {"done", "failed"}
      <4>1. CASE Expire(c)
        <5>1. [call EXCEPT ![c].pc = "failed"][c].pc = "failed"
          BY <3>1 DEF CallType
        <5>2. Resolve(c, "expired", [call EXCEPT ![c].pc = "failed"])
          BY <4>1 DEF Expire
        <5> QED BY <5>1, <5>2
      <4>2. CASE Record(c)
        <5>1. Superseded(call) \in [Calls -> CallType]
          BY <3>1, SupersededSame
        <5>2. [Superseded(call) EXCEPT ![c].pc = "done"][c].pc = "done"
          BY <5>1 DEF CallType
        <5> QED BY <4>2, <5>2 DEF Record
      <4>3. CASE Write(c)
        <5>1. [call EXCEPT ![c].pc = "done"][c].pc = "done"
          BY <3>1 DEF CallType
        <5>2. Resolve(c, call[c].outcome, [call EXCEPT ![c].pc = "done"])
          BY <4>3 DEF Write
        <5> QED BY <5>1, <5>2
      <4> QED BY <2>2, <4>1, <4>2, <4>3
    <3>3. call'[c] = calls[c] /\ status' = [status EXCEPT ![call[c].on] = to]
      BY <3>2 DEF Resolve
    <3>4. Running(c)
      BY <2>2 DEF Expire, Record, Write, Running
    <3> QED BY <2>1, <3>2, <3>3, <3>4 DEF Running
  <2>4. call[c].stale
    BY <1>1, <2>1, <2>3 DEF IInv, Fresh
  <2> QED BY <2>3, <2>4
<1>2. UNCHANGED vars => Overlap
  BY DEF vars
<1>3. IInv /\ [Next]_vars => [Overlap]_vars
  BY <1>1, <1>2
<1>4. Spec => [][Overlap]_vars
  BY <1>3, Invariance, PTL DEF Spec
<1> QED BY <1>4 DEF SecondNeedsOverlap

-----------------------------------------------------------------------------
(* How people are told (Notifications).  What a request starts from: the   *)
(* row, or an empty one.                                                   *)
Stored == IF row = None THEN N!Blank ELSE row

(* What a request of an administrator may change.                          *)
IsChange(set) ==
  /\ DOMAIN set \subseteq N!AllColumns
  /\ \A f \in DOMAIN set : set[f] \in N!Values /\ (f \in N!Switches => set[f] \in BOOLEAN)

RequestType(q) ==
  /\ q = [pc |-> q.pc, loaded |-> q.loaded, fresh |-> q.fresh, set |-> q.set, kind |-> q.kind,
          alone |-> q.alone]
  /\ q.pc \in {"idle", "insert", "commit"}
  /\ q.fresh \in BOOLEAN
  /\ IsChange(q.set)
  /\ q.alone \subseteq N!Touched(q.set)
  /\ q.pc = "idle" => q.set = <<>> /\ ~q.fresh
  /\ q.pc # "idle" /\ q.kind = "delete" => \E s \in N!Sections : q.set = N!Cleared(s)

(* The requests of the administrators: the second of two inserts waits, so *)
(* one at most has inserted the row; a request that is alone on a section  *)
(* has loaded what is stored there; and what stands, stands because no     *)
(* request is about to change it.                                          *)
RowsInv ==
  /\ row \in N!Rows \cup {None}
  /\ DOMAIN request = Admins /\ \A c \in Admins : RequestType(request[c])
  /\ changes \in 0 .. MaxChanges

InsertInv ==
  /\ \A c \in Admins : request[c].fresh => row = None /\ request[c].pc = "commit"
  /\ \A c \in Admins : request[c].pc = "commit" /\ ~request[c].fresh => row # None
  /\ \A c, d \in Admins : request[c].fresh /\ request[d].fresh => c = d

AloneInv ==
  \A c \in Admins : \A s \in request[c].alone :
    /\ \A d \in Admins \ {c} : s \notin N!Touched(request[d].set)
    /\ \A f \in N!Columns(s) : request[c].loaded[f] = Stored[f]

StandsInv ==
  /\ DOMAIN stands = N!Sections
  /\ \A s \in N!Sections :
       /\ DOMAIN stands[s] \subseteq N!Columns(s)
       /\ \A f \in DOMAIN stands[s] :
            /\ row # None /\ row[f] = stands[s][f]
            /\ \A c \in Admins : s \notin N!Touched(request[c].set)

(* The tasks: a task in progress has a row that there was, what it posted  *)
(* is about a request that was made, and a channel is silent only if it    *)
(* has nobody to tell, or failed.                                          *)
DispatchInv ==
  /\ DOMAIN dispatch = Announced /\ DOMAIN seen = Announced
  /\ \A a \in Announced :
       /\ dispatch[a] = [pc |-> dispatch[a].pc, row |-> dispatch[a].row,
                         todo |-> dispatch[a].todo, failed |-> dispatch[a].failed]
       /\ dispatch[a].pc \in {"none", "new", "post"}
       /\ dispatch[a].row \in N!Rows \cup {None}
       /\ dispatch[a].todo \cap dispatch[a].failed = {}
       /\ dispatch[a].todo # {} => dispatch[a].pc = "post" /\ dispatch[a].row \in seen[a]
  /\ \A p \in posts : p.about = "test" \/ (p.about \in Announced /\ dispatch[p.about].pc = "post")

PostedInv ==
  \A a \in Announced : \A ch \in N!Sections :
    (/\ dispatch[a].pc = "post" /\ ch \notin dispatch[a].todo \cup dispatch[a].failed
     /\ N!Sender(ch, dispatch[a].row) \ {None} # {})
    => \E p \in posts : p.about = a /\ p.channel = ch

SettingsPart == RowsInv /\ InsertInv /\ AloneInv /\ StandsInv
TasksPart == DispatchInv /\ N!GlobalOnlyWithout /\ PostedInv

NotifyInv == part = "notify" => SettingsPart /\ TasksPart

-----------------------------------------------------------------------------
(* Each column belongs to one section.                                     *)
LEMMA ColumnsOnce ==
  /\ \A s \in N!Sections : N!Columns(s) \subseteq N!AllColumns /\ N!Columns(s) # {}
  /\ \A s, t \in N!Sections : \A f \in N!Columns(s) : f \in N!Columns(t) => s = t
<1>1. /\ N!Columns("slack") = {"slack_token", "slack_url", "slack_channel", "slack_on"}
      /\ N!Columns("teams") = {"teams_url", "teams_on"}
      /\ N!Columns("pagerduty") = {"pd_key", "pd_on"}
      /\ N!Columns("email") = {"mail_to", "mail_on"}
  BY DEF N!Columns
<1>2. \A s \in N!Sections : N!Columns(s) \subseteq N!AllColumns
  BY DEF N!AllColumns
<1>3. N!Sections = {"slack", "teams", "pagerduty", "email"}
  BY DEF N!Sections
<1> QED BY <1>1, <1>2, <1>3

(* The columns by name.                                                    *)
LEMMA ColumnNames ==
  N!AllColumns = {"slack_token", "slack_url", "slack_channel", "slack_on", "teams_url",
                  "teams_on", "pd_key", "pd_on", "mail_to", "mail_on"}
<1>1. /\ N!Columns("slack") = {"slack_token", "slack_url", "slack_channel", "slack_on"}
      /\ N!Columns("teams") = {"teams_url", "teams_on"}
      /\ N!Columns("pagerduty") = {"pd_key", "pd_on"}
      /\ N!Columns("email") = {"mail_to", "mail_on"}
  BY DEF N!Columns
<1>2. N!AllColumns = N!Columns("slack") \cup N!Columns("teams") \cup N!Columns("pagerduty")
                       \cup N!Columns("email")
  BY DEF N!AllColumns, N!Sections
<1> QED BY <1>1, <1>2

(* What a column may hold.                                                 *)
LEMMA ValuesOfColumns ==
  /\ None \in N!Values /\ FALSE \in N!Values
  /\ \A b \in SavedBodies : \A f \in DOMAIN b : b[f] \in N!Values
  /\ \A f : N!Empty(f) \in N!Values /\ (f \in N!Switches => N!Empty(f) \in BOOLEAN)
<1> DEFINE U == UNION {{b[f] : f \in DOMAIN b} : b \in SavedBodies}
<1>1. N!Values = {None, FALSE} \cup U
  BY DEF N!Values
<1>2. \A b \in SavedBodies : \A f \in DOMAIN b : b[f] \in U
  <2> SUFFICES ASSUME NEW b \in SavedBodies, NEW f \in DOMAIN b PROVE b[f] \in U
    OBVIOUS
  <2>1. b[f] \in {b[g] : g \in DOMAIN b}
    OBVIOUS
  <2> QED BY <2>1
<1> HIDE DEF U
<1>3. \A f : N!Empty(f) \in {None, FALSE} /\ (f \in N!Switches => N!Empty(f) \in BOOLEAN)
  BY DEF N!Empty
<1> QED BY <1>1, <1>2, <1>3

(* A change that touches nothing, one that clears a section, and one that  *)
(* saves a body.                                                           *)
LEMMA TouchedBy ==
  /\ \A set, s : s \in N!Touched(set)
       <=> s \in N!Sections /\ \E f \in DOMAIN set : f \in N!Columns(s)
  /\ N!Touched(<<>>) = {} /\ IsChange(<<>>)
  /\ \A s \in N!Sections : N!Touched(N!Cleared(s)) = {s} /\ IsChange(N!Cleared(s))
<1>1. \A set, s : s \in N!Touched(set)
        <=> s \in N!Sections /\ \E f \in DOMAIN set : f \in N!Columns(s)
  BY DEF N!Touched
<1>2. N!Touched(<<>>) = {} /\ IsChange(<<>>)
  BY DEF N!Touched, IsChange
<1>3. ASSUME NEW s \in N!Sections
      PROVE  N!Touched(N!Cleared(s)) = {s} /\ IsChange(N!Cleared(s))
  <2>1. /\ DOMAIN N!Cleared(s) = N!Columns(s)
        /\ \A f \in N!Columns(s) : N!Cleared(s)[f] = N!Empty(f)
    BY DEF N!Cleared
  <2>2. IsChange(N!Cleared(s))
    BY <2>1, ColumnsOnce, ValuesOfColumns DEF IsChange
  <2>3. \A t : t \in N!Touched(N!Cleared(s)) <=> t = s
    BY <1>1, <2>1, ColumnsOnce
  <2> QED BY <2>2, <2>3
<1> QED BY <1>1, <1>2, <1>3

(* What a body assigns is a change of the columns.                         *)
LEMMA AssignedIsChange ==
  ASSUME N!NotificationsAssumption, NEW b \in SavedBodies
  PROVE  IsChange(N!Assigned(b))
<1> DEFINE set == N!Assigned(b)
<1>1. DOMAIN b \subseteq N!AllColumns /\ \A f \in DOMAIN b \cap N!Switches : b[f] \in BOOLEAN
  BY DEF N!NotificationsAssumption
<1>2. /\ DOMAIN set \subseteq DOMAIN b
      /\ \A f \in DOMAIN set : set[f] = b[f]
  BY DEF N!Assigned
<1>3. \A f \in DOMAIN b : b[f] \in N!Values
  BY ValuesOfColumns
<1> HIDE DEF set
<1>4. IsChange(set)
  BY <1>1, <1>2, <1>3 DEF IsChange
<1> QED BY <1>4 DEF set

(* A row that is made by a request starts empty.                           *)
LEMMA BlankIsRow == N!Blank \in N!Rows /\ \A f \in N!AllColumns : N!Blank[f] = N!Empty(f)
<1>1. N!Blank = [f \in N!AllColumns |-> N!Empty(f)]
  BY DEF N!Blank
<1>2. \A f \in N!Switches : f \in N!AllColumns
  BY ColumnNames DEF N!Switches
<1> QED BY <1>1, <1>2, ValuesOfColumns DEF N!Rows

(* A request that another one disturbs stays what it is.                   *)
LEMMA Disturbed ==
  ASSUME NEW q, RequestType(q), NEW T, NEW r, r = [q EXCEPT !.alone = @ \ T]
  PROVE  /\ r.pc = q.pc /\ r.loaded = q.loaded /\ r.fresh = q.fresh /\ r.set = q.set
         /\ r.kind = q.kind /\ r.alone = q.alone \ T /\ RequestType(r)
<1>1. q = [pc |-> q.pc, loaded |-> q.loaded, fresh |-> q.fresh, set |-> q.set, kind |-> q.kind,
           alone |-> q.alone]
  BY DEF RequestType
<1>2. r = [pc |-> q.pc, loaded |-> q.loaded, fresh |-> q.fresh, set |-> q.set, kind |-> q.kind,
           alone |-> q.alone \ T]
  BY <1>1
<1>3. /\ r.pc = q.pc /\ r.loaded = q.loaded /\ r.fresh = q.fresh /\ r.set = q.set
      /\ r.kind = q.kind /\ r.alone = q.alone \ T
  BY <1>2
<1>4. r = [pc |-> r.pc, loaded |-> r.loaded, fresh |-> r.fresh, set |-> r.set, kind |-> r.kind,
           alone |-> r.alone]
  BY <1>2
<1> QED BY <1>3, <1>4 DEF RequestType

(* What an UPDATE leaves in the row.                                       *)
LEMMA MergedRow ==
  ASSUME N!NotificationsAssumption, NEW stored \in N!Rows, NEW loaded, NEW set, IsChange(set)
  PROVE  /\ N!Merged(stored, loaded, set) \in N!Rows
         /\ N!Merged(stored, loaded, set) # None
         /\ \A f \in N!AllColumns :
              /\ f \notin DOMAIN set => N!Merged(stored, loaded, set)[f] = stored[f]
              /\ f \in DOMAIN set /\ loaded[f] = stored[f]
                   => N!Merged(stored, loaded, set)[f] = set[f]
<1> DEFINE m == N!Merged(stored, loaded, set)
<1>1. m = [f \in N!AllColumns |->
            IF f \in DOMAIN set /\ (set[f] # loaded[f] \/ (f \in N!Secrets /\ set[f] # None))
            THEN set[f] ELSE stored[f]]
  BY DEF N!Merged
<1> HIDE DEF m
<1>2. stored \in [N!AllColumns -> N!Values] /\ \A f \in N!Switches : stored[f] \in BOOLEAN
  BY DEF N!Rows
<1>3. \A f \in N!AllColumns : m[f] = stored[f] \/ (f \in DOMAIN set /\ m[f] = set[f])
  BY <1>1
<1>4. m \in [N!AllColumns -> N!Values]
  BY <1>1, <1>2, <1>3 DEF IsChange
<1>5. \A f \in N!Switches : f \in N!AllColumns
  BY ColumnNames DEF N!Switches
<1>6. \A f \in N!Switches : m[f] \in BOOLEAN
  BY <1>2, <1>3, <1>5 DEF IsChange
<1>7. m \in N!Rows
  BY <1>4, <1>6 DEF N!Rows
<1>8. m # None
  BY <1>7 DEF N!NotificationsAssumption
<1>9. \A f \in N!AllColumns :
        /\ f \notin DOMAIN set => m[f] = stored[f]
        /\ f \in DOMAIN set /\ loaded[f] = stored[f] => m[f] = set[f]
  BY <1>1
<1> QED BY <1>7, <1>8, <1>9 DEF m

(* The row, or the empty one, is a row.                                    *)
LEMMA StoredIsRow ==
  ASSUME N!NotificationsAssumption, RowsInv
  PROVE  Stored \in N!Rows
BY BlankIsRow DEF Stored, RowsInv

(* An administrator with no request in flight.                             *)
LEMMA IdleIsRequest ==
  /\ N!Idle.pc = "idle" /\ ~N!Idle.fresh /\ N!Idle.set = <<>> /\ N!Idle.alone = {}
  /\ RequestType(N!Idle)
<1> DEFINE q == N!Idle
<1>1. q = [pc |-> "idle", loaded |-> None, fresh |-> FALSE, set |-> <<>>, kind |-> None, alone |-> {}]
  BY DEF N!Idle
<1> HIDE DEF q
<1>2. q.pc = "idle" /\ q.fresh = FALSE /\ q.set = <<>> /\ q.alone = {} /\ q.loaded = None /\ q.kind = None
  BY <1>1
<1>3. q = [pc |-> q.pc, loaded |-> q.loaded, fresh |-> q.fresh, set |-> q.set, kind |-> q.kind,
           alone |-> q.alone]
  BY <1>1, <1>2
<1>4. RequestType(q)
  BY <1>2, <1>3, TouchedBy DEF RequestType
<1> QED BY <1>2, <1>4 DEF q

(* A request begins: it is alone where no other is, and disturbs those     *)
(* that were.                                                              *)
LEMMA BeginKeeps ==
  ASSUME N!NotificationsAssumption, SettingsPart, NEW c \in Admins, NEW kind, NEW set,
         IsChange(set), kind = "delete" => \E s \in N!Sections : set = N!Cleared(s),
         N!Begin(c, kind, set)
  PROVE  SettingsPart'
<1> DEFINE q == [pc |-> IF row = None THEN "insert" ELSE "commit",
                 loaded |-> Stored, fresh |-> FALSE, set |-> set, kind |-> kind,
                 alone |-> N!Touched(set) \ N!Busy(c)]
<1>1. /\ request[c].pc = "idle" /\ changes < MaxChanges /\ changes' = changes + 1
      /\ row' = row
      /\ stands' = [s \in N!Sections |-> IF s \in N!Touched(set) THEN <<>> ELSE stands[s]]
      /\ request' = [d \in Admins |-> IF d # c THEN N!Disturb(c, set)[d] ELSE q]
  BY DEF N!Begin, Stored
<1>2. \A d \in Admins \ {c} : request'[d] = [request[d] EXCEPT !.alone = @ \ N!Touched(set)]
  BY <1>1 DEF N!Disturb
<1>3. request'[c] = q /\ DOMAIN request' = Admins
  BY <1>1
<1>4. \A d \in Admins : RequestType(request[d])
  BY DEF SettingsPart, RowsInv
<1>5. \A d \in Admins \ {c} :
        /\ request'[d].pc = request[d].pc /\ request'[d].loaded = request[d].loaded
        /\ request'[d].fresh = request[d].fresh /\ request'[d].set = request[d].set
        /\ request'[d].kind = request[d].kind
        /\ request'[d].alone = request[d].alone \ N!Touched(set)
        /\ RequestType(request'[d])
  <2> SUFFICES ASSUME NEW d \in Admins \ {c}
               PROVE  /\ request'[d].pc = request[d].pc /\ request'[d].loaded = request[d].loaded
                      /\ request'[d].fresh = request[d].fresh /\ request'[d].set = request[d].set
                      /\ request'[d].kind = request[d].kind
                      /\ request'[d].alone = request[d].alone \ N!Touched(set)
                      /\ RequestType(request'[d])
    OBVIOUS
  <2> DEFINE p == request[d]
             r == request'[d]
             T == N!Touched(set)
  <2>1. RequestType(p) /\ r = [p EXCEPT !.alone = @ \ T]
    BY <1>2, <1>4
  <2> HIDE DEF p, r, T
  <2>2. /\ r.pc = p.pc /\ r.loaded = p.loaded /\ r.fresh = p.fresh /\ r.set = p.set
        /\ r.kind = p.kind /\ r.alone = p.alone \ T /\ RequestType(r)
    BY <2>1, Disturbed
  <2> QED BY <2>2 DEF p, r, T
<1>6. /\ q.pc \in {"insert", "commit"} /\ q.loaded = Stored /\ q.fresh = FALSE /\ q.set = set
      /\ q.kind = kind /\ q.alone = N!Touched(set) \ N!Busy(c)
      /\ q.pc = "commit" => row # None
      /\ RequestType(q)
  BY DEF RequestType
<1> HIDE DEF q
<1>7. RowsInv'
  <2>1. \A d \in Admins : RequestType(request'[d])
    BY <1>3, <1>5, <1>6
  <2>2. changes' \in 0 .. MaxChanges
    BY <1>1 DEF SettingsPart, RowsInv, N!NotificationsAssumption
  <2> QED BY <1>1, <1>3, <2>1, <2>2 DEF SettingsPart, RowsInv
<1>8. InsertInv'
  BY <1>1, <1>3, <1>5, <1>6 DEF SettingsPart, InsertInv
<1>9. AloneInv'
  <2>1. Stored' = Stored
    BY <1>1 DEF Stored
  <2>2. ASSUME NEW d \in Admins, NEW s \in request'[d].alone
        PROVE  /\ \A e \in Admins \ {d} : s \notin N!Touched(request'[e].set)
               /\ \A f \in N!Columns(s) : request'[d].loaded[f] = Stored[f]
    <3>1. CASE d = c
      <4>1. s \notin N!Busy(c)
        BY <1>3, <1>6, <2>2, <3>1
      <4>2. \A e \in Admins \ {c} : s \notin N!Touched(request[e].set)
        BY <4>1 DEF N!Busy
      <4> QED BY <1>3, <1>5, <1>6, <3>1, <4>2
    <3>2. CASE d # c
      <4>1. s \in request[d].alone /\ s \notin N!Touched(set)
        BY <1>5, <2>2, <3>2
      <4>2. /\ \A e \in Admins \ {d} : s \notin N!Touched(request[e].set)
            /\ \A f \in N!Columns(s) : request[d].loaded[f] = Stored[f]
        BY <4>1 DEF SettingsPart, AloneInv
      <4> QED BY <1>3, <1>5, <1>6, <3>2, <4>1, <4>2
    <3> QED BY <3>1, <3>2
  <2> QED BY <2>1, <2>2 DEF AloneInv
<1>10. StandsInv'
  <2>1. ASSUME NEW s \in N!Sections
        PROVE  /\ DOMAIN stands'[s] \subseteq N!Columns(s)
               /\ \A f \in DOMAIN stands'[s] :
                    /\ row # None /\ row[f] = stands'[s][f]
                    /\ \A d \in Admins : s \notin N!Touched(request'[d].set)
    <3>1. CASE s \in N!Touched(set)
      BY <1>1, <3>1
    <3>2. CASE s \notin N!Touched(set)
      <4>1. stands'[s] = stands[s]
        BY <1>1, <3>2
      <4> QED BY <1>3, <1>5, <1>6, <3>2, <4>1 DEF SettingsPart, StandsInv
    <3> QED BY <3>1, <3>2
  <2> QED BY <1>1, <2>1 DEF StandsInv
<1> QED BY <1>7, <1>8, <1>9, <1>10 DEF SettingsPart

(* The row is inserted, or the second insert is refused.                   *)
LEMMA SaveInsertKeeps ==
  ASSUME N!NotificationsAssumption, SettingsPart, NEW c \in Admins, N!SaveInsert(c)
  PROVE  SettingsPart'
<1>1. /\ request[c].pc = "insert" /\ \A d \in Admins \ {c} : ~request[d].fresh
      /\ row' = row /\ changes' = changes /\ stands' = stands
      /\ request' = [request EXCEPT ![c] = IF row = None
                       THEN [request[c] EXCEPT !.pc = "commit", !.fresh = TRUE] ELSE N!Idle]
  BY DEF N!SaveInsert
<1>2. DOMAIN request = Admins /\ \A d \in Admins : RequestType(request[d])
  BY DEF SettingsPart, RowsInv
<1>3. DOMAIN request' = Admins /\ \A d \in Admins \ {c} : request'[d] = request[d]
  BY <1>1, <1>2
<1>4. CASE row = None
  <2>1. request'[c] = [request[c] EXCEPT !.pc = "commit", !.fresh = TRUE]
    BY <1>1, <1>2, <1>4
  <2>2. /\ request'[c].pc = "commit" /\ request'[c].fresh = TRUE
        /\ request'[c].loaded = request[c].loaded /\ request'[c].set = request[c].set
        /\ request'[c].alone = request[c].alone /\ RequestType(request'[c])
    <3> DEFINE q == request[c]
               r == request'[c]
    <3>1. RequestType(q) /\ q.pc = "insert" /\ r = [q EXCEPT !.pc = "commit", !.fresh = TRUE]
      BY <1>1, <1>2, <2>1
    <3> HIDE DEF q, r
    <3>2. q = [pc |-> q.pc, loaded |-> q.loaded, fresh |-> q.fresh, set |-> q.set,
               kind |-> q.kind, alone |-> q.alone]
      BY <3>1 DEF RequestType
    <3>3. r = [pc |-> "commit", loaded |-> q.loaded, fresh |-> TRUE, set |-> q.set,
               kind |-> q.kind, alone |-> q.alone]
      BY <3>1, <3>2
    <3>4. /\ r.pc = "commit" /\ r.fresh = TRUE /\ r.loaded = q.loaded /\ r.set = q.set
          /\ r.alone = q.alone /\ r.kind = q.kind
      BY <3>3
    <3>5. r = [pc |-> r.pc, loaded |-> r.loaded, fresh |-> r.fresh, set |-> r.set,
               kind |-> r.kind, alone |-> r.alone]
      BY <3>3
    <3>6. RequestType(r)
      BY <3>1, <3>4, <3>5 DEF RequestType
    <3> QED BY <3>4, <3>6 DEF q, r
  <2>3. RowsInv' /\ InsertInv'
    BY <1>1, <1>3, <1>4, <2>2 DEF SettingsPart, RowsInv, InsertInv
  <2>4. AloneInv' /\ StandsInv'
    BY <1>1, <1>3, <2>2 DEF SettingsPart, AloneInv, StandsInv, Stored
  <2> QED BY <2>3, <2>4 DEF SettingsPart
<1>5. CASE row # None
  <2>1. request'[c] = N!Idle
    BY <1>1, <1>2, <1>5
  <2>2. /\ request'[c].pc = "idle" /\ ~request'[c].fresh /\ request'[c].set = <<>>
        /\ request'[c].alone = {} /\ RequestType(request'[c])
    BY <2>1, IdleIsRequest
  <2>3. RowsInv' /\ InsertInv'
    BY <1>1, <1>3, <1>5, <2>2 DEF SettingsPart, RowsInv, InsertInv
  <2>4. AloneInv' /\ StandsInv'
    BY <1>1, <1>3, <2>2, TouchedBy DEF SettingsPart, AloneInv, StandsInv, Stored
  <2> QED BY <2>3, <2>4 DEF SettingsPart
<1> QED BY <1>4, <1>5

(* A commit changes the columns of its request alone: what it finds        *)
(* nobody else about to change is as it saved it.                          *)
LEMMA CommitKeeps ==
  ASSUME N!NotificationsAssumption, SettingsPart, NEW c \in Admins, N!Commit(c)
  PROVE  SettingsPart' /\ row' \in N!Rows
<1> DEFINE k == request[c]
           m == N!Merged(Stored, k.loaded, k.set)
<1>1. /\ k.pc = "commit" /\ changes' = changes
      /\ row' = N!Merged(IF k.fresh THEN N!Blank ELSE row, k.loaded, k.set)
      /\ request' = [request EXCEPT ![c] = N!Idle]
      /\ stands' = [s \in N!Sections |->
           IF s \notin k.alone THEN stands[s]
           ELSE IF k.kind = "delete" THEN [f \in N!Columns(s) |-> N!Empty(f)]
           ELSE [f \in N!Columns(s) \cap DOMAIN k.set |-> k.set[f]]]
  BY DEF N!Commit
<1>2. DOMAIN request = Admins /\ \A d \in Admins : RequestType(request[d])
  BY DEF SettingsPart, RowsInv
<1>3. /\ request'[c] = N!Idle /\ \A d \in Admins \ {c} : request'[d] = request[d]
      /\ DOMAIN request' = Admins
  BY <1>1, <1>2
<1>4. IsChange(k.set) /\ k.alone \subseteq N!Touched(k.set)
      /\ (k.kind = "delete" => \E s \in N!Sections : k.set = N!Cleared(s))
  BY <1>1, <1>2 DEF RequestType
<1>5. row' = m
  <2>1. (IF k.fresh THEN N!Blank ELSE row) = Stored
    BY <1>1 DEF SettingsPart, InsertInv, Stored
  <2> QED BY <1>1, <2>1
<1>6. Stored \in N!Rows
  BY StoredIsRow DEF SettingsPart
<1>7. /\ row' \in N!Rows /\ row' # None
      /\ \A f \in N!AllColumns :
           /\ f \notin DOMAIN k.set => row'[f] = Stored[f]
           /\ f \in DOMAIN k.set /\ k.loaded[f] = Stored[f] => row'[f] = k.set[f]
  <2> DEFINE S == k.set
             L == k.loaded
  <2>1. IsChange(S) /\ row' = N!Merged(Stored, L, S)
    BY <1>4, <1>5
  <2> HIDE DEF S, L
  <2>2. /\ row' \in N!Rows /\ row' # None
        /\ \A f \in N!AllColumns :
             /\ f \notin DOMAIN S => row'[f] = Stored[f]
             /\ f \in DOMAIN S /\ L[f] = Stored[f] => row'[f] = S[f]
    BY <1>6, <2>1, MergedRow
  <2> QED BY <2>2 DEF S, L
<1>8. Stored' = row'
  BY <1>7 DEF Stored
<1>9. \A s \in N!Sections : s \notin N!Touched(k.set) =>
        \A f \in N!Columns(s) : row'[f] = Stored[f]
  BY <1>7, ColumnsOnce, TouchedBy
<1> HIDE DEF m
<1>10. RowsInv'
  <2>1. \A d \in Admins : RequestType(request'[d])
    BY <1>2, <1>3, IdleIsRequest
  <2> QED BY <1>1, <1>3, <1>7, <2>1 DEF SettingsPart, RowsInv
<1>11. InsertInv'
  <2>1. \A d \in Admins : ~request'[d].fresh
    <3>1. ASSUME NEW d \in Admins \ {c}, request[d].fresh PROVE FALSE
      <4>1. row = None /\ ~request[c].fresh
        BY <3>1 DEF SettingsPart, InsertInv
      <4> QED BY <1>1, <4>1 DEF SettingsPart, InsertInv
    <3> QED BY <1>3, <3>1, IdleIsRequest
  <2> QED BY <1>7, <2>1 DEF InsertInv
<1>12. AloneInv'
  <2>1. ASSUME NEW d \in Admins, NEW s \in request'[d].alone
        PROVE  /\ \A e \in Admins \ {d} : s \notin N!Touched(request'[e].set)
               /\ \A f \in N!Columns(s) : request'[d].loaded[f] = row'[f]
    <3>1. d # c /\ s \in request[d].alone /\ request'[d] = request[d]
      BY <1>3, <2>1, IdleIsRequest
    <3>2. /\ \A e \in Admins \ {d} : s \notin N!Touched(request[e].set)
          /\ \A f \in N!Columns(s) : request[d].loaded[f] = Stored[f]
      BY <3>1 DEF SettingsPart, AloneInv
    <3>3. s \in N!Sections /\ s \notin N!Touched(k.set)
      BY <1>2, <3>1, <3>2, TouchedBy DEF RequestType
    <3>4. \A e \in Admins \ {d} : s \notin N!Touched(request'[e].set)
      BY <1>3, <3>2, IdleIsRequest, TouchedBy
    <3> QED BY <1>9, <3>1, <3>2, <3>3, <3>4
  <2> QED BY <1>8, <2>1 DEF AloneInv
<1>13. StandsInv'
  <2>1. ASSUME NEW s \in N!Sections
        PROVE  /\ DOMAIN stands'[s] \subseteq N!Columns(s)
               /\ \A f \in DOMAIN stands'[s] :
                    /\ row'[f] = stands'[s][f]
                    /\ \A d \in Admins : s \notin N!Touched(request'[d].set)
    <3>1. CASE s \in k.alone
      <4>1. /\ DOMAIN stands'[s] = N!Columns(s) \cap DOMAIN k.set
            /\ \A f \in DOMAIN stands'[s] : stands'[s][f] = k.set[f]
        <5>1. CASE k.kind = "delete"
          <6>1. PICK t \in N!Sections : k.set = N!Cleared(t)
            BY <1>4, <5>1
          <6>2. t = s
            BY <1>4, <3>1, <6>1, TouchedBy
          <6>3. stands'[s] = N!Cleared(s)
            BY <1>1, <3>1, <5>1 DEF N!Cleared
          <6>4. DOMAIN N!Cleared(s) = N!Columns(s)
            BY DEF N!Cleared
          <6> QED BY <6>1, <6>2, <6>3, <6>4
        <5>2. CASE k.kind # "delete"
          <6>1. stands'[s] = [f \in N!Columns(s) \cap DOMAIN k.set |-> k.set[f]]
            BY <1>1, <3>1, <5>2
          <6> QED BY <6>1
        <5> QED BY <5>1, <5>2
      <4>2. /\ \A d \in Admins \ {c} : s \notin N!Touched(request[d].set)
            /\ \A f \in N!Columns(s) : k.loaded[f] = Stored[f]
        BY <3>1 DEF SettingsPart, AloneInv
      <4>3. \A d \in Admins : s \notin N!Touched(request'[d].set)
        BY <1>3, <4>2, IdleIsRequest, TouchedBy
      <4> QED BY <1>7, <4>1, <4>2, <4>3, ColumnsOnce
    <3>2. CASE s \notin k.alone
      <4>1. stands'[s] = stands[s] /\ DOMAIN stands[s] \subseteq N!Columns(s)
        BY <1>1, <3>2 DEF SettingsPart, StandsInv
      <4>2. ASSUME NEW f \in DOMAIN stands[s]
            PROVE  /\ row'[f] = stands[s][f]
                   /\ \A d \in Admins : s \notin N!Touched(request'[d].set)
        <5>1. /\ row # None /\ row[f] = stands[s][f]
              /\ \A d \in Admins : s \notin N!Touched(request[d].set)
          BY DEF SettingsPart, StandsInv
        <5>2. row'[f] = row[f]
          BY <1>9, <4>1, <5>1 DEF Stored
        <5> QED BY <1>3, <5>1, <5>2, IdleIsRequest, TouchedBy
      <4> QED BY <4>1, <4>2
    <3> QED BY <3>1, <3>2
  <2>2. DOMAIN stands' = N!Sections
    BY <1>1
  <2> QED BY <1>7, <2>1, <2>2 DEF StandsInv
<1> QED BY <1>7, <1>10, <1>11, <1>12, <1>13 DEF SettingsPart

(* A process that stops leaves the row to whoever comes next.              *)
LEMMA CrashKeeps ==
  ASSUME SettingsPart, N!Crash
  PROVE  SettingsPart'
<1>1. /\ request' = [c \in Admins |-> N!Idle]
      /\ row' = row /\ changes' = changes /\ stands' = stands
  BY DEF N!Crash
<1>2. \A c \in Admins : request'[c] = N!Idle
  BY <1>1
<1>3. RowsInv' /\ InsertInv'
  BY <1>1, <1>2, IdleIsRequest DEF SettingsPart, RowsInv, InsertInv
<1>4. AloneInv' /\ StandsInv'
  BY <1>1, <1>2, IdleIsRequest, TouchedBy DEF SettingsPart, AloneInv, StandsInv
<1> QED BY <1>3, <1>4 DEF SettingsPart

-----------------------------------------------------------------------------
(* The environment's account is used only where the row has none.          *)
LEMMA GlobalSender ==
  ASSUME N!NotificationsAssumption, NEW r \in N!Rows \cup {None}, NEW ch \in N!Sections,
         Global \in N!Sender(ch, r)
  PROVE  \/ r = None
         \/ ch = "slack" /\ ~(r.slack_on /\ r.slack_token # None)
         \/ ch = "teams" /\ ~(r.teams_on /\ r.teams_url # None)
<1> SUFFICES ASSUME r \in N!Rows, r # None
             PROVE  \/ ch = "slack" /\ ~(r.slack_on /\ r.slack_token # None)
                    \/ ch = "teams" /\ ~(r.teams_on /\ r.teams_url # None)
  OBVIOUS
<1>1. \A f \in N!AllColumns : r[f] # Global
  BY DEF N!Rows, N!NotificationsAssumption
<1>2. /\ r.slack_token # Global /\ r.teams_url # Global
      /\ r.mail_to # Global /\ r.pd_key # Global /\ Global # None
  <2>1. Global # None
    BY ValuesOfColumns DEF N!NotificationsAssumption
  <2> QED BY <1>1, <2>1, ColumnNames
<1>3. ch = "slack" \/ ch = "teams" \/ ch = "pagerduty" \/ ch = "email"
  BY DEF N!Sections
<1>4. CASE ch = "slack"
  <2>1. Global \in N!SlackSender(r)
    BY <1>4 DEF N!Sender
  <2> QED BY <1>2, <1>4, <2>1 DEF N!SlackSender
<1>5. CASE ch = "teams"
  <2>1. Global \in N!TeamsSender(r)
    BY <1>5 DEF N!Sender
  <2> QED BY <1>2, <1>5, <2>1 DEF N!TeamsSender
<1>6. CASE ch = "pagerduty"
  <2>1. Global \in N!PagerDutySender(r)
    BY <1>6 DEF N!Sender
  <2> QED BY <1>2, <2>1 DEF N!PagerDutySender
<1>7. CASE ch = "email"
  <2>1. Global \in N!EmailSender(r)
    BY <1>7 DEF N!Sender
  <2> QED BY <1>2, <2>1 DEF N!EmailSender
<1> QED BY <1>3, <1>4, <1>5, <1>6, <1>7

(* Nobody's account changes with the environment as it is.                 *)
LEMMA SenderStays == env' = env => \A ch, r : N!Sender(ch, r)' = N!Sender(ch, r)
<1> SUFFICES ASSUME env' = env, NEW ch, NEW r PROVE N!Sender(ch, r)' = N!Sender(ch, r)
  OBVIOUS
<1>1. /\ N!SlackSender(r)' = N!SlackSender(r) /\ N!TeamsSender(r)' = N!TeamsSender(r)
      /\ N!EmailSender(r)' = N!EmailSender(r) /\ N!PagerDutySender(r)' = N!PagerDutySender(r)
  BY DEF N!SlackSender, N!TeamsSender, N!EmailSender, N!PagerDutySender
<1> QED BY <1>1 DEF N!Sender

(* What justifies a post through the environment's account.                *)
Justified(p, rs) ==
  \E r \in rs :
    \/ r = None
    \/ p.channel = "slack" /\ ~(r.slack_on /\ r.slack_token # None)
    \/ p.channel = "teams" /\ ~(r.teams_on /\ r.teams_url # None)

(* The property in terms of what a task has read.                          *)
LEMMA GlobalIs ==
  N!GlobalOnlyWithout
    <=> \A p \in posts : p.via = Global /\ p.about \in Announced => Justified(p, seen[p.about])
BY DEF N!GlobalOnlyWithout, Justified

(* The tasks stay what they are when rows and posts are only added.        *)
LEMMA TasksGrow ==
  ASSUME N!NotificationsAssumption, TasksPart, dispatch' = dispatch, env' = env,
         posts \subseteq posts', \A p \in posts' \ posts : p.about = "test",
         DOMAIN seen' = Announced,
         \A a \in Announced : dispatch[a].pc # "none" => seen[a] \subseteq seen'[a]
  PROVE  TasksPart'
<1>1. DispatchInv'
  <2>1. \A p \in posts' : p.about = "test" \/ (p.about \in Announced /\ dispatch[p.about].pc = "post")
    BY DEF TasksPart, DispatchInv
  <2>2. \A a \in Announced : dispatch[a].todo # {} => dispatch[a].row \in seen'[a]
    BY DEF TasksPart, DispatchInv
  <2> QED BY <2>1, <2>2 DEF TasksPart, DispatchInv
<1>2. N!GlobalOnlyWithout'
  <2>1. ASSUME NEW p \in posts', p.via = Global, p.about \in Announced
        PROVE  Justified(p, seen'[p.about])
    <3>1. p \in posts
      BY <2>1 DEF N!NotificationsAssumption
    <3>2. Justified(p, seen[p.about]) /\ dispatch[p.about].pc = "post"
      BY <2>1, <3>1, GlobalIs DEF TasksPart, DispatchInv, N!NotificationsAssumption
    <3>3. seen[p.about] \subseteq seen'[p.about]
      BY <2>1, <3>2
    <3> QED BY <3>2, <3>3 DEF Justified
  <2> QED BY <2>1 DEF N!GlobalOnlyWithout, Justified
<1>3. PostedInv'
  BY SenderStays DEF TasksPart, PostedInv
<1> QED BY <1>1, <1>2, <1>3 DEF TasksPart

(* One task takes a step.                                                  *)
LEMMA TaskStep ==
  ASSUME N!NotificationsAssumption, TasksPart, NEW a \in Announced, NEW q, NEW rs, NEW new,
         env' = env,
         dispatch' = [dispatch EXCEPT ![a] = q], DOMAIN seen' = Announced,
         seen'[a] = rs, \A b \in Announced \ {a} : seen'[b] = seen[b],
         posts' = posts \cup new, \A p \in new : p.about = a,
         q = [pc |-> q.pc, row |-> q.row, todo |-> q.todo, failed |-> q.failed],
         q.pc \in {"new", "post"}, q.row \in N!Rows \cup {None}, q.todo \cap q.failed = {},
         q.todo # {} => q.pc = "post" /\ q.row \in rs,
         dispatch[a].pc = "none" \/ seen[a] \subseteq rs,
         q.pc = "post" \/ (dispatch[a].pc # "post" /\ new = {}),
         \A p \in new : p.via = Global => Justified(p, rs),
         q.pc = "post" => \A ch \in N!Sections :
           ch \notin q.todo \cup q.failed /\ N!Sender(ch, q.row) \ {None} # {}
             => \E p \in posts' : p.about = a /\ p.channel = ch
  PROVE  TasksPart'
<1>1. /\ dispatch'[a] = q /\ \A b \in Announced \ {a} : dispatch'[b] = dispatch[b]
      /\ seen'[a] = rs /\ \A b \in Announced \ {a} : seen'[b] = seen[b]
      /\ DOMAIN dispatch' = Announced /\ DOMAIN seen' = Announced
  BY DEF TasksPart, DispatchInv
<1>2. \A p \in posts : p.about = a => dispatch[a].pc = "post"
  BY DEF TasksPart, DispatchInv, N!NotificationsAssumption
<1>3. DispatchInv'
  <2>1. \A p \in posts' : p.about = "test" \/ (p.about \in Announced /\ dispatch'[p.about].pc = "post")
    BY <1>1, <1>2 DEF TasksPart, DispatchInv
  <2> QED BY <1>1, <2>1 DEF TasksPart, DispatchInv
<1>4. N!GlobalOnlyWithout'
  <2>1. ASSUME NEW p \in posts', p.via = Global, p.about \in Announced
        PROVE  Justified(p, seen'[p.about])
    <3>1. CASE p \in new
      BY <1>1, <2>1, <3>1
    <3>2. CASE p \in posts
      <4>1. Justified(p, seen[p.about])
        BY <2>1, <3>2, GlobalIs DEF TasksPart
      <4>2. CASE p.about = a
        <5>1. seen[a] \subseteq rs
          BY <1>2, <3>2, <4>2
        <5> QED BY <1>1, <4>1, <4>2, <5>1 DEF Justified
      <4>3. CASE p.about # a
        BY <1>1, <2>1, <4>1, <4>3
      <4> QED BY <4>2, <4>3
    <3> QED BY <2>1, <3>1, <3>2
  <2> QED BY <2>1 DEF N!GlobalOnlyWithout, Justified
<1>5. PostedInv'
  BY <1>1, SenderStays DEF TasksPart, PostedInv
<1> QED BY <1>3, <1>4, <1>5 DEF TasksPart

(* Each step of a task, and of the process, keeps the tasks' invariant.    *)
LEMMA TasksStep ==
  ASSUME N!NotificationsAssumption, RowsInv, TasksPart, NEW a \in Announced,
         \/ N!Create(a) \/ N!DispatchRead(a)
         \/ \E ch \in N!Sections : N!Post(a, ch) \/ N!PostFails(a, ch)
  PROVE  TasksPart'
<1> DEFINE d == dispatch[a]
<1>1. /\ DOMAIN dispatch = Announced /\ DOMAIN seen = Announced
      /\ d = [pc |-> d.pc, row |-> d.row, todo |-> d.todo, failed |-> d.failed]
      /\ d.row \in N!Rows \cup {None} /\ d.todo \cap d.failed = {}
      /\ d.todo # {} => d.pc = "post" /\ d.row \in seen[a]
  BY DEF TasksPart, DispatchInv
<1> DEFINE Seen(rs) == /\ DOMAIN seen' = Announced /\ seen'[a] = rs
                       /\ \A b \in Announced \ {a} : seen'[b] = seen[b]
<1>2. CASE N!Create(a)
  <2> DEFINE q == [pc |-> "new", row |-> d.row, todo |-> d.todo, failed |-> d.failed]
             rs == {row}
             new == {}
  <2>1. /\ d.pc = "none" /\ env' = env /\ posts' = posts \cup new
        /\ dispatch' = [dispatch EXCEPT ![a] = q] /\ Seen(rs)
    <3>1. /\ d.pc = "none" /\ env' = env /\ posts' = posts
          /\ dispatch' = [dispatch EXCEPT ![a].pc = "new"] /\ seen' = [seen EXCEPT ![a] = {row}]
      BY <1>2 DEF N!Create
    <3>2. [d EXCEPT !.pc = "new"] = q
      BY <1>1
    <3> QED BY <1>1, <3>1, <3>2
  <2>2. /\ q = [pc |-> q.pc, row |-> q.row, todo |-> q.todo, failed |-> q.failed]
        /\ q.pc = "new" /\ q.row = d.row /\ q.todo = d.todo /\ q.failed = d.failed
    OBVIOUS
  <2> HIDE DEF q, rs, new
  <2>3. q.row \in N!Rows \cup {None} /\ q.todo = {} /\ q.todo \cap q.failed = {}
    BY <1>1, <2>1, <2>2
  <2>4. new = {}
    BY DEF new
  <2> HIDE DEF d
  <2> QED BY <2>1, <2>2, <2>3, <2>4, TaskStep DEF d
<1>3. CASE N!DispatchRead(a)
  <2>1. PICK r \in {row, None} :
          /\ dispatch' = [dispatch EXCEPT ![a] = [pc |-> "post", row |-> r, todo |-> N!Sections,
                                                 failed |-> {}]]
          /\ seen' = [seen EXCEPT ![a] = @ \cup {r}]
    BY <1>3 DEF N!DispatchRead
  <2> DEFINE q == [pc |-> "post", row |-> r, todo |-> N!Sections, failed |-> {}]
             rs == seen[a] \cup {r}
             new == {}
  <2>2. /\ d.pc = "new" /\ env' = env /\ posts' = posts \cup new
        /\ dispatch' = [dispatch EXCEPT ![a] = q] /\ Seen(rs)
    BY <1>1, <1>3, <2>1 DEF N!DispatchRead
  <2>3. /\ q = [pc |-> q.pc, row |-> q.row, todo |-> q.todo, failed |-> q.failed]
        /\ q.pc = "post" /\ q.row = r /\ q.todo = N!Sections /\ q.failed = {}
    OBVIOUS
  <2>4. r \in N!Rows \cup {None} /\ r \in rs /\ seen[a] \subseteq rs
    BY DEF RowsInv
  <2> HIDE DEF q, rs, new
  <2>5. new = {}
    BY DEF new
  <2>6. \A c \in N!Sections : c \in q.todo
    BY <2>3
  <2>7. q.todo \cap q.failed = {} /\ q.row \in N!Rows \cup {None} /\ q.row \in rs
    BY <2>3, <2>4
  <2> QED BY <2>2, <2>3, <2>4, <2>5, <2>6, <2>7, TaskStep
<1>4. ASSUME NEW ch \in N!Sections, N!Post(a, ch) PROVE TasksPart'
  <2> DEFINE via == N!Sender(ch, d.row) \ {None}
             new == {[about |-> a, channel |-> ch, via |-> k] : k \in via}
             q == [pc |-> "post", row |-> d.row, todo |-> d.todo \ {ch}, failed |-> d.failed]
             rs == seen[a]
  <2>1. /\ d.pc = "post" /\ ch \in d.todo /\ env' = env /\ Seen(rs)
        /\ dispatch' = [dispatch EXCEPT ![a] = q]
    <3>1. /\ d.pc = "post" /\ ch \in d.todo /\ env' = env /\ seen' = seen
          /\ dispatch' = [dispatch EXCEPT ![a].todo = @ \ {ch}]
      BY <1>4 DEF N!Post
    <3>2. [d EXCEPT !.todo = @ \ {ch}] = q
      BY <1>1, <3>1
    <3>3. Seen(rs)
      BY <1>1, <3>1
    <3> QED BY <3>1, <3>2, <3>3
  <2>2. posts' = posts \cup new
    BY <1>4 DEF N!Post
  <2>3. /\ q = [pc |-> q.pc, row |-> q.row, todo |-> q.todo, failed |-> q.failed]
        /\ q.pc = "post" /\ q.row = d.row /\ q.todo = d.todo \ {ch} /\ q.failed = d.failed
    OBVIOUS
  <2>4. \A p \in new : p.about = a /\ p.channel = ch /\ p.via \in via
    OBVIOUS
  <2>5. via # {} => \E p \in new : p.about = a /\ p.channel = ch
    <3> SUFFICES ASSUME NEW k \in via PROVE \E p \in new : p.about = a /\ p.channel = ch
      OBVIOUS
    <3> WITNESS [about |-> a, channel |-> ch, via |-> k] \in new
    <3> QED OBVIOUS
  <2>6. d.row \in rs
    BY <1>1, <2>1
  <2> HIDE DEF q, rs, new
  <2>7. \A p \in new : p.via = Global => Justified(p, rs)
    <3> SUFFICES ASSUME NEW p \in new, p.via = Global PROVE Justified(p, rs)
      OBVIOUS
    <3>1. Global \in N!Sender(ch, d.row) /\ p.channel = ch
      BY <2>4
    <3>2. \/ d.row = None
          \/ ch = "slack" /\ ~(d.row.slack_on /\ d.row.slack_token # None)
          \/ ch = "teams" /\ ~(d.row.teams_on /\ d.row.teams_url # None)
      BY <1>1, <3>1, GlobalSender
    <3> QED BY <2>6, <3>1, <3>2 DEF Justified
  <2>8. \A c \in N!Sections :
          c \notin q.todo \cup q.failed /\ N!Sender(c, q.row) \ {None} # {}
            => \E p \in posts' : p.about = a /\ p.channel = c
    <3> SUFFICES ASSUME NEW c \in N!Sections, c \notin q.todo \cup q.failed,
                        N!Sender(c, q.row) \ {None} # {}
                 PROVE  \E p \in posts' : p.about = a /\ p.channel = c
      OBVIOUS
    <3>1. CASE c = ch
      BY <2>2, <2>3, <2>5, <3>1
    <3>2. CASE c # ch
      <4>1. c \notin d.todo \cup d.failed /\ N!Sender(c, d.row) \ {None} # {}
        BY <2>3, <3>2
      <4>2. \E p \in posts : p.about = a /\ p.channel = c
        BY <2>1, <4>1 DEF TasksPart, PostedInv
      <4> QED BY <2>2, <4>2
    <3> QED BY <3>1, <3>2
  <2> HIDE DEF via
  <2>9. q.todo \cap q.failed = {} /\ q.row \in N!Rows \cup {None} /\ q.row \in rs
    BY <1>1, <2>3, <2>6
  <2>10. rs = seen[a] /\ \A p \in new : p.about = a
    BY <2>4 DEF rs
  <2> HIDE DEF d
  <2> QED BY <2>1, <2>2, <2>3, <2>7, <2>8, <2>9, <2>10, TaskStep
<1>5. ASSUME NEW ch \in N!Sections, N!PostFails(a, ch) PROVE TasksPart'
  <2> DEFINE q == [pc |-> "post", row |-> d.row, todo |-> d.todo \ {ch}, failed |-> d.failed \cup {ch}]
             rs == seen[a]
             new == {}
  <2>1. /\ d.pc = "post" /\ ch \in d.todo /\ env' = env /\ Seen(rs)
        /\ dispatch' = [dispatch EXCEPT ![a] = q] /\ posts' = posts \cup new
    <3>1. /\ d.pc = "post" /\ ch \in d.todo /\ env' = env /\ seen' = seen /\ posts' = posts
          /\ dispatch' = [dispatch EXCEPT ![a].todo = @ \ {ch}, ![a].failed = @ \cup {ch}]
      BY <1>5 DEF N!PostFails
    <3>2. [[d EXCEPT !.todo = @ \ {ch}] EXCEPT !.failed = @ \cup {ch}] = q
      BY <1>1, <3>1
    <3>3. Seen(rs)
      BY <1>1, <3>1
    <3>4. dispatch' = [dispatch EXCEPT ![a] = q]
      BY <1>1, <3>1, <3>2
    <3> QED BY <3>1, <3>3, <3>4
  <2>2. /\ q = [pc |-> q.pc, row |-> q.row, todo |-> q.todo, failed |-> q.failed]
        /\ q.pc = "post" /\ q.row = d.row /\ q.todo = d.todo \ {ch} /\ q.failed = d.failed \cup {ch}
    OBVIOUS
  <2>3. d.row \in rs
    BY <1>1, <2>1
  <2> HIDE DEF q, rs, new
  <2>4. \A c \in N!Sections :
          c \notin q.todo \cup q.failed /\ N!Sender(c, q.row) \ {None} # {}
            => \E p \in posts' : p.about = a /\ p.channel = c
    BY <2>1, <2>2 DEF TasksPart, PostedInv
  <2>5. q.todo \cap q.failed = {} /\ q.row \in N!Rows \cup {None} /\ q.row \in rs
    BY <1>1, <2>2, <2>3
  <2>6. rs = seen[a] /\ new = {}
    BY DEF rs, new
  <2>7. /\ \A p \in new : p.about = a /\ (p.via = Global => Justified(p, rs))
        /\ q.todo # {} => q.pc = "post" /\ q.row \in rs
    BY <2>2, <2>5, <2>6
  <2>8. env' = env /\ Seen(rs) /\ posts' = posts \cup new /\ dispatch' = [dispatch EXCEPT ![a] = q]
    BY <2>1
  <2>9. q = [pc |-> q.pc, row |-> q.row, todo |-> q.todo, failed |-> q.failed] /\ q.pc = "post"
    BY <2>2
  <2> HIDE DEF d
  <2> QED BY <2>4, <2>5, <2>6, <2>7, <2>8, <2>9, TaskStep
<1> QED BY <1>2, <1>3, <1>4, <1>5

(* A task that the process loses fails on every channel it still had to do. *)
LEMMA TasksCrash ==
  ASSUME N!NotificationsAssumption, TasksPart, N!Crash
  PROVE  TasksPart'
<1> DEFINE lost == {a \in Announced : dispatch[a].pc = "new" \/ dispatch[a].todo # {}}
<1>1. /\ dispatch' = [a \in Announced |->
                       IF a \in lost
                       THEN [dispatch[a] EXCEPT !.pc = "post", !.todo = {}, !.failed = N!Sections]
                       ELSE dispatch[a]]
      /\ seen' = seen /\ posts' = posts /\ env' = env
  BY DEF N!Crash
<1> HIDE DEF lost
<1>2. \A a \in Announced \ lost : dispatch'[a] = dispatch[a]
  BY <1>1
<1>3. \A a \in lost : a \in Announced =>
        /\ dispatch'[a].pc = "post" /\ dispatch'[a].row = dispatch[a].row
        /\ dispatch'[a].todo = {} /\ dispatch'[a].failed = N!Sections
        /\ dispatch'[a] = [pc |-> dispatch'[a].pc, row |-> dispatch'[a].row,
                           todo |-> dispatch'[a].todo, failed |-> dispatch'[a].failed]
  <2> SUFFICES ASSUME NEW a \in lost, a \in Announced
               PROVE  /\ dispatch'[a].pc = "post" /\ dispatch'[a].row = dispatch[a].row
                      /\ dispatch'[a].todo = {} /\ dispatch'[a].failed = N!Sections
                      /\ dispatch'[a] = [pc |-> dispatch'[a].pc, row |-> dispatch'[a].row,
                                         todo |-> dispatch'[a].todo, failed |-> dispatch'[a].failed]
    OBVIOUS
  <2> DEFINE d == dispatch[a]
             e == dispatch'[a]
  <2>1. d = [pc |-> d.pc, row |-> d.row, todo |-> d.todo, failed |-> d.failed]
    BY DEF TasksPart, DispatchInv
  <2>2. e = [d EXCEPT !.pc = "post", !.todo = {}, !.failed = N!Sections]
    BY <1>1
  <2> HIDE DEF d, e
  <2>3. e = [pc |-> "post", row |-> d.row, todo |-> {}, failed |-> N!Sections]
    BY <2>1, <2>2
  <2>4. e.pc = "post" /\ e.row = d.row /\ e.todo = {} /\ e.failed = N!Sections
    BY <2>3
  <2>5. e = [pc |-> e.pc, row |-> e.row, todo |-> e.todo, failed |-> e.failed]
    BY <2>3
  <2> QED BY <2>4, <2>5 DEF d, e
<1>4. DispatchInv'
  <2>1. DOMAIN dispatch' = Announced
    BY <1>1
  <2>2. \A p \in posts : p.about = "test" \/ (p.about \in Announced /\ dispatch'[p.about].pc = "post")
    BY <1>2, <1>3 DEF TasksPart, DispatchInv
  <2>3. \A a \in Announced :
          /\ dispatch'[a] = [pc |-> dispatch'[a].pc, row |-> dispatch'[a].row,
                             todo |-> dispatch'[a].todo, failed |-> dispatch'[a].failed]
          /\ dispatch'[a].pc \in {"none", "new", "post"}
          /\ dispatch'[a].row \in N!Rows \cup {None}
          /\ dispatch'[a].todo \cap dispatch'[a].failed = {}
          /\ dispatch'[a].todo # {} => dispatch'[a].pc = "post" /\ dispatch'[a].row \in seen[a]
    <3> SUFFICES ASSUME NEW a \in Announced
                 PROVE  /\ dispatch'[a] = [pc |-> dispatch'[a].pc, row |-> dispatch'[a].row,
                                           todo |-> dispatch'[a].todo, failed |-> dispatch'[a].failed]
                        /\ dispatch'[a].pc \in {"none", "new", "post"}
                        /\ dispatch'[a].row \in N!Rows \cup {None}
                        /\ dispatch'[a].todo \cap dispatch'[a].failed = {}
                        /\ dispatch'[a].todo # {} =>
                             dispatch'[a].pc = "post" /\ dispatch'[a].row \in seen[a]
      OBVIOUS
    <3>1. CASE a \in lost
      BY <1>3, <3>1 DEF TasksPart, DispatchInv
    <3>2. CASE a \notin lost
      BY <1>2, <3>2 DEF TasksPart, DispatchInv
    <3> QED BY <3>1, <3>2
  <2> QED BY <1>1, <2>1, <2>2, <2>3 DEF TasksPart, DispatchInv
<1>5. N!GlobalOnlyWithout'
  BY <1>1 DEF TasksPart, N!GlobalOnlyWithout
<1>6. PostedInv'
  <2> SUFFICES ASSUME NEW a \in Announced, NEW ch \in N!Sections,
                      dispatch'[a].pc = "post", ch \notin dispatch'[a].todo \cup dispatch'[a].failed,
                      N!Sender(ch, dispatch[a].row)' \ {None} # {}
               PROVE  \E p \in posts' : p.about = a /\ p.channel = ch
    BY DEF PostedInv
  <2>1. a \notin lost /\ dispatch'[a] = dispatch[a]
    BY <1>2, <1>3
  <2>2. N!Sender(ch, dispatch[a].row)' = N!Sender(ch, dispatch[a].row)
    BY <1>1, <2>1 DEF N!Sender, N!SlackSender, N!TeamsSender, N!EmailSender, N!PagerDutySender
  <2> QED BY <1>1, <2>1, <2>2 DEF TasksPart, PostedInv
<1> QED BY <1>4, <1>5, <1>6 DEF TasksPart

(* Every step keeps the invariant.                                         *)
LEMMA NotifyStep ==
  ASSUME N!NotificationsAssumption, SettingsPart, TasksPart, N!Next
  PROVE  SettingsPart' /\ TasksPart'
<1>1. RowsInv
  BY DEF SettingsPart
<1>2. ASSUME NEW c \in Admins, NEW kind, NEW set, N!Begin(c, kind, set), IsChange(set),
             kind = "delete" => \E s \in N!Sections : set = N!Cleared(s)
      PROVE  SettingsPart' /\ TasksPart'
  <2>1. SettingsPart'
    BY <1>2, BeginKeeps
  <2>2. dispatch' = dispatch /\ env' = env /\ posts' = posts /\ seen' = seen
    BY <1>2 DEF N!Begin
  <2> QED BY <2>1, <2>2, TasksGrow DEF TasksPart, DispatchInv
<1>3. ASSUME NEW c \in Admins, NEW b \in SavedBodies, N!SaveRead(c, b)
      PROVE  SettingsPart' /\ TasksPart'
  <2>1. N!Begin(c, "save", N!Assigned(b))
    BY <1>3 DEF N!SaveRead
  <2>2. IsChange(N!Assigned(b)) /\ "save" # "delete"
    BY AssignedIsChange
  <2> QED BY <1>2, <2>1, <2>2
<1>4. ASSUME NEW c \in Admins, NEW s \in N!Sections, N!DeleteRead(c, s)
      PROVE  SettingsPart' /\ TasksPart'
  <2>1. N!Begin(c, "delete", N!Cleared(s))
    BY <1>4 DEF N!DeleteRead
  <2>2. IsChange(N!Cleared(s))
    BY TouchedBy
  <2> QED BY <1>2, <2>1, <2>2
<1>5. ASSUME NEW c \in Admins, N!SaveInsert(c) PROVE SettingsPart' /\ TasksPart'
  <2>1. SettingsPart'
    BY <1>5, SaveInsertKeeps
  <2>2. dispatch' = dispatch /\ env' = env /\ posts' = posts /\ seen' = seen
    BY <1>5 DEF N!SaveInsert
  <2> QED BY <2>1, <2>2, TasksGrow DEF TasksPart, DispatchInv
<1>6. ASSUME NEW c \in Admins, N!Commit(c) PROVE SettingsPart' /\ TasksPart'
  <2>1. SettingsPart'
    BY <1>6, CommitKeeps
  <2>2. /\ dispatch' = dispatch /\ env' = env /\ posts' = posts
        /\ DOMAIN seen' = Announced /\ \A a \in Announced : seen[a] \subseteq seen'[a]
    BY <1>6 DEF N!Commit
  <2> QED BY <2>1, <2>2, TasksGrow
<1>7. ASSUME NEW a \in Announced,
             \/ N!Create(a) \/ N!DispatchRead(a)
             \/ \E ch \in N!Sections : N!Post(a, ch) \/ N!PostFails(a, ch)
      PROVE  SettingsPart' /\ TasksPart'
  <2>1. TasksPart'
    BY <1>1, <1>7, TasksStep
  <2>2. row' = row /\ request' = request /\ changes' = changes /\ stands' = stands
    BY <1>7 DEF N!Create, N!DispatchRead, N!Post, N!PostFails
  <2> QED BY <2>1, <2>2 DEF SettingsPart, RowsInv, InsertInv, AloneInv, StandsInv, Stored
<1>8. ASSUME NEW ch \in N!Sections, N!Test(ch) PROVE SettingsPart' /\ TasksPart'
  <2>1. /\ row' = row /\ request' = request /\ changes' = changes /\ stands' = stands
        /\ dispatch' = dispatch /\ env' = env /\ seen' = seen
        /\ posts \subseteq posts' /\ \A p \in posts' \ posts : p.about = "test"
    BY <1>8 DEF N!Test
  <2>2. TasksPart'
    BY <2>1, TasksGrow DEF TasksPart, DispatchInv
  <2> QED BY <2>1, <2>2 DEF SettingsPart, RowsInv, InsertInv, AloneInv, StandsInv, Stored
<1>9. CASE N!Crash
  BY <1>9, CrashKeeps, TasksCrash
<1> QED BY <1>3, <1>4, <1>5, <1>6, <1>7, <1>8, <1>9 DEF N!Next

(* What an administrator saved with nobody else on the section is stored,  *)
(* an approval goes through the environment's account only where the       *)
(* organisation had none, and no channel's failure silences another        *)
(* (integration_config.py:153, slack.py:178, notify.py:64).                *)
THEOREM AnnouncementsStand == MCSpec => []AnnouncementsHold
<1> USE ApprovalsMCAssumption
<1>1. MCInit => NotifyInv
  <2> SUFFICES ASSUME N!Init PROVE SettingsPart /\ TasksPart
    BY DEF MCInit, NotifyInv
  <2>1. \A c \in Admins : request[c] = N!Idle
    BY DEF N!Init
  <2>2. SettingsPart
    <3>1. RowsInv
      BY <2>1, IdleIsRequest DEF N!Init, RowsInv, N!NotificationsAssumption
    <3>2. InsertInv /\ AloneInv
      BY <2>1, IdleIsRequest DEF InsertInv, AloneInv
    <3>3. StandsInv
      BY DEF N!Init, StandsInv
    <3> QED BY <3>1, <3>2, <3>3 DEF SettingsPart
  <2>3. TasksPart
    <3>1. \A a \in Announced : dispatch[a] = [pc |-> "none", row |-> None, todo |-> {}, failed |-> {}]
      BY DEF N!Init, N!Unsent
    <3>2. posts = {} /\ DOMAIN dispatch = Announced /\ DOMAIN seen = Announced
      BY DEF N!Init
    <3> QED BY <3>1, <3>2 DEF TasksPart, DispatchInv, N!GlobalOnlyWithout, PostedInv
  <2> QED BY <2>2, <2>3
<1>2. NotifyInv /\ [MCNext]_mcVars => NotifyInv'
  <2> SUFFICES ASSUME NotifyInv, [MCNext]_mcVars, part' = "notify"
               PROVE  SettingsPart' /\ TasksPart'
    BY DEF NotifyInv
  <2>1. part = "notify" /\ SettingsPart /\ TasksPart
    BY DEF NotifyInv, MCNext, mcVars
  <2>2. CASE UNCHANGED notifyVars
    <3>1. SettingsPart'
      BY <2>1, <2>2 DEF notifyVars, SettingsPart, RowsInv, InsertInv, AloneInv, StandsInv, Stored
    <3>2. TasksPart'
      BY <2>1, <2>2, TasksGrow DEF notifyVars, TasksPart, DispatchInv
    <3> QED BY <3>1, <3>2
  <2>3. CASE N!Next
    BY <2>1, <2>3, NotifyStep
  <2> QED BY <2>1, <2>2, <2>3 DEF MCNext, mcVars
<1>3. NotifyInv => AnnouncementsHold
  <2> SUFFICES ASSUME SettingsPart, TasksPart
               PROVE  N!TypeOK /\ N!LoneRequestStands /\ N!GlobalOnlyWithout
                      /\ N!FailuresAreIsolated
    BY DEF NotifyInv, AnnouncementsHold
  <2>1. N!Cardinality({c \in Admins : request[c].fresh}) <= 1
    <3> DEFINE F == {c \in Admins : request[c].fresh}
    <3>1. N!Cardinality(F) = Cardinality(F)
      BY DEF N!Cardinality, Cardinality
    <3>2. F = {} \/ \E c : F = {c}
      BY DEF SettingsPart, InsertInv
    <3> HIDE DEF F
    <3>3. Cardinality(F) = 0 \/ Cardinality(F) = 1
      BY <3>2, FS_EmptySet, FS_Singleton
    <3> QED BY <3>1, <3>3 DEF F
  <2>2. N!TypeOK
    BY <2>1 DEF N!TypeOK, SettingsPart, RowsInv, InsertInv, RequestType, TasksPart, DispatchInv
  <2>3. N!LoneRequestStands
    BY DEF N!LoneRequestStands, SettingsPart, StandsInv
  <2>4. N!FailuresAreIsolated
    BY DEF N!FailuresAreIsolated, TasksPart, PostedInv
  <2> QED BY <2>2, <2>3, <2>4 DEF TasksPart
<1> QED BY <1>1, <1>2, <1>3, PTL DEF MCSpec

-----------------------------------------------------------------------------
(* What every row has, tampered with or not: the number and the hashes     *)
(* that are stored tell where it belongs.                                  *)
PlacedRow(r) ==
  /\ r = [seq |-> r.seq, event |-> r.event, prev |-> r.prev, hash |-> r.hash]
  /\ r.seq \in Nat \ {0}
  /\ r.event \in Events \cup {Alert}
  /\ \E x, y : r.hash = V!Hash(x, r.seq, y)
  /\ IF r.seq = 1 THEN r.prev = V!Genesis
     ELSE \E x, y : r.prev = V!Hash(x, r.seq - 1, y)

PlacedTable(t) ==
  /\ \A r \in t : PlacedRow(r)
  /\ \A r, s \in t : r.seq = s.seq => r = s
  /\ \E n \in Nat : \A r \in t : r.seq <= n

TablesInv == DOMAIN table = Orgs /\ \A o \in Orgs : PlacedTable(table[o])

JobType ==
  /\ job = [pc |-> job.pc, todo |-> job.todo, org |-> job.org, row |-> job.row,
            unsent |-> job.unsent, poisoned |-> job.poisoned]
  /\ job.pc \in {"idle", "loop", "alert", "write", "emit"} /\ job.poisoned \in BOOLEAN
  /\ job.todo \subseteq Orgs /\ job.org \subseteq Orgs /\ job.unsent \subseteq Orgs
  /\ run \in [n : 0 .. MaxRuns, found : SUBSET Orgs, rows : SUBSET Orgs, hooks : SUBSET Orgs,
              exit : SUBSET {0, 1}]
  /\ tampers \in 0 .. MaxTampers

(* Where each break that was found is, until it is recorded and announced. *)
JobInv ==
  /\ job.pc = "idle" => job = V!Idle
  /\ job.pc = "write" => \E r : job.row = {r} /\ PlacedRow(r)
  /\ job.pc \in {"alert", "write"} => ~job.poisoned
  /\ job.unsent \subseteq run.rows /\ run.hooks \subseteq run.rows
  /\ job.pc # "idle" => run.exit = {}
  /\ job.pc \in {"loop", "emit"} /\ ~job.poisoned => run.found \cup job.org \subseteq run.rows
  /\ job.pc \in {"alert", "write"} => run.found \subseteq run.rows \cup job.org
  /\ job.pc = "loop" => job.org = {}
  /\ job.pc # "idle" /\ ~job.poisoned
       => run.found \subseteq run.hooks \cup job.unsent \cup job.org
  /\ run.exit = {0} => run.found \subseteq run.rows \cap run.hooks

VerifyInv == part = "verify" => TablesInv /\ JobType /\ JobInv

-----------------------------------------------------------------------------
(* A set of numbers that is not empty has a least.                         *)
LEMMA LeastNumber ==
  ASSUME NEW S \in SUBSET Nat, S # {}
  PROVE  \E x \in S : \A y \in S : x <= y
<1> DEFINE R == {ss \in Nat \X Nat : ss[1] < ss[2]}
<1>1. IsWellFoundedOn(R, Nat)
  BY NatLessThanWellFounded DEF OpToRel
<1>2. PICK x \in S : \A y \in S : <<y, x>> \notin R
  <2> HIDE DEF R
  <2> QED BY <1>1, WFMin
<1>3. ASSUME NEW y \in S PROVE x <= y
  <2>1. ~(y < x)
    BY <1>2
  <2> QED BY <2>1
<1> QED BY <1>3

(* A set of numbers that is bounded and not empty has a greatest.          *)
LEMMA GreatestNumber ==
  ASSUME NEW S \in SUBSET Nat, S # {}, NEW n \in Nat, \A x \in S : x <= n
  PROVE  \E g \in S : \A x \in S : x <= g
<1> DEFINE U == {k \in Nat : \A x \in S : x <= k}
<1>1. PICK g \in U : \A k \in U : g <= k
  <2>1. n \in U /\ U \in SUBSET Nat
    OBVIOUS
  <2> HIDE DEF U
  <2> QED BY <2>1, LeastNumber
<1>2. g \in S
  <2> SUFFICES ASSUME g \notin S PROVE FALSE
    OBVIOUS
  <2>1. \A x \in S : x <= g - 1
    BY <1>1
  <2>2. g - 1 \in Nat
    <3>1. PICK x \in S : TRUE
      OBVIOUS
    <3>2. x <= g - 1 /\ x \in Nat /\ g \in Nat
      BY <1>1, <2>1
    <3> QED BY <3>2
  <2>3. g <= g - 1
    BY <1>1, <2>1, <2>2
  <2> QED BY <1>1, <2>3
<1> QED BY <1>1, <1>2

(* The cardinality of the instance is the library's.                       *)
LEMMA SameCardinality == \A S : V!Cardinality(S) = Cardinality(S)
BY DEF V!Cardinality, Cardinality

(* The tip of a table is its greatest number, and its hash the hash of     *)
(* that row.                                                               *)
LEMMA TipOfTable ==
  ASSUME NEW t, PlacedTable(t)
  PROVE  /\ t = {} => V!Tip(t) = 0 /\ V!TipHash(t) = V!Genesis
         /\ t # {} => /\ V!Tip(t) \in Nat \ {0}
                      /\ \A r \in t : r.seq <= V!Tip(t)
                      /\ V!RowAt(t, V!Tip(t)) \in t
                      /\ V!RowAt(t, V!Tip(t)).seq = V!Tip(t)
                      /\ V!TipHash(t) = V!RowAt(t, V!Tip(t)).hash
<1>1. CASE t = {}
  BY <1>1 DEF V!Tip, V!TipHash
<1>2. CASE t # {}
  <2> DEFINE S == V!Sequences(t)
  <2>1. S \in SUBSET (Nat \ {0}) /\ S # {}
    BY <1>2 DEF V!Sequences, PlacedTable, PlacedRow
  <2>2. PICK n \in Nat : \A x \in S : x <= n
    BY DEF V!Sequences, PlacedTable
  <2>3. PICK g \in S : \A x \in S : x <= g
    <3> HIDE DEF S
    <3> QED BY <2>1, <2>2, GreatestNumber
  <2>4. V!Tip(t) = CHOOSE k \in S : \A m \in S : m <= k
    BY <1>2 DEF V!Tip
  <2>5. V!Tip(t) \in S /\ \A x \in S : x <= V!Tip(t)
    <3> HIDE DEF S
    <3> QED BY <2>3, <2>4
  <2>6. PICK r \in t : r.seq = V!Tip(t)
    BY <2>5 DEF V!Sequences
  <2>7. V!RowAt(t, V!Tip(t)) \in t /\ V!RowAt(t, V!Tip(t)).seq = V!Tip(t)
    BY <2>6 DEF V!RowAt
  <2>8. \A q \in t : q.seq \in S
    BY DEF V!Sequences
  <2>9. V!TipHash(t) = V!RowAt(t, V!Tip(t)).hash
    BY <1>2 DEF V!TipHash
  <2> QED BY <1>2, <2>1, <2>5, <2>7, <2>8, <2>9
<1> QED BY <1>1, <1>2

(* A part of a table is one too.                                           *)
LEMMA PartOfTable ==
  ASSUME NEW t, PlacedTable(t), NEW p \in SUBSET t
  PROVE  PlacedTable(p)
BY DEF PlacedTable

(* The row an append writes has its place.                                 *)
LEMMA NewRowPlaced ==
  ASSUME NEW t, PlacedTable(t), NEW e \in Events \cup {Alert}
  PROVE  PlacedRow(V!NewRow(V!Tip(t) + 1, V!TipHash(t), e))
<1> DEFINE n == V!Tip(t) + 1
           h == V!TipHash(t)
<1>1. n \in Nat \ {0} /\ IF n = 1 THEN h = V!Genesis ELSE \E x, y : h = V!Hash(x, n - 1, y)
  <2>1. CASE t = {}
    BY <2>1, TipOfTable
  <2>2. CASE t # {}
    <3>1. V!Tip(t) \in Nat \ {0} /\ \E x, y : h = V!Hash(x, V!Tip(t), y)
      BY <2>2, TipOfTable DEF PlacedTable, PlacedRow
    <3>2. n - 1 = V!Tip(t) /\ n # 1 /\ n \in Nat \ {0}
      BY <3>1
    <3> QED BY <3>1, <3>2
  <2> QED BY <2>1, <2>2
<1> HIDE DEF n, h
<1>2. PlacedRow(V!NewRow(n, h, e))
  <2> DEFINE r == V!NewRow(n, h, e)
  <2>1. /\ r = [seq |-> n, event |-> e, prev |-> h, hash |-> V!Hash(h, n, e)]
        /\ r.seq = n /\ r.event = e /\ r.prev = h /\ r.hash = V!Hash(h, n, e)
    BY DEF V!NewRow
  <2> HIDE DEF r
  <2>2. r = [seq |-> r.seq, event |-> r.event, prev |-> r.prev, hash |-> r.hash]
    BY <2>1
  <2>3. \E x, y : r.hash = V!Hash(x, r.seq, y)
    BY <2>1
  <2>4. IF r.seq = 1 THEN r.prev = V!Genesis ELSE \E x, y : r.prev = V!Hash(x, r.seq - 1, y)
    BY <1>1, <2>1
  <2>5. r.seq \in Nat \ {0} /\ r.event \in Events \cup {Alert}
    BY <1>1, <2>1
  <2>6. PlacedRow(r)
    BY <2>2, <2>3, <2>4, <2>5 DEF PlacedRow
  <2> QED BY <2>6 DEF r
<1> QED BY <1>2 DEF n, h

(* A row whose number is free joins a table.                               *)
LEMMA AddRow ==
  ASSUME NEW t, PlacedTable(t), NEW r, PlacedRow(r), r.seq \notin V!Sequences(t)
  PROVE  PlacedTable(t \cup {r})
<1>1. PICK n \in Nat : \A q \in t : q.seq <= n
  BY DEF PlacedTable
<1>2. r.seq \in Nat /\ \A q \in t : q.seq \in Nat
  BY DEF PlacedTable, PlacedRow
<1>3. \E m \in Nat : \A q \in t \cup {r} : q.seq <= m
  <2>1. n + r.seq \in Nat /\ r.seq <= n + r.seq /\ \A q \in t : q.seq <= n + r.seq
    BY <1>1, <1>2
  <2> QED BY <2>1
<1>4. \A q, s \in t \cup {r} : q.seq = s.seq => q = s
  BY DEF PlacedTable, V!Sequences
<1> QED BY <1>3, <1>4 DEF PlacedTable

(* verify_chain takes the hash before a row from the rows below it.        *)
LEMMA HashBefore ==
  ASSUME NEW t, PlacedTable(t), NEW r \in t
  PROVE  V!PrevHash(t, 0, r) = V!TipHash({p \in t : p.seq < r.seq})
<1>1. {p \in t : p.seq > 0 /\ p.seq < r.seq} = {p \in t : p.seq < r.seq}
  BY DEF PlacedTable, PlacedRow
<1>2. {p \in t : p.seq < r.seq} = {} => V!TipHash({p \in t : p.seq < r.seq}) = V!Genesis
  BY DEF V!TipHash
<1> QED BY <1>1, <1>2 DEF V!PrevHash

(* verify_chain accepts a table that appends have built, and no other: it  *)
(* follows the hashes back to the first row, so no number is missing.      *)
LEMMA VerifierIsExact ==
  ASSUME NEW t, PlacedTable(t)
  PROVE  V!VerifyOk(t, 0) <=> V!Genuine(t)
<1> DEFINE B(r) == {p \in t : p.seq < r.seq}
           S == V!Sequences(t)
<1>1. V!VerifyOk(t, 0) <=> \A r \in t : /\ r.prev = V!TipHash(B(r))
                                       /\ r.hash = V!Hash(V!TipHash(B(r)), r.seq, r.event)
  <2>1. \A r \in t : r.seq > 0
    BY DEF PlacedTable, PlacedRow
  <2>2. \A r \in t : V!PrevHash(t, 0, r) = V!TipHash(B(r))
    BY HashBefore
  <2> HIDE DEF B
  <2> QED BY <2>1, <2>2 DEF V!VerifyOk, V!Broken
<1>2. \A r \in t : (r = V!NewRow(r.seq, V!TipHash(B(r)), r.event))
                  <=> /\ r.prev = V!TipHash(B(r))
                      /\ r.hash = V!Hash(V!TipHash(B(r)), r.seq, r.event)
  <2> SUFFICES ASSUME NEW r \in t, NEW h
               PROVE  (r = V!NewRow(r.seq, h, r.event))
                        <=> r.prev = h /\ r.hash = V!Hash(h, r.seq, r.event)
    OBVIOUS
  <2>1. r = [seq |-> r.seq, event |-> r.event, prev |-> r.prev, hash |-> r.hash]
    BY DEF PlacedTable, PlacedRow
  <2> QED BY <2>1 DEF V!NewRow
<1>3. ASSUME V!VerifyOk(t, 0) PROVE S = 1 .. Cardinality(t)
  <2>1. S \in SUBSET (Nat \ {0})
    BY DEF V!Sequences, PlacedTable, PlacedRow
  <2>2. ASSUME NEW n \in S, n # 1 PROVE n - 1 \in S
    <3>1. PICK r \in t : r.seq = n
      BY DEF V!Sequences
    <3>2. PICK x, y : r.prev = V!Hash(x, n - 1, y)
      BY <2>2, <3>1 DEF PlacedTable, PlacedRow
    <3>3. V!TipHash(B(r)) = V!Hash(x, n - 1, y)
      BY <1>1, <1>3, <3>2
    <3>4. PlacedTable(B(r))
      BY PartOfTable
    <3>5. B(r) # {}
      <4>1. V!Genesis # V!Hash(x, n - 1, y)
        BY DEF V!Genesis, V!Hash
      <4> HIDE DEF B
      <4> QED BY <3>3, <3>4, <4>1, TipOfTable
    <3>6. PICK p \in B(r) : p.hash = V!Hash(x, n - 1, y)
      <4> HIDE DEF B
      <4> QED BY <3>3, <3>4, <3>5, TipOfTable
    <3>7. p \in t /\ \E u, v : p.hash = V!Hash(u, p.seq, v)
      BY <3>6 DEF PlacedTable, PlacedRow
    <3>8. p.seq = n - 1
      BY <3>6, <3>7 DEF V!Hash
    <3> QED BY <3>7, <3>8 DEF V!Sequences
  <2>3. CASE t = {}
    <3>1. S = {} /\ Cardinality(t) = 0
      BY <2>3, FS_EmptySet DEF V!Sequences
    <3> QED BY <3>1
  <2>4. CASE t # {}
    <3>1. PICK k \in Nat : \A x \in S : x <= k
      BY DEF PlacedTable, V!Sequences
    <3>2. S # {}
      BY <2>4 DEF V!Sequences
    <3>3. PICK g \in S : \A x \in S : x <= g
      <4> HIDE DEF S
      <4> QED BY <2>1, <3>1, <3>2, GreatestNumber
    <3>4. S = 1 .. g
      <4>1. S \subseteq 1 .. g
        <5> HIDE DEF S
        <5> QED BY <2>1, <3>3
      <4>2. ASSUME NEW n \in 1 .. g, n \notin S PROVE FALSE
        <5> DEFINE A == {x \in S : n < x}
        <5>1. g \in A /\ A \in SUBSET Nat
          <6> HIDE DEF S
          <6>1. g \in Nat /\ g # n
            BY <2>1, <3>3, <4>2
          <6>2. n < g
            BY <4>2, <6>1
          <6> QED BY <2>1, <3>3, <6>2
        <5>2. PICK m \in A : \A x \in A : m <= x
          <6> HIDE DEF A
          <6> QED BY <5>1, LeastNumber
        <5>3. m \in S /\ n < m /\ m \in Nat /\ m # 1
          <6> HIDE DEF S
          <6> QED BY <2>1, <5>2
        <5>4. m - 1 \in S
          BY <2>2, <5>3
        <5> HIDE DEF S
        <5>5. n <= m - 1 /\ m - 1 # n
          BY <4>2, <5>3, <5>4
        <5>6. m - 1 \in A
          BY <5>3, <5>4, <5>5
        <5> QED BY <5>2, <5>3, <5>6
      <4> HIDE DEF S
      <4> QED BY <4>1, <4>2
    <3>5. Cardinality(t) = g
      <4> DEFINE f == [r \in t |-> r.seq]
      <4>1. f \in Bijection(t, S)
        <5>1. f \in [t -> S]
          BY DEF V!Sequences
        <5>2. \A a, b \in t : f[a] = f[b] => a = b
          BY DEF PlacedTable
        <5>3. \A s \in S : \E r \in t : f[r] = s
          BY DEF V!Sequences
        <5> HIDE DEF f, S
        <5> QED BY <5>1, <5>2, <5>3, Fun_IsBij
      <4>2. g \in Nat \ {0} /\ IsFiniteSet(S) /\ Cardinality(S) = g
        <5>1. g \in Nat \ {0}
          <6> HIDE DEF S
          <6> QED BY <2>1, <3>3
        <5>2. IsFiniteSet(1 .. g) /\ Cardinality(1 .. g) = g
          BY <5>1, FS_Interval
        <5> HIDE DEF S
        <5> QED BY <3>4, <5>1, <5>2
      <4> HIDE DEF f, S
      <4>3. IsFiniteSet(t) /\ Cardinality(t) = Cardinality(S)
        BY <4>1, <4>2, FS_Bijection, Fun_ExistsBijSymmetric, Fun_ExistsBij
      <4> QED BY <4>2, <4>3
    <3> HIDE DEF S
    <3> QED BY <3>4, <3>5
  <2> QED BY <2>3, <2>4
<1> HIDE DEF B, S
<1>4. V!Genuine(t) <=> /\ S = 1 .. Cardinality(t)
                       /\ \A r \in t : r = V!NewRow(r.seq, V!TipHash(B(r)), r.event)
  BY SameCardinality DEF V!Genuine, B, S
<1> QED BY <1>1, <1>2, <1>3, <1>4

(* A step on one table leaves the others.                                  *)
LEMMA TablesKept ==
  ASSUME TablesInv, NEW o \in Orgs, NEW t, PlacedTable(t),
         table' = [table EXCEPT ![o] = t]
  PROVE  TablesInv'
<1>1. DOMAIN table' = Orgs
  BY DEF TablesInv
<1>2. \A p \in Orgs : PlacedTable(table'[p])
  BY DEF TablesInv
<1> HIDE DEF PlacedTable
<1> QED BY <1>1, <1>2 DEF TablesInv, PlacedTable, PlacedRow

(* Appends and tampering keep every row at its place.                      *)
LEMMA TablesStep ==
  ASSUME TablesInv, JobType, JobInv, NEW o \in Orgs,
         \/ \E e \in Events : V!Record(o, e)
         \/ V!Tamper(o)
         \/ V!AlertWrite(o)
  PROVE  TablesInv'
<1>1. PlacedTable(table[o])
  BY DEF TablesInv
<1>2. ASSUME NEW e \in Events, V!Record(o, e) PROVE TablesInv'
  <2> DEFINE r == V!NewRow(V!Tip(table[o]) + 1, V!TipHash(table[o]), e)
  <2>1. PlacedRow(r)
    BY <1>1, NewRowPlaced
  <2>2. r.seq = V!Tip(table[o]) + 1
    BY DEF V!NewRow
  <2>3. r.seq \notin V!Sequences(table[o])
    <3>1. CASE table[o] = {}
      BY <3>1 DEF V!Sequences
    <3>2. CASE table[o] # {}
      <4>1. /\ V!Tip(table[o]) \in Nat
            /\ \A q \in table[o] : q.seq \in Nat /\ q.seq <= V!Tip(table[o])
        BY <1>1, <3>2, TipOfTable DEF PlacedTable, PlacedRow
      <4>2. \A q \in table[o] : q.seq # V!Tip(table[o]) + 1
        BY <4>1
      <4> HIDE DEF r
      <4> QED BY <2>2, <4>2 DEF V!Sequences
    <3> QED BY <3>1, <3>2
  <2>4. table' = [table EXCEPT ![o] = table[o] \cup {r}]
    BY <1>2 DEF V!Record
  <2> HIDE DEF r
  <2>5. PlacedTable(table[o] \cup {r})
    BY <1>1, <2>1, <2>3, AddRow
  <2> DEFINE t == table[o] \cup {r}
  <2>6. table' = [table EXCEPT ![o] = t] /\ PlacedTable(t)
    BY <2>4, <2>5
  <2> HIDE DEF t
  <2> QED BY <2>6, TablesKept
<1>3. CASE V!Tamper(o)
  <2>1. PICK r \in table[o] :
          \/ \E e \in Events \ {r.event} :
               table' = [table EXCEPT ![o] = (@ \ {r}) \cup {[r EXCEPT !.event = e]}]
          \/ table' = [table EXCEPT ![o] = @ \ {r}]
    BY <1>3 DEF V!Tamper
  <2> DEFINE rest == table[o] \ {r}
  <2>2. PlacedTable(rest) /\ r.seq \notin V!Sequences(rest)
    <3>1. PlacedTable(rest)
      BY <1>1, PartOfTable
    <3>2. \A q \in rest : q.seq # r.seq
      BY <1>1 DEF PlacedTable
    <3> QED BY <3>1, <3>2 DEF V!Sequences
  <2>3. ASSUME NEW e \in Events, table' = [table EXCEPT ![o] = rest \cup {[r EXCEPT !.event = e]}]
        PROVE  TablesInv'
    <3> DEFINE q == [r EXCEPT !.event = e]
               t == rest \cup {q}
    <3>1. PlacedRow(r)
      BY <1>1 DEF PlacedTable
    <3>2. /\ q = [seq |-> r.seq, event |-> e, prev |-> r.prev, hash |-> r.hash]
          /\ q.seq = r.seq
      BY <3>1 DEF PlacedRow
    <3>3. PlacedRow(q)
      <4>1. q.event = e /\ q.prev = r.prev /\ q.hash = r.hash
        BY <3>2
      <4> HIDE DEF q
      <4> QED BY <3>1, <3>2, <4>1 DEF PlacedRow
    <3> HIDE DEF q, rest
    <3>4. PlacedTable(t)
      BY <2>2, <3>2, <3>3, AddRow
    <3>5. table' = [table EXCEPT ![o] = t]
      BY <2>3 DEF q
    <3> HIDE DEF t
    <3> QED BY <3>4, <3>5, TablesKept
  <2>4. ASSUME table' = [table EXCEPT ![o] = rest] PROVE TablesInv'
    <3> HIDE DEF rest
    <3> QED BY <2>2, <2>4, TablesKept
  <2> QED BY <2>1, <2>3, <2>4
<1>4. CASE V!AlertWrite(o)
  <2>1. PICK r : job.row = {r} /\ PlacedRow(r)
    BY <1>4 DEF V!AlertWrite, JobInv
  <2>2. r.seq \notin V!Sequences(table[o])
    BY <1>4, <2>1 DEF V!AlertWrite
  <2> DEFINE t == table[o] \cup {r}
  <2>3. PlacedTable(t)
    BY <1>1, <2>1, <2>2, AddRow
  <2>4. table' = [table EXCEPT ![o] = t]
    BY <1>4, <2>1 DEF V!AlertWrite
  <2> HIDE DEF t
  <2> QED BY <2>3, <2>4, TablesKept
<1> QED BY <1>2, <1>3, <1>4

(* The job itself: a run is at one organisation, and says zero only when   *)
(* nothing is left unsent.                                                 *)
LEMMA JobStep ==
  ASSUME TablesInv, JobType, JobInv, V!VerifyAssumption, V!Next
  PROVE  JobType' /\ JobInv'
<1>1. ASSUME NEW o \in Orgs, (\E e \in Events : V!Record(o, e)) PROVE JobType' /\ JobInv'
  <2>1. job' = job /\ run' = run /\ tampers' = tampers
    BY <1>1 DEF V!Record
  <2> QED BY <2>1 DEF JobType, JobInv
<1>2. ASSUME NEW o \in Orgs, V!Tamper(o) PROVE JobType' /\ JobInv'
  BY <1>2 DEF V!Tamper, JobType, JobInv, V!VerifyAssumption
<1>3. ASSUME NEW o \in Orgs, V!Check(o) PROVE JobType' /\ JobInv'
  <2>1. job.pc = "loop" /\ ~job.poisoned /\ tampers' = tampers
    BY <1>3 DEF V!Check
  <2>2. CASE V!VerifyOk(table[o], 0)
    <3>1. job' = [job EXCEPT !.todo = @ \ {o}] /\ run' = run
      BY <1>3, <2>2 DEF V!Check
    <3> QED BY <2>1, <3>1 DEF JobType, JobInv
  <2>3. CASE ~V!VerifyOk(table[o], 0)
    <3>1. /\ job' = [job EXCEPT !.todo = @ \ {o}, !.pc = "alert", !.org = {o}]
          /\ run' = [run EXCEPT !.found = @ \cup {o}]
      BY <1>3, <2>3 DEF V!Check
    <3> QED BY <2>1, <3>1 DEF JobType, JobInv
  <2> QED BY <2>2, <2>3
<1>4. ASSUME NEW o \in Orgs, V!AlertRead(o) PROVE JobType' /\ JobInv'
  <2> DEFINE r == V!NewRow(V!Tip(table[o]) + 1, V!TipHash(table[o]), Alert)
  <2>1. PlacedRow(r)
    BY NewRowPlaced DEF TablesInv
  <2>2. job.pc = "alert" /\ job' = [job EXCEPT !.pc = "write", !.row = {r}] /\ run' = run /\ tampers' = tampers
    BY <1>4 DEF V!AlertRead
  <2> HIDE DEF r
  <2>3. JobType'
    BY <2>2 DEF JobType
  <2>4. job'.pc = "write" /\ job'.row = {r} /\ job'.org = job.org /\ job'.unsent = job.unsent /\ job'.poisoned = job.poisoned
    BY <2>2 DEF JobType
  <2>5. \E q : job'.row = {q} /\ PlacedRow(q)
    BY <2>1, <2>4
  <2> QED BY <2>2, <2>3, <2>4, <2>5 DEF JobInv
<1>5. ASSUME NEW o \in Orgs, V!AlertWrite(o) PROVE JobType' /\ JobInv'
  BY <1>5 DEF V!AlertWrite, JobType, JobInv
<1>6. ASSUME NEW o \in Orgs, V!AlertRaced(o) PROVE JobType' /\ JobInv'
  BY <1>6 DEF V!AlertRaced, JobType, JobInv
<1>7. ASSUME NEW o \in Orgs, V!Emit(o) PROVE JobType' /\ JobInv'
  BY <1>7 DEF V!Emit, JobType, JobInv
<1>8. CASE V!Start
  <2>1. /\ job' = [pc |-> "loop", todo |-> Orgs, org |-> {}, row |-> {}, unsent |-> {},
                   poisoned |-> FALSE]
        /\ run' = [n |-> run.n + 1, found |-> {}, rows |-> {}, hooks |-> {}, exit |-> {}]
        /\ run.n < MaxRuns /\ tampers' = tampers
    BY <1>8 DEF V!Start, V!Idle
  <2>2. JobType'
    BY <2>1 DEF JobType, V!VerifyAssumption
  <2> QED BY <2>1, <2>2 DEF JobInv
<1>9. CASE V!Finish
  BY <1>9 DEF V!Finish, V!Idle, JobType, JobInv
<1>10. CASE V!Abort
  BY <1>10 DEF V!Abort, V!Idle, JobType, JobInv
<1>11. CASE V!Crash
  BY <1>11 DEF V!Crash, V!Idle, JobType, JobInv
<1> QED BY <1>1, <1>2, <1>3, <1>4, <1>5, <1>6, <1>7, <1>8, <1>9, <1>10, <1>11 DEF V!Next

(* The verifier accepts exactly the chains that appends can build, and a   *)
(* nightly run that exits 0 has recorded and announced every break it      *)
(* found (verify_audit_chain.py:60-120, audit/service.py:198).             *)
THEOREM BreaksTold == MCSpec => []BreaksAreTold
<1> USE ApprovalsMCAssumption
<1>1. MCInit => VerifyInv
  <2> SUFFICES ASSUME V!Init PROVE TablesInv /\ JobType /\ JobInv
    BY DEF MCInit, VerifyInv
  <2>1. TablesInv
    BY DEF V!Init, TablesInv, PlacedTable
  <2> QED BY <2>1 DEF V!Init, V!Idle, JobType, JobInv, V!VerifyAssumption
<1>2. VerifyInv /\ [MCNext]_mcVars => VerifyInv'
  <2> SUFFICES ASSUME VerifyInv, [MCNext]_mcVars, part' = "verify"
               PROVE  TablesInv' /\ JobType' /\ JobInv'
    BY DEF VerifyInv
  <2>1. part = "verify" /\ TablesInv /\ JobType /\ JobInv
    BY DEF VerifyInv, MCNext, mcVars
  <2>2. CASE UNCHANGED verifyVars
    <3>1. TablesInv'
      BY <2>1, <2>2 DEF verifyVars, TablesInv, PlacedTable, PlacedRow
    <3> QED BY <2>1, <2>2, <3>1 DEF verifyVars, JobType, JobInv, PlacedRow
  <2>3. CASE V!Next
    <3>1. JobType' /\ JobInv'
      BY <2>1, <2>3, JobStep
    <3>2. CASE UNCHANGED table
      BY <2>1, <3>1, <3>2 DEF TablesInv, PlacedTable, PlacedRow
    <3>3. ASSUME NEW o \in Orgs,
                 (\E e \in Events : V!Record(o, e)) \/ V!Tamper(o) \/ V!AlertWrite(o)
          PROVE  TablesInv'
      BY <2>1, <3>3, TablesStep
    <3> QED BY <2>3, <3>1, <3>2, <3>3 DEF V!Next, V!Check, V!AlertRead, V!AlertRaced,
              V!Emit, V!Start, V!Finish, V!Abort, V!Crash
  <2> QED BY <2>1, <2>2, <2>3 DEF MCNext, mcVars
<1>3. VerifyInv => BreaksAreTold
  <2> SUFFICES ASSUME TablesInv, JobType, JobInv
               PROVE  V!TypeOK /\ V!VerifierExact /\ V!ZeroMeansTold /\ V!AnnouncedIsRecorded
    BY DEF VerifyInv, BreaksAreTold
  <2>1. V!VerifierExact
    BY VerifierIsExact DEF V!VerifierExact, TablesInv
  <2>2. V!TypeOK
    BY DEF V!TypeOK, TablesInv, PlacedTable, PlacedRow, JobType
  <2>3. V!ZeroMeansTold /\ V!AnnouncedIsRecorded
    BY DEF V!ZeroMeansTold, V!AnnouncedIsRecorded, JobInv
  <2> QED BY <2>1, <2>2, <2>3
<1> QED BY <1>1, <1>2, <1>3, PTL DEF MCSpec

=============================================================================
