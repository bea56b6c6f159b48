------------------------ MODULE DeliveriesMC_proofs ------------------------
(***************************************************************************)
(* For any grants, rows, workers, endpoints, clients and bounds: the chain *)
(* tells the state of every JIT grant; a webhook event is seen again only  *)
(* after a rollback or a replay, and what the console shows of it is what  *)
(* happened; whoever subscribed is told and knows the secret.              *)
(*                                                                         *)
(* Each part has an inductive invariant.  Of grants: what a caller still   *)
(* has to write is possible (WritesHold), and no two callers create the    *)
(* same grant (GrantedOnce).  Of the outbox: a row is held by one worker   *)
(* at most and is pending (LocksHold); attempts counts the posts since the *)
(* last replay that were committed (PostsCounted), the acknowledgements    *)
(* are those of open and of lost batches, one per replay and one if it is  *)
(* delivered (AcksCounted); what a replay read has not changed unless it   *)
(* was pending (ReplayHolds).  Of endpoints: an answer under way shows the *)
(* secret that is stored (AnswersHold), and a change that is being         *)
(* announced reaches who had subscribed when it began (EnqueueHolds).      *)
(***************************************************************************)
EXTENDS DeliveriesMC, SequenceTheorems, TLAPS

-----------------------------------------------------------------------------
(* A caller has still to write the grant.                                  *)
Writes(j, g) == g \in job[j].todo \/ (job[j].pc = "append" /\ g \in job[j].now)

(* What a caller knows of a grant it has still to write: it does not exist *)
(* yet, or it is active unless somebody else ended it since.               *)
WritesHold ==
  \A j \in J!Callers, g \in Grants :
    Writes(j, g) => IF job[j].word = "granted" THEN j \in Admins /\ state[g] = "none"
                    ELSE \/ state[g] = "active"
                         \/ state[g] = "inactive" /\ g \in job[j].stale

(* No two callers create the same grant.                                   *)
GrantedOnce ==
  \A i, j \in J!Callers, g \in Grants :
    /\ i # j /\ job[i].word = "granted" /\ job[j].word = "granted"
    => ~(Writes(i, g) /\ Writes(j, g))

(* What holds of the grants, their trail and their callers.                *)
GrantsInv == J!TypeOK /\ J!TrailMatchesGrant /\ WritesHold /\ GrantedOnce

(* The facts about a trail that the proofs need.                           *)
LEMMA AppendTrail ==
  ASSUME NEW S, NEW t \in Seq(S), NEW e \in S
  PROVE  /\ Append(t, e) \in Seq(S)
         /\ Append(t, e) # <<>>
         /\ t = <<>> => Append(t, e) = <<e>>
         /\ Len(Append(t, e)) = Len(t) + 1
         /\ Append(t, e)[Len(t) + 1] = e
         /\ \A i \in 1 .. Len(t) : Append(t, e)[i] = t[i]
         /\ Len(t) \in Nat
<1>1. Append(<<>>, e) = <<e>>
  OBVIOUS
<1>2. t = <<>> => Append(t, e) = <<e>>
  BY <1>1, Zenon
<1> QED BY <1>2, AppendProperties

(* Initially nothing is granted and nobody calls.                          *)
LEMMA GrantsInit == J!Init => GrantsInv
<1> SUFFICES ASSUME J!Init PROVE GrantsInv
  OBVIOUS
<1>1. \A j \in J!Callers : job[j] \in J!JobType /\ job[j].todo = {} /\ job[j].now = {}
  BY DEF J!Init, J!NoJob, J!JobType, J!Words
<1>2. J!TypeOK
  <2>1. trail \in [Grants -> Seq(J!Words)]
    BY DEF J!Init
  <2>2. trouble \in 0 .. MaxTrouble
    BY DeliveriesAssumption DEF J!Init, J!JitAssumption
  <2> QED BY <1>1, <2>1, <2>2 DEF J!Init, J!TypeOK
<1>3. J!TrailMatchesGrant
  <2>1. \A g \in Grants : state[g] = "none" /\ trail[g] = <<>>
    BY DEF J!Init
  <2>2. \A g \in Grants : ~J!Ended(g)
    <3>1. Len(<<>>) = 0
      OBVIOUS
    <3>2. \A g \in Grants : Len(trail[g]) = 0
      BY <2>1, <3>1
    <3>3. \A i \in 1 .. 0 : FALSE
      OBVIOUS
    <3> QED BY <3>2, <3>3, Zenon DEF J!Ended
  <2>3. <<>> # <<"granted">>
    OBVIOUS
  <2>4. ASSUME NEW g \in Grants
        PROVE  /\ state[g] = "none" <=> trail[g] = <<>>
               /\ state[g] = "active" <=> trail[g] = <<"granted">>
               /\ state[g] = "inactive" <=> J!Ended(g)
    <3>1. state[g] # "active" /\ state[g] # "inactive"
      BY <2>1
    <3>2. trail[g] # <<"granted">>
      BY <2>1, <2>3, Zenon
    <3> QED BY <2>1, <2>2, <3>1, <3>2, Zenon
  <2> QED BY <2>4, Zenon DEF J!TrailMatchesGrant
<1>4. WritesHold /\ GrantedOnce
  BY <1>1 DEF WritesHold, GrantedOnce, Writes
<1> QED BY <1>2, <1>3, <1>4 DEF GrantsInv

(* A caller takes a step that commits nothing about a grant.               *)
LEMMA JobLocalStep ==
  ASSUME GrantsInv, NEW j \in J!Callers, NEW q \in J!JobType,
         job' = [job EXCEPT ![j] = q], UNCHANGED <<state, trail>>,
         overdue' \in [Grants -> BOOLEAN], events' \subseteq Grants \X J!Words,
         trouble' \in 0 .. MaxTrouble,
         \A g, h \in q.now : g = h, q.now \cap q.todo = {},
         \A g \in Grants : g \in q.todo \/ (q.pc = "append" /\ g \in q.now) =>
            \/ Writes(j, g) /\ q.word = job[j].word /\ q.stale = job[j].stale
            \/ q.word # "granted" /\ state[g] = "active"
            \/ /\ q.word = "granted" /\ j \in Admins /\ state[g] = "none"
               /\ \A i \in J!Callers \ {j} : ~(job[i].word = "granted" /\ Writes(i, g))
  PROVE  GrantsInv'
<1>1. job'[j] = q /\ \A i \in J!Callers \ {j} : job'[i] = job[i]
  BY DEF GrantsInv, J!TypeOK
<1>2. J!TypeOK'
  BY <1>1 DEF GrantsInv, J!TypeOK
<1>3. J!TrailMatchesGrant'
  BY DEF GrantsInv, J!TrailMatchesGrant, J!Ended
<1>4. WritesHold'
  <2>1. ASSUME NEW i \in J!Callers, NEW g \in Grants, Writes(i, g)'
        PROVE  IF job'[i].word = "granted" THEN i \in Admins /\ state'[g] = "none"
               ELSE \/ state'[g] = "active"
                    \/ state'[g] = "inactive" /\ g \in job'[i].stale
    <3>1. CASE i # j
      BY <1>1, <2>1, <3>1 DEF GrantsInv, WritesHold, Writes
    <3>2. CASE i = j
      <4>1. CASE Writes(j, g) /\ q.word = job[j].word /\ q.stale = job[j].stale
        BY <1>1, <3>2, <4>1 DEF GrantsInv, WritesHold
      <4>2. CASE q.word # "granted" /\ state[g] = "active"
        BY <1>1, <3>2, <4>2
      <4>3. CASE q.word = "granted" /\ j \in Admins /\ state[g] = "none"
        BY <1>1, <2>1, <3>2, <4>3 DEF Writes
      <4> QED BY <1>1, <2>1, <3>2, <4>1, <4>2, <4>3 DEF Writes
    <3> QED BY <3>1, <3>2
  <2> QED BY <2>1 DEF WritesHold
<1>5. GrantedOnce'
  BY <1>1 DEF GrantsInv, GrantedOnce, WritesHold, Writes
<1> QED BY <1>2, <1>3, <1>4, <1>5 DEF GrantsInv

(* What a caller has to do without a call, and when one starts.            *)
LEMMA IdleJob ==
  /\ J!NoJob \in J!JobType /\ J!NoJob.now = {} /\ J!NoJob.todo = {}
  /\ J!NoJob.word = "granted" /\ J!NoJob.pc = "idle"
BY DEF J!NoJob, J!JobType, J!Words

(* What a caller has to do when its call starts.                           *)
LEMMA BeginJob ==
  ASSUME NEW word \in J!Words, NEW todo \in SUBSET Grants
  PROVE  /\ J!Begin(word, todo) \in J!JobType
         /\ J!Begin(word, todo).now = {} /\ J!Begin(word, todo).todo = todo
         /\ J!Begin(word, todo).word = word /\ J!Begin(word, todo).pc = "tip"
<1>1. word \in {"granted", "revoked", "expired"} /\ "granted" \in J!Words
  BY DEF J!Words
<1> QED BY <1>1 DEF J!NoJob, J!Begin, J!JobType

(* A call begins: it creates what does not exist, ends what is active.     *)
LEMMA JobBegins ==
  ASSUME GrantsInv,
         \/ \E j \in Admins, g \in Grants : J!Create(j, g) \/ J!Revoke(j, g)
         \/ \E j \in Expirers : J!Expire(j)
  PROVE  GrantsInv'
<1>1. J!Callers = Admins \cup {Cron} /\ Expirers \subseteq J!Callers
  BY DeliveriesAssumption DEF J!Callers, J!JitAssumption
<1>2. {"granted", "revoked", "expired"} \subseteq J!Words
  BY DEF J!Words
<1>3. ASSUME NEW j \in J!Callers, NEW word \in J!Words, NEW todo \in SUBSET Grants,
             job' = [job EXCEPT ![j] = J!Begin(word, todo)],
             UNCHANGED <<state, overdue, trail, events, trouble>>,
             \A g \in todo :
               \/ word # "granted" /\ state[g] = "active"
               \/ /\ word = "granted" /\ j \in Admins /\ state[g] = "none"
                  /\ \A i \in J!Callers \ {j} : ~(job[i].word = "granted" /\ Writes(i, g))
      PROVE  GrantsInv'
  <2> DEFINE q == J!Begin(word, todo)
  <2>1. /\ q \in J!JobType /\ q.now = {} /\ q.todo = todo
        /\ q.word = word /\ q.pc = "tip"
    BY BeginJob
  <2>2. /\ overdue' \in [Grants -> BOOLEAN] /\ events' \subseteq Grants \X J!Words
        /\ trouble' \in 0 .. MaxTrouble
    BY <1>3 DEF GrantsInv, J!TypeOK
  <2> HIDE DEF q
  <2>3. job' = [job EXCEPT ![j] = q]
    BY <1>3 DEF q
  <2>4. (\A g, h \in q.now : g = h) /\ q.now \cap q.todo = {}
    BY <2>1
  <2>5. \A h \in Grants : h \in q.todo \/ (q.pc = "append" /\ h \in q.now) =>
            \/ Writes(j, h) /\ q.word = job[j].word /\ q.stale = job[j].stale
            \/ q.word # "granted" /\ state[h] = "active"
            \/ /\ q.word = "granted" /\ j \in Admins /\ state[h] = "none"
               /\ \A i \in J!Callers \ {j} : ~(job[i].word = "granted" /\ Writes(i, h))
    BY <1>3, <2>1
  <2> QED BY <1>3, <2>1, <2>2, <2>3, <2>4, <2>5, JobLocalStep
<1>4. ASSUME NEW j \in Admins, NEW g \in Grants, J!Create(j, g)
      PROVE  GrantsInv'
  <2>1. \A i \in J!Callers \ {j} : ~(job[i].word = "granted" /\ Writes(i, g))
    BY <1>1, <1>4 DEF J!Create, Writes, GrantsInv, WritesHold
  <2>2. /\ job' = [job EXCEPT ![j] = J!Begin("granted", {g})] /\ state[g] = "none"
        /\ UNCHANGED <<state, overdue, trail, events, trouble>>
    BY <1>4 DEF J!Create
  <2>3. /\ j \in J!Callers /\ "granted" \in J!Words /\ {g} \in SUBSET Grants
    BY <1>1, <1>2
  <2>4. \A h \in {g} :
          \/ "granted" # "granted" /\ state[h] = "active"
          \/ /\ "granted" = "granted" /\ j \in Admins /\ state[h] = "none"
             /\ \A i \in J!Callers \ {j} : ~(job[i].word = "granted" /\ Writes(i, h))
    BY <2>1, <2>2
  <2> QED BY <1>3, <2>2, <2>3, <2>4
<1>5. ASSUME NEW j \in Admins, NEW g \in Grants, J!Revoke(j, g)
      PROVE  GrantsInv'
  <2>1. /\ job' = [job EXCEPT ![j] = J!Begin("revoked", {g})] /\ state[g] = "active"
        /\ UNCHANGED <<state, overdue, trail, events, trouble>>
    BY <1>5 DEF J!Revoke
  <2>2. /\ j \in J!Callers /\ "revoked" \in J!Words /\ {g} \in SUBSET Grants
    BY <1>1, <1>2
  <2> QED BY <1>3, <2>1, <2>2
<1>6. ASSUME NEW j \in Expirers, J!Expire(j)
      PROVE  GrantsInv'
  BY <1>1, <1>2, <1>3, <1>6 DEF J!Expire, J!Due
<1> QED BY <1>4, <1>5, <1>6

(* A call takes one more of its grants, or announces what it did to one.   *)
LEMMA JobGoesOn ==
  ASSUME GrantsInv, NEW j \in J!Callers, J!ReadTip(j) \/ J!Emit(j)
  PROVE  GrantsInv'
<1>1. job[j] \in J!JobType /\ job[j].now \cap job[j].todo = {}
      /\ \A g, h \in job[j].now : g = h
  BY DEF GrantsInv, J!TypeOK
<1>2. /\ overdue \in [Grants -> BOOLEAN] /\ events \subseteq Grants \X J!Words
      /\ trouble \in 0 .. MaxTrouble /\ job \in [J!Callers -> J!JobType]
  BY DEF GrantsInv, J!TypeOK
<1>3. CASE J!ReadTip(j)
  <2>1. PICK g \in job[j].todo :
          job' = [job EXCEPT ![j].pc = "append", ![j].now = {g},
                             ![j].todo = @ \ {g}, ![j].tipValid = TRUE]
    BY <1>3 DEF J!ReadTip
  <2> DEFINE q == [job[j] EXCEPT !.pc = "append", !.now = {g}, !.todo = @ \ {g},
                                 !.tipValid = TRUE]
  <2>2. /\ q \in J!JobType /\ q.now = {g} /\ q.todo = job[j].todo \ {g}
        /\ q.word = job[j].word /\ q.stale = job[j].stale
    BY <1>1 DEF J!JobType
  <2>3. job' = [job EXCEPT ![j] = q]
    BY <1>2, <2>1
  <2> HIDE DEF q
  <2>4. (\A i, h \in q.now : i = h) /\ q.now \cap q.todo = {}
    BY <2>2
  <2>5. \A h \in Grants : h \in q.todo \/ (q.pc = "append" /\ h \in q.now) =>
            \/ Writes(j, h) /\ q.word = job[j].word /\ q.stale = job[j].stale
            \/ q.word # "granted" /\ state[h] = "active"
            \/ /\ q.word = "granted" /\ j \in Admins /\ state[h] = "none"
               /\ \A i \in J!Callers \ {j} : ~(job[i].word = "granted" /\ Writes(i, h))
    BY <1>1, <2>1, <2>2 DEF Writes
  <2> QED BY <1>2, <1>3, <2>2, <2>3, <2>4, <2>5, JobLocalStep DEF J!ReadTip
<1>4. CASE J!Emit(j)
  <2> DEFINE q == [job[j] EXCEPT !.unsent = @ \cup (job[j].now \X {job[j].word}), !.now = {},
                                 !.pc = IF job[j].todo = {} THEN "commit" ELSE "tip"]
  <2>2. /\ q \in J!JobType /\ q.now = {} /\ q.todo = job[j].todo
        /\ q.word = job[j].word /\ q.stale = job[j].stale
    BY <1>1 DEF J!JobType
  <2>3. job' = [job EXCEPT ![j] = q]
    BY <1>2, <1>4 DEF J!Emit
  <2> HIDE DEF q
  <2>4. (\A g, h \in q.now : g = h) /\ q.now \cap q.todo = {}
    BY <2>2
  <2>5. \A h \in Grants : h \in q.todo \/ (q.pc = "append" /\ h \in q.now) =>
            \/ Writes(j, h) /\ q.word = job[j].word /\ q.stale = job[j].stale
            \/ q.word # "granted" /\ state[h] = "active"
            \/ /\ q.word = "granted" /\ j \in Admins /\ state[h] = "none"
               /\ \A i \in J!Callers \ {j} : ~(job[i].word = "granted" /\ Writes(i, h))
    BY <2>2 DEF Writes
  <2> QED BY <1>2, <1>4, <2>2, <2>3, <2>4, <2>5, JobLocalStep DEF J!Emit
<1> QED BY <1>3, <1>4

(* A call ends without writing a grant.                                    *)
LEMMA JobEnds ==
  ASSUME GrantsInv, NEW j \in J!Callers, J!Conflict(j) \/ J!Commit(j) \/ J!Fail(j)
  PROVE  GrantsInv'
<1>1. job' = [job EXCEPT ![j] = J!NoJob] /\ UNCHANGED <<state, overdue, trail>>
  BY DEF J!Conflict, J!Commit, J!Fail
<1>2. /\ overdue' \in [Grants -> BOOLEAN] /\ events' \subseteq Grants \X J!Words
      /\ trouble' \in 0 .. MaxTrouble
  BY DeliveriesAssumption
     DEF GrantsInv, J!TypeOK, J!JobType, J!Conflict, J!Commit, J!Fail, J!JitAssumption
<1>3. /\ J!NoJob \in J!JobType /\ J!NoJob.now = {} /\ J!NoJob.todo = {}
  BY IdleJob
<1> DEFINE q == J!NoJob
<1>4. (\A g, h \in q.now : g = h) /\ q.now \cap q.todo = {}
  BY <1>3
<1>5. \A h \in Grants : h \in q.todo \/ (q.pc = "append" /\ h \in q.now) =>
       \/ Writes(j, h) /\ q.word = job[j].word /\ q.stale = job[j].stale
       \/ q.word # "granted" /\ state[h] = "active"
       \/ /\ q.word = "granted" /\ j \in Admins /\ state[h] = "none"
          /\ \A i \in J!Callers \ {j} : ~(job[i].word = "granted" /\ Writes(i, h))
  BY <1>3, IdleJob
<1>6. q \in J!JobType /\ job' = [job EXCEPT ![j] = q]
  BY <1>1, <1>3
<1> HIDE DEF q
<1> QED BY <1>1, <1>2, <1>4, <1>5, <1>6, JobLocalStep

(* Appending to the chain takes every reader's tip away, and tells those   *)
(* that have still to write a grant that it has ended.                     *)
LEMMA SupersededJob ==
  ASSUME NEW jobs \in [J!Callers -> J!JobType], NEW ended \in SUBSET Grants,
         NEW i \in J!Callers
  PROVE  LET q == J!Superseded(jobs, ended)[i]
         IN  /\ q \in J!JobType /\ q.now = jobs[i].now /\ q.todo = jobs[i].todo
             /\ q.word = jobs[i].word /\ q.pc = jobs[i].pc
             /\ q.stale = jobs[i].stale \cup (ended \cap (jobs[i].todo \cup jobs[i].now))
BY DEF J!Superseded, J!JobType

(* A grant and its audit row are committed together.                       *)
LEMMA JobRecords ==
  ASSUME GrantsInv, NEW j \in J!Callers, J!Record(j)
  PROVE  GrantsInv'
<1> DEFINE word == job[j].word
           now == job[j].now
           ended == IF word = "granted" THEN {} ELSE now
<1>1. /\ job \in [J!Callers -> J!JobType] /\ job[j].pc = "append" /\ word \in J!Words
      /\ now \subseteq Grants /\ ended \subseteq Grants
      /\ now \cap job[j].todo = {} /\ \A g, h \in now : g = h
  BY DEF GrantsInv, J!TypeOK, J!JobType, J!Record
<1>2. \A g \in now : Writes(j, g) /\ g \in Grants
  BY <1>1 DEF Writes
<1>3. /\ job'[j] \in J!JobType /\ job'[j].now \subseteq now /\ job'[j].pc # "append"
      /\ job'[j].now \cap job'[j].todo = {}
      /\ \A g \in job'[j].todo : /\ g \in job[j].todo /\ job'[j].word = word
                                 /\ job'[j].stale = job[j].stale
  <2> DEFINE after == CASE J!Announces(j) -> "emit"
                        [] job[j].todo # {} -> "tip"
                        [] OTHER -> "idle"
  <2>1. after \in {"emit", "tip", "idle"}
    OBVIOUS
  <2>2. job'[j] = IF after = "idle" THEN J!NoJob
                  ELSE [job[j] EXCEPT !.pc = after, !.unsent = {}, !.tipValid = FALSE]
    BY <1>1 DEF J!Record, J!Superseded
  <2> HIDE DEF after
  <2>3. CASE after = "idle"
    BY <2>2, <2>3, IdleJob
  <2>4. CASE after # "idle"
    <3> DEFINE q == [job[j] EXCEPT !.pc = after, !.unsent = {}, !.tipValid = FALSE]
    <3>1. job[j] \in J!JobType
      BY <1>1
    <3>2. /\ q \in J!JobType /\ q.now = now /\ q.todo = job[j].todo /\ q.word = word
          /\ q.pc = after /\ q.stale = job[j].stale
      BY <2>1, <3>1 DEF J!JobType
    <3>3. job'[j] = q
      BY <2>2, <2>4
    <3> HIDE DEF q
    <3> QED BY <1>1, <2>1, <3>2, <3>3
  <2> QED BY <2>3, <2>4
<1>4. ASSUME NEW i \in J!Callers \ {j}
      PROVE  /\ job'[i] \in J!JobType /\ job'[i].now = job[i].now /\ job'[i].todo = job[i].todo
             /\ job'[i].word = job[i].word /\ job'[i].pc = job[i].pc
             /\ job'[i].stale = job[i].stale \cup (ended \cap (job[i].todo \cup job[i].now))
  <2>1. job'[i] = J!Superseded(job, ended)[i]
    BY <1>1 DEF J!Record, J!Superseded
  <2> QED BY <1>1, <2>1, SupersededJob
<1>5. /\ state' = [g \in Grants |-> IF g \notin now THEN state[g]
                                   ELSE IF word = "granted" THEN "active" ELSE "inactive"]
      /\ trail' = [g \in Grants |-> IF g \in now THEN Append(trail[g], word) ELSE trail[g]]
  BY DEF J!Record
<1>6. J!TypeOK'
  <2>1. job' \in [J!Callers -> J!JobType]
    <3> DEFINE jobs == J!Superseded(job, ended)
    <3>1. PICK q : job' = [jobs EXCEPT ![j] = q]
      BY DEF J!Record
    <3>2. DOMAIN jobs = J!Callers
      BY DEF J!Superseded
    <3>3. job' = [i \in J!Callers |-> job'[i]]
      BY <3>1, <3>2
    <3> QED BY <1>3, <1>4, <3>3
  <2>2. state' \in [Grants -> {"none", "active", "inactive"}]
    BY <1>5 DEF GrantsInv, J!TypeOK
  <2>3. trail' \in [Grants -> Seq(J!Words)]
    BY <1>1, <1>5, AppendTrail DEF GrantsInv, J!TypeOK
  <2>4. /\ overdue' \in [Grants -> BOOLEAN] /\ events' \subseteq Grants \X J!Words
        /\ trouble' \in 0 .. MaxTrouble
    BY <1>1 DEF GrantsInv, J!TypeOK, J!JobType, J!Record
  <2>5. \A i \in J!Callers : /\ \A g, h \in job'[i].now : g = h
                             /\ job'[i].now \cap job'[i].todo = {}
    <3>1. \A i \in J!Callers \ {j} : /\ \A g, h \in job[i].now : g = h
                                     /\ job[i].now \cap job[i].todo = {}
      BY DEF GrantsInv, J!TypeOK
    <3>2. (\A g, h \in job'[j].now : g = h) /\ job'[j].now \cap job'[j].todo = {}
      BY <1>1, <1>3
    <3> QED BY <1>4, <3>1, <3>2
  <2> QED BY <2>1, <2>2, <2>3, <2>4, <2>5 DEF J!TypeOK
<1>7. J!TrailMatchesGrant'
  <2> SUFFICES ASSUME NEW g \in Grants
               PROVE  /\ state'[g] = "none" <=> trail'[g] = <<>>
                      /\ state'[g] = "active" <=> trail'[g] = <<"granted">>
                      /\ state'[g] = "inactive" <=> J!Ended(g)'
    BY DEF J!TrailMatchesGrant
  <2>1. CASE g \notin now
    BY <1>5, <2>1 DEF GrantsInv, J!TrailMatchesGrant, J!Ended
  <2>2. CASE g \in now /\ word = "granted"
    <3>1. state[g] = "none" /\ trail[g] = <<>>
      BY <1>2, <2>2 DEF GrantsInv, WritesHold, J!TrailMatchesGrant
    <3>2. state'[g] = "active" /\ trail'[g] = <<"granted">>
      BY <1>1, <1>5, <2>2, <3>1, AppendTrail DEF GrantsInv, J!TypeOK
    <3>3. ~J!Ended(g)'
      BY <3>2 DEF J!Ended, J!Endings
    <3> QED BY <3>2, <3>3
  <2>3. CASE g \in now /\ word # "granted"
    <3>1. trail[g] \in Seq(J!Words) /\ trail[g] # <<>>
      BY <1>2, <2>3 DEF GrantsInv, WritesHold, J!TrailMatchesGrant, J!TypeOK
    <3>2. state'[g] = "inactive" /\ trail'[g] = Append(trail[g], word)
      BY <1>5, <2>3
    <3>3. /\ trail'[g] # <<>> /\ Len(trail'[g]) = Len(trail[g]) + 1
          /\ trail'[g][Len(trail[g]) + 1] = word /\ Len(trail[g]) \in Nat
      BY <1>1, <3>1, <3>2, AppendTrail
    <3>4. J!Ended(g)'
      BY <1>1, <2>3, <3>3 DEF J!Ended, J!Endings
    <3>5. trail'[g] # <<"granted">>
      <4>1. Len(<<"granted">>) = 1 /\ <<"granted">>[1] = "granted"
        OBVIOUS
      <4> QED BY <2>3, <3>3, <4>1
    <3> QED BY <3>2, <3>3, <3>4, <3>5
  <2> QED BY <2>1, <2>2, <2>3
<1>8. ASSUME NEW i \in J!Callers, NEW g \in Grants, Writes(i, g)'
      PROVE  /\ Writes(i, g) /\ job'[i].word = job[i].word
             /\ i = j => g \notin now
             /\ g \in ended => g \in job'[i].stale
             /\ job[i].stale \subseteq job'[i].stale
  BY <1>1, <1>3, <1>4, <1>8 DEF Writes
<1>9. WritesHold'
  <2> SUFFICES ASSUME NEW i \in J!Callers, NEW g \in Grants, Writes(i, g)'
               PROVE  IF job'[i].word = "granted" THEN i \in Admins /\ state'[g] = "none"
                      ELSE \/ state'[g] = "active"
                           \/ state'[g] = "inactive" /\ g \in job'[i].stale
    BY DEF WritesHold
  <2>1. CASE g \notin now
    BY <1>5, <1>8, <2>1 DEF GrantsInv, WritesHold
  <2>2. CASE g \in now /\ word = "granted"
    <3>1. i # j /\ job[i].word # "granted" /\ state[g] = "none"
      BY <1>2, <1>8, <2>2 DEF GrantsInv, GrantedOnce, WritesHold
    <3> QED BY <1>8, <3>1 DEF GrantsInv, WritesHold
  <2>3. CASE g \in now /\ word # "granted"
    <3>1. state[g] # "none" /\ state'[g] = "inactive" /\ g \in ended
      BY <1>2, <1>5, <2>3 DEF GrantsInv, WritesHold
    <3> QED BY <1>8, <2>3, <3>1 DEF GrantsInv, WritesHold
  <2> QED BY <2>1, <2>2, <2>3
<1>10. GrantedOnce'
  BY <1>8 DEF GrantsInv, GrantedOnce
<1> QED BY <1>6, <1>7, <1>9, <1>10 DEF GrantsInv

(* Somebody else appends to the chain; time passes.                        *)
LEMMA OthersStep ==
  ASSUME GrantsInv, J!OtherRecord \/ \E g \in Grants : J!PassExpiry(g)
  PROVE  GrantsInv'
<1>1. job \in [J!Callers -> J!JobType] /\ {} \in SUBSET Grants
  BY DEF GrantsInv, J!TypeOK
<1>2. /\ job' \in [J!Callers -> J!JobType]
      /\ \A j \in J!Callers : /\ job'[j].now = job[j].now /\ job'[j].todo = job[j].todo
                              /\ job'[j].word = job[j].word /\ job'[j].pc = job[j].pc
                              /\ job'[j].stale = job[j].stale
  <2>1. CASE J!OtherRecord
    <3>1. job' = J!Superseded(job, {})
      BY <2>1 DEF J!OtherRecord
    <3>2. \A j \in J!Callers : J!Superseded(job, {})[j] \in J!JobType
      BY <1>1, SupersededJob
    <3>3. job' \in [J!Callers -> J!JobType]
      BY <3>1, <3>2 DEF J!Superseded
    <3>4. ASSUME NEW j \in J!Callers
          PROVE  /\ job'[j].now = job[j].now /\ job'[j].todo = job[j].todo
                 /\ job'[j].word = job[j].word /\ job'[j].pc = job[j].pc
                 /\ job'[j].stale = job[j].stale
      <4> DEFINE q == J!Superseded(job, {})[j]
      <4>1. /\ q.now = job[j].now /\ q.todo = job[j].todo /\ q.word = job[j].word
            /\ q.pc = job[j].pc
            /\ q.stale = job[j].stale \cup ({} \cap (job[j].todo \cup job[j].now))
        BY <1>1 DEF J!Superseded, J!JobType
      <4>2. job[j].stale \cup ({} \cap (job[j].todo \cup job[j].now)) = job[j].stale
        OBVIOUS
      <4> QED BY <3>1, <4>1, <4>2
    <3> QED BY <3>3, <3>4
  <2>2. CASE \E g \in Grants : J!PassExpiry(g)
    <3>1. job' = job
      BY <2>2 DEF J!PassExpiry
    <3> QED BY <1>1, <3>1
  <2> QED BY <2>1, <2>2
<1>3. UNCHANGED <<state, trail, events>>
  BY DEF J!OtherRecord, J!PassExpiry
<1>4. overdue' \in [Grants -> BOOLEAN] /\ trouble' \in 0 .. MaxTrouble
  <2>1. overdue \in [Grants -> BOOLEAN] /\ trouble \in 0 .. MaxTrouble /\ MaxTrouble \in Nat
    BY DeliveriesAssumption DEF GrantsInv, J!TypeOK, J!JitAssumption
  <2>2. CASE J!OtherRecord
    BY <2>1, <2>2 DEF J!OtherRecord
  <2>3. ASSUME NEW g \in Grants, J!PassExpiry(g)
        PROVE  overdue' \in [Grants -> BOOLEAN] /\ trouble' \in 0 .. MaxTrouble
    BY <2>1, <2>3 DEF J!PassExpiry
  <2> QED BY <2>2, <2>3
<1>5. J!TypeOK'
  BY <1>2, <1>3, <1>4 DEF GrantsInv, J!TypeOK
<1>6. J!TrailMatchesGrant'
  BY <1>3 DEF GrantsInv, J!TrailMatchesGrant, J!Ended
<1>7. WritesHold' /\ GrantedOnce'
  BY <1>2, <1>3 DEF GrantsInv, WritesHold, GrantedOnce, Writes
<1> QED BY <1>5, <1>6, <1>7 DEF GrantsInv

(* Every step of a caller, of time or of another tenant keeps it.          *)
LEMMA GrantsStep == GrantsInv /\ J!Next => GrantsInv'
<1>1. Expirers \subseteq J!Callers
  BY DeliveriesAssumption DEF J!Callers, J!JitAssumption
<1> QED BY <1>1, JobBegins, JobGoesOn, JobEnds, JobRecords, OthersStep DEF J!Next, J!JobStep

(* Only the commit of an ending appends to the trail of an ended grant,    *)
(* and its caller was told that somebody else had ended it.                *)
LEMMA EndsAgain ==
  ASSUME GrantsInv, J!Next
  PROVE  J!EndsAgainOnlyByOverlapStep
<1> SUFFICES ASSUME NEW g \in Grants, J!Ended(g), trail'[g] # trail[g]
             PROVE  \E j \in J!Callers : job[j].pc = "append" /\ g \in job[j].now \cap job[j].stale
  BY DEF J!EndsAgainOnlyByOverlapStep
<1>1. PICK j \in J!Callers : J!Record(j)
  BY DEF J!Next, J!JobStep, J!Create, J!Revoke, J!Expire, J!ReadTip, J!Conflict, J!Emit,
         J!Commit, J!Fail, J!PassExpiry, J!OtherRecord
<1>2. job[j].pc = "append" /\ g \in job[j].now
  BY <1>1 DEF J!Record
<1>3. state[g] = "inactive" /\ Writes(j, g)
  BY <1>2 DEF GrantsInv, J!TrailMatchesGrant, Writes
<1> QED BY <1>2, <1>3 DEF GrantsInv, WritesHold

-----------------------------------------------------------------------------
(* The outbox, with any rows and any bound on replays: the run has two     *)
(* instances of it.                                                        *)
O(rows, replays) == INSTANCE WebhookOutbox WITH Rows <- rows, MaxReplays <- replays

(* What a worker holds is pending and its own.                             *)
LocksHold(rows) ==
  /\ \A v, w \in Workers : v # w => (marked[v] \cup batch[v]) \cap (marked[w] \cup batch[w]) = {}
  /\ \A w \in Workers, r \in rows :
       /\ r \in marked[w] \cup batch[w] => status[r] = "pending"
       /\ r \in marked[w] => aged[r]
       /\ outcome[w][r] # "none" => r \in batch[w]
  /\ \A w \in Workers : /\ pc[w] \in {"idle", "select"} => batch[w] = {}
                        /\ pc[w] = "idle" => marked[w] = {}

(* A row has been posted, or acknowledged, in a batch that is still open.  *)
InFlight(r, results) == IF \E w \in Workers : outcome[w][r] \in results THEN 1 ELSE 0

(* attempts counts the posts since the last replay that were committed.    *)
PostsCounted(rows) ==
  \A r \in rows :
    LET open == tally[r].lostPosts + InFlight(r, {"acked", "failed"})
    IN  /\ attempts[r] + open <= tally[r].posts
        /\ tally[r].posts <= MaxAttempts * tally[r].replays + attempts[r] + open
        /\ status[r] \in {"none", "pending"} => attempts[r] < MaxAttempts

(* Acknowledgements are those of batches that are open or were lost, one   *)
(* per replay, and one of a row that is delivered.                         *)
AcksCounted(rows) ==
  \A r \in rows :
    LET open == tally[r].lostAcks + InFlight(r, {"acked"})
    IN  /\ open <= tally[r].acks
        /\ tally[r].acks <= open + tally[r].replays
                            + IF status[r] \in {"delivered", "gone"} THEN 1 ELSE 0

(* A post without a secret is remembered.                                  *)
UnsignedTold(rows) ==
  \A w \in Workers, r \in rows : outcome[w][r] = "unsigned" => tally[r].unsigned

(* What the administrator's session read of a row that is settled stays.   *)
ReplayHolds(rows, replays) ==
  \A r \in rows :
    r \in replay.on =>
      /\ tally[r].replays < replays
      /\ \/ replay.status = "pending"
         \/ status[r] = "gone"
         \/ status[r] = replay.status /\ attempts[r] = replay.attempts

(* What holds of the rows, the workers and the administrator.              *)
OutboxInv(rows, replays) ==
  /\ O(rows, replays)!TypeOK /\ LocksHold(rows)
  /\ PostsCounted(rows) /\ AcksCounted(rows) /\ UnsignedTold(rows)
  /\ ReplayHolds(rows, replays) /\ O(rows, replays)!SettledIsTrue

(* The bounds, as the assumption of the run states them.                   *)
LEMMA Bounds ==
  /\ MaxAttempts \in Nat /\ MaxAttempts > 0 /\ MaxAborts \in Nat
  /\ Rows \subseteq Nat /\ MaxReplays \in Nat
BY DeliveriesAssumption DEF W!OutboxAssumption, R!OutboxAssumption

(* Initially the table is empty and nobody works.                          *)
LEMMA OutboxInit ==
  ASSUME NEW rows \in SUBSET Nat, NEW replays \in Nat, O(rows, replays)!Init
  PROVE  OutboxInv(rows, replays)
<1>1. /\ status = [r \in rows |-> "none"] /\ attempts = [r \in rows |-> 0]
      /\ due = [r \in rows |-> FALSE] /\ aged = due /\ owed = due
      /\ endpoint = "up" /\ aborts = 0
      /\ pc = [w \in Workers |-> "idle"] /\ marked = [w \in Workers |-> {}] /\ batch = marked
      /\ outcome = [w \in Workers |-> [r \in rows |-> "none"]]
      /\ replay = [on |-> {}, status |-> "pending", attempts |-> 0]
      /\ tally = [r \in rows |-> [posts |-> 0, acks |-> 0, lostPosts |-> 0, lostAcks |-> 0,
                                  replays |-> 0, unsigned |-> FALSE]]
  BY DEF O!Init, O!NoReplay, O!NoTally
<1>2. O(rows, replays)!TypeOK
  BY <1>1, Bounds DEF O!TypeOK
<1>3. LocksHold(rows) /\ UnsignedTold(rows) /\ ReplayHolds(rows, replays)
  BY <1>1 DEF LocksHold, UnsignedTold, ReplayHolds
<1>4. \A r \in rows : InFlight(r, {"acked", "failed"}) = 0 /\ InFlight(r, {"acked"}) = 0
  BY <1>1 DEF InFlight
<1>5. PostsCounted(rows) /\ AcksCounted(rows) /\ O(rows, replays)!SettledIsTrue
  BY <1>1, <1>4, Bounds DEF PostsCounted, AcksCounted, O!SettledIsTrue
<1> QED BY <1>2, <1>3, <1>5 DEF OutboxInv

(* A step that leaves the workers and the posts alone, and at most brings  *)
(* a row into the table or past its day.                                   *)
LEMMA QuietOutbox ==
  ASSUME NEW rows \in SUBSET Nat, NEW replays \in Nat, OutboxInv(rows, replays),
         UNCHANGED <<attempts, pc, marked, batch, outcome, aborts, tally, owed>>,
         status' \in [rows -> {"none", "pending", "delivered", "dead", "gone"}],
         \A r \in rows : status'[r] = status[r] \/ (status[r] = "none" /\ status'[r] = "pending"),
         {due', aged'} \subseteq [rows -> BOOLEAN], \A r \in rows : aged[r] => aged'[r],
         endpoint' \in {"up", "deleting", "kept", "deleted"},
         replay' \in [on : {{}} \cup {{r} : r \in rows},
                      status : {"pending", "delivered", "dead"}, attempts : 0 .. MaxAttempts],
         ReplayHolds(rows, replays)'
  PROVE  OutboxInv(rows, replays)'
<1>1. O(rows, replays)!TypeOK'
  BY DEF OutboxInv, O!TypeOK
<1>2. LocksHold(rows)' /\ UnsignedTold(rows)'
  BY DEF OutboxInv, LocksHold, UnsignedTold
<1>3. \A r \in rows : /\ InFlight(r, {"acked", "failed"})' = InFlight(r, {"acked", "failed"})
                      /\ InFlight(r, {"acked"})' = InFlight(r, {"acked"})
  BY DEF InFlight
<1>4. PostsCounted(rows)' /\ AcksCounted(rows)'
  BY <1>3 DEF OutboxInv, PostsCounted, AcksCounted
<1>5. O(rows, replays)!SettledIsTrue'
  BY DEF OutboxInv, O!SettledIsTrue
<1> QED BY <1>1, <1>2, <1>4, <1>5 DEF OutboxInv

(* A row that is not in a batch has nothing in flight; one that is has     *)
(* what its worker did with it.                                            *)
LEMMA FlightOf ==
  ASSUME NEW rows \in SUBSET Nat, LocksHold(rows), NEW r \in rows, NEW results, "none" \notin results
  PROVE  /\ \A w \in Workers :
              r \in batch[w] => InFlight(r, results) = IF outcome[w][r] \in results THEN 1 ELSE 0
         /\ (\A w \in Workers : r \notin batch[w]) => InFlight(r, results) = 0
         /\ InFlight(r, results) \in {0, 1}
BY DEF LocksHold, InFlight

(* Events are queued, backoffs and days pass, a delivery is read for a     *)
(* replay, the deletion of the endpoint begins or gives way.               *)
LEMMA QuietInv ==
  ASSUME NEW rows \in SUBSET Nat, NEW replays \in Nat, OutboxInv(rows, replays),
         \/ \E r \in rows : \/ O(rows, replays)!Enqueue(r) \/ O(rows, replays)!PassBackoff(r)
                            \/ O(rows, replays)!PassDay(r) \/ O(rows, replays)!ReplayRead(r)
         \/ O(rows, replays)!StartDelete \/ O(rows, replays)!DeleteIsVictim
  PROVE  OutboxInv(rows, replays)'
<1>1. /\ O(rows, replays)!TypeOK /\ ReplayHolds(rows, replays)
      /\ status \in [rows -> {"none", "pending", "delivered", "dead", "gone"}]
      /\ due \in [rows -> BOOLEAN] /\ aged \in [rows -> BOOLEAN]
      /\ endpoint \in {"up", "deleting", "kept", "deleted"}
      /\ replay \in [on : {{}} \cup {{r} : r \in rows},
                     status : {"pending", "delivered", "dead"}, attempts : 0 .. MaxAttempts]
      /\ attempts \in [rows -> 0 .. MaxAttempts]
  BY DEF OutboxInv, O!TypeOK
<1>2. ASSUME NEW r \in rows, O(rows, replays)!Enqueue(r)
      PROVE  OutboxInv(rows, replays)'
  <2>1. ReplayHolds(rows, replays)'
    BY <1>1, <1>2 DEF ReplayHolds, O!Enqueue, O!history, O!workers
  <2> QED BY <1>1, <1>2, <2>1, QuietOutbox DEF O!Enqueue, O!history, O!workers
<1>3. ASSUME NEW r \in rows, O(rows, replays)!PassBackoff(r)
      PROVE  OutboxInv(rows, replays)'
  <2>1. ReplayHolds(rows, replays)'
    BY <1>1, <1>3 DEF ReplayHolds, O!PassBackoff, O!history, O!workers
  <2> QED BY <1>1, <1>3, <2>1, QuietOutbox DEF O!PassBackoff, O!history, O!workers
<1>4. ASSUME NEW r \in rows, O(rows, replays)!PassDay(r)
      PROVE  OutboxInv(rows, replays)'
  <2>1. ReplayHolds(rows, replays)'
    BY <1>1, <1>4 DEF ReplayHolds, O!PassDay, O!history, O!workers
  <2> QED BY <1>1, <1>4, <2>1, QuietOutbox DEF O!PassDay, O!history, O!workers
<1>5. ASSUME NEW r \in rows, O(rows, replays)!ReplayRead(r)
      PROVE  OutboxInv(rows, replays)'
  <2>1. /\ UNCHANGED <<status, attempts, due, aged, endpoint, pc, marked, batch, outcome,
                       aborts, tally, owed>>
        /\ status[r] \in {"pending", "delivered", "dead"} /\ tally[r].replays < replays
        /\ replay' = [on |-> {r}, status |-> status[r], attempts |-> attempts[r]]
    BY <1>1, <1>5 DEF O!ReplayRead, O!outbox, O!history, O!workers
  <2>2. ReplayHolds(rows, replays)'
    BY <2>1 DEF ReplayHolds
  <2>3. replay' \in [on : {{}} \cup {{s} : s \in rows},
                     status : {"pending", "delivered", "dead"}, attempts : 0 .. MaxAttempts]
    BY <1>1, <2>1
  <2> QED BY <1>1, <2>1, <2>2, <2>3, QuietOutbox
<1>6. CASE O(rows, replays)!StartDelete \/ O(rows, replays)!DeleteIsVictim
  <2>1. /\ UNCHANGED <<status, attempts, due, aged, pc, marked, batch, outcome, replay,
                       aborts, tally, owed>>
        /\ endpoint' \in {"up", "deleting", "kept", "deleted"}
    BY <1>6 DEF O!StartDelete, O!DeleteIsVictim, O!history, O!workers
  <2>2. ReplayHolds(rows, replays)'
    BY <1>1, <2>1 DEF ReplayHolds
  <2> QED BY <1>1, <2>1, <2>2, QuietOutbox
<1> QED BY <1>2, <1>3, <1>4, <1>5, <1>6

(* The administrator's session writes the row it read: nobody holds it.    *)
LEMMA ReplayWriteInv ==
  ASSUME NEW rows \in SUBSET Nat, NEW replays \in Nat, OutboxInv(rows, replays),
         NEW r \in rows, O(rows, replays)!ReplayWrite(r)
  PROVE  OutboxInv(rows, replays)'
<1>1. /\ status \in [rows -> {"none", "pending", "delivered", "dead", "gone"}]
      /\ attempts \in [rows -> 0 .. MaxAttempts]
      /\ owed \in [rows -> BOOLEAN]
      /\ tally \in [rows -> [posts : Nat, acks : Nat, lostPosts : Nat, lostAcks : Nat,
                             replays : 0 .. replays, unsigned : BOOLEAN]]
      /\ replay.status \in {"pending", "delivered", "dead"}
      /\ LocksHold(rows) /\ ReplayHolds(rows, replays)
  BY DEF OutboxInv, O!TypeOK
<1>2. /\ UNCHANGED <<due, aged, endpoint, pc, marked, batch, outcome, aborts>>
      /\ replay.on = {r} /\ replay' = [on |-> {}, status |-> "pending", attempts |-> 0]
  BY DEF O!ReplayWrite, O!workers, O!NoReplay
<1>3. \A w \in Workers : r \notin marked[w] \cup batch[w]
  BY DEF O!ReplayWrite, O!Free, O!Held
<1>4. ReplayHolds(rows, replays)'
  BY <1>2 DEF ReplayHolds
<1>5. CASE status[r] = "gone"
  <2>1. UNCHANGED <<status, attempts, tally, owed>>
    BY <1>5 DEF O!ReplayWrite, O!history
  <2>2. replay' \in [on : {{}} \cup {{s} : s \in rows},
                     status : {"pending", "delivered", "dead"}, attempts : 0 .. MaxAttempts]
    BY <1>2, Bounds
  <2>3. /\ UNCHANGED <<attempts, pc, marked, batch, outcome, aborts, tally, owed>>
        /\ status' \in [rows -> {"none", "pending", "delivered", "dead", "gone"}]
        /\ \A s \in rows : status'[s] = status[s]
        /\ {due', aged'} \subseteq [rows -> BOOLEAN] /\ \A s \in rows : aged[s] => aged'[s]
        /\ endpoint' \in {"up", "deleting", "kept", "deleted"}
    BY <1>1, <1>2, <2>1 DEF OutboxInv, O!TypeOK
  <2> QED BY <1>4, <2>2, <2>3, QuietOutbox
<1>6. CASE status[r] # "gone"
  <2>1. /\ status' = [status EXCEPT ![r] = IF replay.status = "pending" THEN @ ELSE "pending"]
        /\ attempts' = [attempts EXCEPT ![r] = IF replay.attempts = 0 THEN @ ELSE 0]
        /\ tally' = [tally EXCEPT ![r].replays = @ + 1]
        /\ owed' = [owed EXCEPT ![r] = replay.status = "dead"]
    BY <1>6 DEF O!ReplayWrite
  <2>2. tally[r].replays < replays
    BY <1>1, <1>2 DEF ReplayHolds
  <2>3. /\ \A s \in rows \ {r} : /\ status'[s] = status[s] /\ attempts'[s] = attempts[s]
                                 /\ tally'[s] = tally[s]
        /\ tally'[r].replays = tally[r].replays + 1 /\ tally'[r].unsigned = tally[r].unsigned
        /\ tally'[r].posts = tally[r].posts /\ tally'[r].lostPosts = tally[r].lostPosts
        /\ tally'[r].acks = tally[r].acks /\ tally'[r].lostAcks = tally[r].lostAcks
        /\ attempts'[r] \in {0, attempts[r]} /\ status'[r] \in {"pending", status[r]}
    BY <1>1, <2>1
  <2>4. tally' \in [rows -> [posts : Nat, acks : Nat, lostPosts : Nat, lostAcks : Nat,
                             replays : 0 .. replays, unsigned : BOOLEAN]]
    <3>1. tally[r] \in [posts : Nat, acks : Nat, lostPosts : Nat, lostAcks : Nat,
                        replays : 0 .. replays, unsigned : BOOLEAN]
      BY <1>1
    <3>2. [tally[r] EXCEPT !.replays = @ + 1]
            \in [posts : Nat, acks : Nat, lostPosts : Nat, lostAcks : Nat,
                 replays : 0 .. replays, unsigned : BOOLEAN]
      BY <2>2, <3>1
    <3> QED BY <1>1, <2>1, <3>2
  <2>5. O(rows, replays)!TypeOK'
    BY <1>1, <1>2, <2>1, <2>4, Bounds DEF OutboxInv, O!TypeOK
  <2>6. LocksHold(rows)'
    BY <1>1, <1>2, <1>3, <2>3 DEF LocksHold
  <2>7. UnsignedTold(rows)'
    BY <1>2, <2>3 DEF OutboxInv, UnsignedTold
  <2>8. \A s \in rows :
          /\ InFlight(s, {"acked", "failed"})' = InFlight(s, {"acked", "failed"})
          /\ InFlight(s, {"acked"})' = InFlight(s, {"acked"})
    BY <1>2 DEF InFlight
  <2>9. /\ InFlight(r, {"acked", "failed"}) = 0 /\ InFlight(r, {"acked"}) = 0
    BY <1>1, <1>3, FlightOf
  <2>10. status'[r] \in {"none", "pending"} => attempts'[r] < MaxAttempts
    BY <1>1, <1>2, <1>6, <2>1, Bounds DEF OutboxInv, ReplayHolds, PostsCounted
  <2>11. PostsCounted(rows)'
    <3>1. ASSUME NEW k \in Nat
          PROVE  MaxAttempts * (k + 1) = MaxAttempts * k + MaxAttempts /\ MaxAttempts * k \in Nat
      BY <3>1, Bounds
    <3>2. tally[r].replays \in Nat /\ tally[r].posts \in Nat /\ tally[r].lostPosts \in Nat
      BY <1>1
    <3> QED BY <1>1, <2>3, <2>8, <2>9, <2>10, <3>1, <3>2, Bounds DEF OutboxInv, PostsCounted
  <2>12. AcksCounted(rows)'
    BY <1>1, <2>3, <2>8, <2>9 DEF OutboxInv, AcksCounted
  <2>13. O(rows, replays)!SettledIsTrue'
    BY <1>1, <1>2, <2>3 DEF OutboxInv, O!SettledIsTrue
  <2> QED BY <1>4, <2>5, <2>6, <2>7, <2>11, <2>12, <2>13 DEF OutboxInv
<1> QED BY <1>5, <1>6

(* The endpoint goes, with its rows: nobody holds one.                     *)
LEMMA FinishDeleteInv ==
  ASSUME NEW rows \in SUBSET Nat, NEW replays \in Nat, OutboxInv(rows, replays),
         O(rows, replays)!FinishDelete
  PROVE  OutboxInv(rows, replays)'
<1>1. /\ UNCHANGED <<attempts, due, aged, pc, marked, batch, outcome, replay, aborts,
                     tally, owed>>
      /\ endpoint' = "deleted"
      /\ status' = [r \in rows |-> IF status[r] = "none" THEN "none" ELSE "gone"]
      /\ \A w \in Workers, r \in rows : r \notin marked[w] \cup batch[w]
  BY DEF O!FinishDelete, O!workers, O!history, O!Free, O!Held
<1>2. O(rows, replays)!TypeOK'
  BY <1>1 DEF OutboxInv, O!TypeOK
<1>3. LocksHold(rows)' /\ UnsignedTold(rows)'
  BY <1>1 DEF OutboxInv, LocksHold, UnsignedTold
<1>4. \A r \in rows : /\ InFlight(r, {"acked", "failed"})' = InFlight(r, {"acked", "failed"})
                      /\ InFlight(r, {"acked"})' = InFlight(r, {"acked"})
                      /\ InFlight(r, {"acked"}) \in {0, 1}
  BY <1>1 DEF InFlight
<1>5. PostsCounted(rows)'
  BY <1>1, <1>4 DEF OutboxInv, PostsCounted
<1>6. AcksCounted(rows)'
  <2>1. tally \in [rows -> [posts : Nat, acks : Nat, lostPosts : Nat, lostAcks : Nat,
                            replays : 0 .. replays, unsigned : BOOLEAN]]
    BY DEF OutboxInv, O!TypeOK
  <2>2. \A r \in rows : status[r] \in {"delivered", "gone"} => status'[r] \in {"delivered", "gone"}
    BY <1>1
  <2>3. \A r \in rows : /\ tally[r].replays \in Nat /\ tally[r].acks \in Nat
                        /\ tally[r].lostAcks \in Nat
    BY <2>1
  <2>4. ASSUME NEW r \in rows
        PROVE  LET open == tally[r].lostAcks + InFlight(r, {"acked"})'
               IN  /\ open <= tally[r].acks
                   /\ tally[r].acks <= open + tally[r].replays
                                       + IF status'[r] \in {"delivered", "gone"} THEN 1 ELSE 0
    <3> DEFINE before == IF status[r] \in {"delivered", "gone"} THEN 1 ELSE 0
               after == IF status'[r] \in {"delivered", "gone"} THEN 1 ELSE 0
               open == tally[r].lostAcks + InFlight(r, {"acked"})
    <3>1. open <= tally[r].acks /\ tally[r].acks <= open + tally[r].replays + before
      BY DEF OutboxInv, AcksCounted
    <3>2. before <= after /\ before \in {0, 1} /\ after \in {0, 1}
      BY <2>2
    <3>3. open \in Nat
      BY <1>4, <2>3
    <3> HIDE DEF before, after, open
    <3>4. tally[r].acks <= open + tally[r].replays + after
      <4>1. tally[r].replays \in Nat /\ tally[r].acks \in Nat
        BY <2>3
      <4> QED BY <3>1, <3>2, <3>3, <4>1
    <3> QED BY <1>4, <3>1, <3>4 DEF open, after
  <2> QED BY <1>1, <2>4 DEF AcksCounted
<1>7. ReplayHolds(rows, replays)' /\ O(rows, replays)!SettledIsTrue'
  BY <1>1 DEF OutboxInv, ReplayHolds, O!SettledIsTrue
<1> QED BY <1>2, <1>3, <1>5, <1>6, <1>7 DEF OutboxInv

(* A batch begins: the old rows are marked, the oldest due ones locked.    *)
LEMMA BatchBegins ==
  ASSUME NEW rows \in SUBSET Nat, NEW replays \in Nat, OutboxInv(rows, replays),
         NEW w \in Workers, O(rows, replays)!Mark(w) \/ O(rows, replays)!Select(w)
  PROVE  OutboxInv(rows, replays)'
<1>1. /\ marked \in [Workers -> SUBSET rows] /\ batch \in [Workers -> SUBSET rows]
      /\ pc \in [Workers -> {"idle", "select", "post", "commit"}]
      /\ LocksHold(rows)
  BY DEF OutboxInv, O!TypeOK
<1>2. UNCHANGED <<status, attempts, due, aged, endpoint, outcome, replay, aborts, tally, owed>>
  BY DEF O!Mark, O!Select, O!outbox, O!history
<1>3. PICK old \in SUBSET rows, new \in SUBSET rows :
        /\ marked' = [marked EXCEPT ![w] = old] /\ batch' = [batch EXCEPT ![w] = new]
        /\ \E to \in {"select", "post"} :
             pc' = [pc EXCEPT ![w] = to] /\ (to = "select" => new = {})
        /\ marked[w] \cup batch[w] \subseteq old \cup new
        /\ \A r \in old \cup new :
             /\ status[r] = "pending"
             /\ \A v \in Workers \ {w} : r \notin marked[v] \cup batch[v]
        /\ \A r \in old : aged[r]
        /\ old \cap new = {}
        /\ batch[w] = {}
  <2>1. CASE O(rows, replays)!Mark(w)
    <3> DEFINE old == {r \in rows : status[r] = "pending" /\ aged[r]}
    <3>1. /\ marked' = [marked EXCEPT ![w] = old] /\ batch' = [batch EXCEPT ![w] = {}]
          /\ pc' = [pc EXCEPT ![w] = "select"] /\ batch[w] = {} /\ marked[w] = {}
      BY <1>1, <2>1 DEF O!Mark, LocksHold
    <3>2. \A r \in old, v \in Workers : r \notin marked[v] \cup batch[v]
      BY <2>1 DEF O!Mark, O!Free, O!Held
    <3>3. old \in SUBSET rows /\ {} \in SUBSET rows
      OBVIOUS
    <3> QED BY <3>1, <3>2, <3>3
  <2>2. CASE O(rows, replays)!Select(w)
    <3> DEFINE new == O(rows, replays)!Oldest(O(rows, replays)!Available(w), BatchSize)
    <3>1. /\ batch' = [batch EXCEPT ![w] = new] /\ marked' = [marked EXCEPT ![w] = marked[w]]
          /\ pc' = [pc EXCEPT ![w] = "post"] /\ batch[w] = {}
      BY <1>1, <2>2 DEF O!Select, LocksHold
    <3>2. \A r \in new : /\ r \in rows /\ status[r] = "pending"
                         /\ \A v \in Workers : r \notin marked[v] \cup batch[v]
      BY DEF O!Oldest, O!Available, O!Free, O!Held
    <3>3. \A r \in marked[w] :
            /\ r \in rows /\ status[r] = "pending" /\ aged[r]
            /\ \A v \in Workers \ {w} : r \notin marked[v] \cup batch[v]
      BY <1>1 DEF LocksHold
    <3>4. new \in SUBSET rows /\ marked[w] \in SUBSET rows /\ marked[w] \cap new = {}
      BY <1>1, <3>2
    <3> HIDE DEF new
    <3> QED BY <3>1, <3>2, <3>3, <3>4
  <2> QED BY <2>1, <2>2
<1>4. /\ marked'[w] = old /\ batch'[w] = new
      /\ \A v \in Workers \ {w} : marked'[v] = marked[v] /\ batch'[v] = batch[v] /\ pc'[v] = pc[v]
      /\ pc'[w] # "idle" /\ (pc'[w] = "select" => new = {})
  BY <1>1, <1>3
<1>5. O(rows, replays)!TypeOK'
  <2>1. /\ marked' \in [Workers -> SUBSET rows] /\ batch' \in [Workers -> SUBSET rows]
        /\ pc' \in [Workers -> {"idle", "select", "post", "commit"}]
    BY <1>1, <1>3
  <2>2. \A v \in Workers : marked'[v] \cap batch'[v] = {}
    BY <1>3, <1>4 DEF OutboxInv, O!TypeOK
  <2> QED BY <1>2, <2>1, <2>2 DEF OutboxInv, O!TypeOK
<1>6. LocksHold(rows)'
  <2>1. \A u, v \in Workers : u # v =>
          (marked'[u] \cup batch'[u]) \cap (marked'[v] \cup batch'[v]) = {}
    BY <1>1, <1>3, <1>4 DEF LocksHold
  <2>2. \A v \in Workers, r \in rows :
          /\ r \in marked'[v] \cup batch'[v] => status[r] = "pending"
          /\ r \in marked'[v] => aged[r]
          /\ outcome[v][r] # "none" => r \in batch'[v]
    BY <1>1, <1>3, <1>4 DEF LocksHold
  <2>3. \A v \in Workers : /\ pc'[v] \in {"idle", "select"} => batch'[v] = {}
                           /\ pc'[v] = "idle" => marked'[v] = {}
    BY <1>1, <1>4 DEF LocksHold
  <2> QED BY <1>2, <2>1, <2>2, <2>3 DEF LocksHold
<1>7. \A r \in rows : /\ InFlight(r, {"acked", "failed"})' = InFlight(r, {"acked", "failed"})
                      /\ InFlight(r, {"acked"})' = InFlight(r, {"acked"})
  BY <1>2 DEF InFlight
<1>8. PostsCounted(rows)' /\ AcksCounted(rows)'
  BY <1>2, <1>7 DEF OutboxInv, PostsCounted, AcksCounted
<1>9. /\ UnsignedTold(rows)' /\ ReplayHolds(rows, replays)'
      /\ O(rows, replays)!SettledIsTrue'
  BY <1>2 DEF OutboxInv, UnsignedTold, ReplayHolds, O!SettledIsTrue
<1> QED BY <1>5, <1>6, <1>8, <1>9 DEF OutboxInv

(* What a closed batch leaves: no locks, and nothing of it in flight.      *)
LEMMA CloseBatch ==
  ASSUME NEW rows \in SUBSET Nat, NEW replays \in Nat, OutboxInv(rows, replays),
         NEW w \in Workers, O(rows, replays)!Close(w),
         UNCHANGED aged,
         \A r \in rows : (\E v \in Workers \ {w} : r \in marked[v] \cup batch[v])
                        => status'[r] = status[r]
  PROVE  /\ LocksHold(rows)'
         /\ pc' \in [Workers -> {"idle", "select", "post", "commit"}]
         /\ {marked', batch'} \subseteq [Workers -> SUBSET rows]
         /\ outcome' \in [Workers -> [rows -> {"none", "acked", "failed", "unsigned"}]]
         /\ \A v \in Workers : marked'[v] \cap batch'[v] = {}
         /\ \A v \in Workers, r \in rows : outcome'[v][r] \in {"none", outcome[v][r]}
         /\ \A r \in rows, results \in SUBSET {"acked", "failed"} :
              IF r \in batch[w] /\ outcome[w][r] \in results
              THEN InFlight(r, results) = 1 /\ InFlight(r, results)' = 0
              ELSE InFlight(r, results)' = InFlight(r, results)
<1>1. /\ pc' = [pc EXCEPT ![w] = "idle"] /\ marked' = [marked EXCEPT ![w] = {}]
      /\ batch' = [batch EXCEPT ![w] = {}]
      /\ outcome' = [outcome EXCEPT ![w] = [r \in rows |-> "none"]]
  BY DEF O!Close
<1>2. /\ marked \in [Workers -> SUBSET rows] /\ batch \in [Workers -> SUBSET rows]
      /\ pc \in [Workers -> {"idle", "select", "post", "commit"}]
      /\ outcome \in [Workers -> [rows -> {"none", "acked", "failed", "unsigned"}]]
      /\ LocksHold(rows) /\ \A v \in Workers : marked[v] \cap batch[v] = {}
  BY DEF OutboxInv, O!TypeOK
<1>3. /\ marked'[w] = {} /\ batch'[w] = {} /\ pc'[w] = "idle"
      /\ \A r \in rows : outcome'[w][r] = "none"
      /\ \A v \in Workers \ {w} : /\ marked'[v] = marked[v] /\ batch'[v] = batch[v]
                                   /\ pc'[v] = pc[v] /\ outcome'[v] = outcome[v]
  BY <1>1, <1>2
<1>4. LocksHold(rows)'
  <2>1. \A u, v \in Workers : u # v =>
          (marked'[u] \cup batch'[u]) \cap (marked'[v] \cup batch'[v]) = {}
    BY <1>2, <1>3 DEF LocksHold
  <2>2. \A v \in Workers, r \in rows :
          /\ r \in marked'[v] \cup batch'[v] => status'[r] = "pending"
          /\ r \in marked'[v] => aged'[r]
          /\ outcome'[v][r] # "none" => r \in batch'[v]
    BY <1>2, <1>3 DEF LocksHold
  <2>3. \A v \in Workers : /\ pc'[v] \in {"idle", "select"} => batch'[v] = {}
                           /\ pc'[v] = "idle" => marked'[v] = {}
    BY <1>2, <1>3 DEF LocksHold
  <2> QED BY <2>1, <2>2, <2>3 DEF LocksHold
<1>5. /\ pc' \in [Workers -> {"idle", "select", "post", "commit"}]
      /\ {marked', batch'} \subseteq [Workers -> SUBSET rows]
      /\ outcome' \in [Workers -> [rows -> {"none", "acked", "failed", "unsigned"}]]
      /\ \A v \in Workers : marked'[v] \cap batch'[v] = {}
  BY <1>1, <1>2, <1>3
<1>6. \A v \in Workers, r \in rows : outcome'[v][r] \in {"none", outcome[v][r]}
  BY <1>3
<1>7. ASSUME NEW r \in rows, NEW results \in SUBSET {"acked", "failed"}
      PROVE  IF r \in batch[w] /\ outcome[w][r] \in results
             THEN InFlight(r, results) = 1 /\ InFlight(r, results)' = 0
             ELSE InFlight(r, results)' = InFlight(r, results)
  <2>1. "none" \notin results
    OBVIOUS
  <2>2. CASE r \in batch[w] /\ outcome[w][r] \in results
    <3>1. \A v \in Workers \ {w} : outcome[v][r] = "none"
      BY <1>2, <2>2 DEF LocksHold
    <3>2. ASSUME NEW v \in Workers PROVE outcome'[v][r] = "none"
      <4>1. CASE v = w
        BY <1>3, <4>1
      <4>2. CASE v # w
        BY <1>3, <3>1, <4>2
      <4> QED BY <4>1, <4>2
    <3> QED BY <2>1, <2>2, <3>2 DEF InFlight
  <2>3. CASE ~(r \in batch[w] /\ outcome[w][r] \in results)
    <3>1. outcome[w][r] \notin results
      BY <1>2, <2>1, <2>3 DEF LocksHold
    <3>2. \A v \in Workers : outcome'[v][r] \in results <=> outcome[v][r] \in results
      BY <1>3, <2>1, <3>1
    <3> QED BY <2>3, <3>2 DEF InFlight
  <2> QED BY <2>2, <2>3
<1> QED BY <1>4, <1>5, <1>6, <1>7

(* A worker finds nothing to deliver, or its batch is rolled back: what    *)
(* was posted is lost to the table, and counted so.                        *)
LEMMA BatchForgotten ==
  ASSUME NEW rows \in SUBSET Nat, NEW replays \in Nat, OutboxInv(rows, replays),
         NEW w \in Workers, O(rows, replays)!SelectNothing(w) \/ O(rows, replays)!Abort(w)
  PROVE  OutboxInv(rows, replays)'
<1> DEFINE TallyType == [posts : Nat, acks : Nat, lostPosts : Nat, lostAcks : Nat,
                         replays : 0 .. replays, unsigned : BOOLEAN]
           posted(r) == r \in batch[w] /\ outcome[w][r] \in {"acked", "failed"}
           acked(r) == r \in batch[w] /\ outcome[w][r] \in {"acked"}
<1>1. /\ tally \in [rows -> TallyType] /\ LocksHold(rows) /\ aborts \in 0 .. MaxAborts
      /\ MaxAborts \in Nat
      /\ outcome \in [Workers -> [rows -> {"none", "acked", "failed", "unsigned"}]]
  BY Bounds DEF OutboxInv, O!TypeOK
<1>2. /\ UNCHANGED <<status, attempts, due, aged, endpoint, replay, owed>>
      /\ O(rows, replays)!Close(w)
  BY DEF O!SelectNothing, O!Abort, O!outbox, O!history
<1>3. /\ tally' \in [rows -> TallyType] /\ aborts' \in 0 .. MaxAborts
      /\ \A r \in rows :
           /\ tally'[r].posts = tally[r].posts /\ tally'[r].acks = tally[r].acks
           /\ tally'[r].replays = tally[r].replays /\ tally'[r].unsigned = tally[r].unsigned
           /\ tally'[r].lostPosts = tally[r].lostPosts + (IF posted(r) THEN 1 ELSE 0)
           /\ tally'[r].lostAcks = tally[r].lostAcks + (IF acked(r) THEN 1 ELSE 0)
  <2>1. CASE O(rows, replays)!SelectNothing(w)
    <3>1. UNCHANGED <<tally, aborts>> /\ \A r \in rows : ~posted(r) /\ ~acked(r)
      BY <1>1, <2>1 DEF O!SelectNothing, O!history, LocksHold
    <3>2. \A r \in rows : tally[r].lostPosts \in Nat /\ tally[r].lostAcks \in Nat
      BY <1>1
    <3> HIDE DEF posted, acked, TallyType
    <3> QED BY <1>1, <3>1, <3>2
  <2>2. CASE O(rows, replays)!Abort(w)
    <3> DEFINE x(r) == IF posted(r) THEN tally[r].lostPosts + 1 ELSE tally[r].lostPosts
               y(r) == IF acked(r) THEN tally[r].lostAcks + 1 ELSE tally[r].lostAcks
    <3>1. aborts' \in 0 .. MaxAborts
      <4>1. aborts < MaxAborts /\ aborts' = aborts + 1
        BY <2>2 DEF O!Abort
      <4>2. aborts \in 0 .. MaxAborts /\ MaxAborts \in Nat
        BY <1>1
      <4> QED BY <4>1, <4>2
    <3>2. ASSUME NEW r \in rows
          PROVE  /\ r \in O(rows, replays)!Posted(w) <=> posted(r)
                 /\ outcome[w][r] = "acked" <=> acked(r)
      BY <1>1 DEF O!Posted, LocksHold
    <3>3. tally' = [r \in rows |-> [tally[r] EXCEPT !.lostPosts = x(r), !.lostAcks = y(r)]]
      <4>1. tally' = [r \in rows |->
               [tally[r] EXCEPT
                  !.lostPosts = IF r \in O(rows, replays)!Posted(w) THEN @ + 1 ELSE @,
                  !.lostAcks = IF outcome[w][r] = "acked" THEN @ + 1 ELSE @]]
        BY <2>2 DEF O!Abort
      <4> HIDE DEF posted, acked
      <4> QED BY <3>2, <4>1
    <3>4. ASSUME NEW r \in rows
          PROVE  /\ x(r) \in Nat /\ y(r) \in Nat
                 /\ x(r) = tally[r].lostPosts + (IF posted(r) THEN 1 ELSE 0)
                 /\ y(r) = tally[r].lostAcks + (IF acked(r) THEN 1 ELSE 0)
      <4>1. tally[r].lostPosts \in Nat /\ tally[r].lostAcks \in Nat
        BY <1>1
      <4> HIDE DEF posted, acked
      <4> QED BY <4>1
    <3> HIDE DEF x, y, posted, acked
    <3>5. ASSUME NEW r \in rows
          PROVE  LET t == [tally[r] EXCEPT !.lostPosts = x(r), !.lostAcks = y(r)]
                 IN  /\ t \in TallyType
                     /\ t.posts = tally[r].posts /\ t.acks = tally[r].acks
                     /\ t.replays = tally[r].replays /\ t.unsigned = tally[r].unsigned
                     /\ t.lostPosts = x(r) /\ t.lostAcks = y(r)
      <4>1. tally[r] \in TallyType
        BY <1>1
      <4> QED BY <3>4, <4>1
    <3>6. \A r \in rows : tally'[r] = [tally[r] EXCEPT !.lostPosts = x(r), !.lostAcks = y(r)]
      BY <3>3
    <3> HIDE DEF TallyType
    <3>7. tally' \in [rows -> TallyType]
      BY <3>3, <3>5
    <3> QED BY <3>1, <3>4, <3>5, <3>6, <3>7
  <2> QED BY <2>1, <2>2
<1>4. /\ LocksHold(rows)'
      /\ pc' \in [Workers -> {"idle", "select", "post", "commit"}]
      /\ {marked', batch'} \subseteq [Workers -> SUBSET rows]
      /\ outcome' \in [Workers -> [rows -> {"none", "acked", "failed", "unsigned"}]]
      /\ \A v \in Workers : marked'[v] \cap batch'[v] = {}
      /\ \A v \in Workers, r \in rows : outcome'[v][r] \in {"none", outcome[v][r]}
  BY <1>2, CloseBatch
<1>5. \A r \in rows :
        /\ IF posted(r) THEN /\ InFlight(r, {"acked", "failed"}) = 1
                             /\ InFlight(r, {"acked", "failed"})' = 0
           ELSE InFlight(r, {"acked", "failed"})' = InFlight(r, {"acked", "failed"})
        /\ IF acked(r) THEN InFlight(r, {"acked"}) = 1 /\ InFlight(r, {"acked"})' = 0
           ELSE InFlight(r, {"acked"})' = InFlight(r, {"acked"})
  <2>1. \A r \in rows, results \in SUBSET {"acked", "failed"} :
          IF r \in batch[w] /\ outcome[w][r] \in results
          THEN InFlight(r, results) = 1 /\ InFlight(r, results)' = 0
          ELSE InFlight(r, results)' = InFlight(r, results)
    BY <1>2, CloseBatch
  <2>2. {"acked", "failed"} \in SUBSET {"acked", "failed"} /\ {"acked"} \in SUBSET {"acked", "failed"}
    OBVIOUS
  <2> QED BY <2>1, <2>2
<1>6. O(rows, replays)!TypeOK'
  BY <1>2, <1>3, <1>4 DEF OutboxInv, O!TypeOK
<1>7. \A r \in rows :
        /\ tally'[r].lostPosts + InFlight(r, {"acked", "failed"})'
             = tally[r].lostPosts + InFlight(r, {"acked", "failed"})
        /\ tally'[r].lostAcks + InFlight(r, {"acked"})'
             = tally[r].lostAcks + InFlight(r, {"acked"})
  <2>1. \A r \in rows : tally[r].lostPosts \in Nat /\ tally[r].lostAcks \in Nat
    BY <1>1
  <2> HIDE DEF posted, acked
  <2> QED BY <1>3, <1>5, <2>1
<1>8. PostsCounted(rows)' /\ AcksCounted(rows)'
  BY <1>2, <1>3, <1>7 DEF OutboxInv, PostsCounted, AcksCounted
<1>9. UnsignedTold(rows)' /\ ReplayHolds(rows, replays)'
  <2>1. UnsignedTold(rows)'
    <3>1. \A v \in Workers, r \in rows : outcome[v][r] = "unsigned" => tally[r].unsigned
      BY DEF OutboxInv, UnsignedTold
    <3>2. \A r \in rows : tally'[r].unsigned = tally[r].unsigned
      BY <1>3
    <3> QED BY <1>4, <3>1, <3>2 DEF UnsignedTold
  <2>2. ReplayHolds(rows, replays)'
    <3>1. \A r \in rows : tally'[r].replays = tally[r].replays
      BY <1>3
    <3> QED BY <1>2, <3>1 DEF OutboxInv, ReplayHolds
  <2> QED BY <2>1, <2>2
<1>10. O(rows, replays)!SettledIsTrue'
  <2>1. ASSUME NEW r \in rows, status[r] \in {"delivered", "dead"}
        PROVE  tally'[r].lostPosts = tally[r].lostPosts /\ tally'[r].lostAcks = tally[r].lostAcks
    <3>1. ~posted(r) /\ ~acked(r)
      BY <1>1, <2>1 DEF LocksHold
    <3>2. tally[r].lostPosts \in Nat /\ tally[r].lostAcks \in Nat
      BY <1>1
    <3> HIDE DEF posted, acked
    <3> QED BY <1>3, <3>1, <3>2
  <2> QED BY <1>2, <1>3, <2>1 DEF OutboxInv, O!SettledIsTrue
<1> QED BY <1>4, <1>6, <1>8, <1>9, <1>10 DEF OutboxInv

(* One row of a batch is posted, or found without a secret.                *)
LEMMA DeliverInv ==
  ASSUME NEW rows \in SUBSET Nat, NEW replays \in Nat, OutboxInv(rows, replays),
         NEW w \in Workers, NEW r \in rows, NEW result \in {"acked", "failed", "unsigned"},
         O(rows, replays)!Deliver(w, r, result)
  PROVE  OutboxInv(rows, replays)'
<1> DEFINE TallyType == [posts : Nat, acks : Nat, lostPosts : Nat, lostAcks : Nat,
                         replays : 0 .. replays, unsigned : BOOLEAN]
           p == IF result = "unsigned" THEN 0 ELSE 1
           a == IF result = "acked" THEN 1 ELSE 0
<1>1. /\ tally \in [rows -> TallyType] /\ LocksHold(rows)
      /\ outcome \in [Workers -> [rows -> {"none", "acked", "failed", "unsigned"}]]
      /\ pc \in [Workers -> {"idle", "select", "post", "commit"}] /\ owed \in [rows -> BOOLEAN]
  BY DEF OutboxInv, O!TypeOK
<1>2. /\ UNCHANGED <<status, attempts, due, aged, endpoint, marked, batch, replay, aborts>>
      /\ pc[w] = "post" /\ r \in batch[w] /\ outcome[w][r] = "none"
      /\ outcome' = [outcome EXCEPT ![w][r] = result]
      /\ owed' = [owed EXCEPT ![r] = FALSE]
  BY DEF O!Deliver, O!Oldest, O!Todo, O!outbox
<1>3. pc' \in [Workers -> {"idle", "select", "post", "commit"}]
      /\ pc'[w] \in {"post", "commit"} /\ \A v \in Workers \ {w} : pc'[v] = pc[v]
  BY <1>1 DEF O!Deliver
<1>4. /\ outcome' \in [Workers -> [rows -> {"none", "acked", "failed", "unsigned"}]]
      /\ outcome'[w][r] = result
      /\ \A v \in Workers, s \in rows : v # w \/ s # r => outcome'[v][s] = outcome[v][s]
  BY <1>1, <1>2
<1>5. /\ tally' \in [rows -> TallyType]
      /\ \A s \in rows \ {r} : tally'[s] = tally[s]
      /\ tally'[r].posts = tally[r].posts + p /\ tally'[r].acks = tally[r].acks + a
      /\ tally'[r].lostPosts = tally[r].lostPosts /\ tally'[r].lostAcks = tally[r].lostAcks
      /\ tally'[r].replays = tally[r].replays
      /\ tally'[r].unsigned = (tally[r].unsigned \/ result = "unsigned")
  <2> DEFINE x == tally[r].posts + p
             y == tally[r].acks + a
             u == tally[r].unsigned \/ result = "unsigned"
             t == [tally[r] EXCEPT !.posts = x, !.acks = y, !.unsigned = u]
  <2>1. /\ tally[r] \in TallyType /\ tally[r].posts \in Nat /\ tally[r].acks \in Nat
        /\ tally[r].unsigned \in BOOLEAN
    BY <1>1
  <2>2. /\ tally[r].posts + p = IF result = "unsigned" THEN tally[r].posts ELSE tally[r].posts + 1
        /\ tally[r].acks + a = IF result = "acked" THEN tally[r].acks + 1 ELSE tally[r].acks
    BY <2>1
  <2>3. tally' = [tally EXCEPT ![r] = t]
    BY <2>1, <2>2 DEF O!Deliver
  <2>4. x \in Nat /\ y \in Nat /\ u \in BOOLEAN
    BY <2>1
  <2> HIDE DEF x, y, u, p, a
  <2>5. /\ t \in TallyType /\ t.posts = x /\ t.acks = y
        /\ t.lostPosts = tally[r].lostPosts /\ t.lostAcks = tally[r].lostAcks
        /\ t.replays = tally[r].replays /\ t.unsigned = u
    BY <2>1, <2>4
  <2> HIDE DEF t, TallyType
  <2> QED BY <1>1, <2>3, <2>5 DEF x, y, u
<1>6. O(rows, replays)!TypeOK'
  <2>1. owed' \in [rows -> BOOLEAN]
    BY <1>1, <1>2
  <2> QED BY <1>2, <1>3, <1>4, <1>5, <2>1 DEF OutboxInv, O!TypeOK
<1>7. LocksHold(rows)'
  <2>1. \A u, v \in Workers : u # v =>
          (marked'[u] \cup batch'[u]) \cap (marked'[v] \cup batch'[v]) = {}
    BY <1>1, <1>2 DEF LocksHold
  <2>2. ASSUME NEW v \in Workers, NEW s \in rows
        PROVE  /\ s \in marked[v] \cup batch[v] => status[s] = "pending"
               /\ s \in marked[v] => aged[s]
               /\ outcome'[v][s] # "none" => s \in batch[v]
    <3>1. CASE v = w /\ s = r
      BY <1>1, <1>2, <3>1 DEF LocksHold
    <3>2. CASE v # w \/ s # r
      <4>1. outcome'[v][s] = outcome[v][s]
        BY <1>4, <3>2
      <4> QED BY <1>1, <4>1 DEF LocksHold
    <3> QED BY <3>1, <3>2
  <2>3. \A v \in Workers : /\ pc'[v] \in {"idle", "select"} => batch[v] = {}
                           /\ pc'[v] = "idle" => marked[v] = {}
    BY <1>1, <1>3 DEF LocksHold
  <2> QED BY <1>2, <2>1, <2>2, <2>3 DEF LocksHold
<1>8. /\ \A s \in rows \ {r} :
           /\ InFlight(s, {"acked", "failed"})' = InFlight(s, {"acked", "failed"})
           /\ InFlight(s, {"acked"})' = InFlight(s, {"acked"})
      /\ InFlight(r, {"acked", "failed"}) = 0 /\ InFlight(r, {"acked"}) = 0
      /\ InFlight(r, {"acked", "failed"})' = p /\ InFlight(r, {"acked"})' = a
  <2>1. \A v \in Workers : outcome[v][r] = "none"
    BY <1>1, <1>2 DEF LocksHold
  <2>2. \A v \in Workers \ {w} : outcome'[v][r] = "none"
    BY <1>4, <2>1
  <2>3. /\ (\E v \in Workers : outcome'[v][r] \in {"acked", "failed"}) <=> result # "unsigned"
        /\ (\E v \in Workers : outcome'[v][r] \in {"acked"}) <=> result = "acked"
    BY <1>4, <2>2
  <2>4. /\ InFlight(r, {"acked", "failed"})' = p /\ InFlight(r, {"acked"})' = a
    BY <2>3 DEF InFlight
  <2>5. /\ InFlight(r, {"acked", "failed"}) = 0 /\ InFlight(r, {"acked"}) = 0
    BY <2>1 DEF InFlight
  <2>6. ASSUME NEW s \in rows \ {r}
        PROVE  /\ InFlight(s, {"acked", "failed"})' = InFlight(s, {"acked", "failed"})
               /\ InFlight(s, {"acked"})' = InFlight(s, {"acked"})
    BY <1>4 DEF InFlight
  <2> QED BY <2>4, <2>5, <2>6
<1>9. status[r] = "pending" /\ attempts[r] \in Nat
  BY <1>1, <1>2 DEF LocksHold, OutboxInv, O!TypeOK
<1>10. /\ p \in Nat /\ a \in Nat /\ \A s \in rows :
            /\ tally[s].posts \in Nat /\ tally[s].acks \in Nat
            /\ tally[s].lostPosts \in Nat /\ tally[s].lostAcks \in Nat /\ tally[s].replays \in Nat
  BY <1>1
<1>11. PostsCounted(rows)'
  <2> SUFFICES ASSUME NEW s \in rows
               PROVE  LET open == (tally[s].lostPosts + InFlight(s, {"acked", "failed"}))'
                      IN  /\ attempts[s] + open <= tally'[s].posts
                          /\ tally'[s].posts <= MaxAttempts * tally'[s].replays
                                                + attempts[s] + open
                          /\ status[s] \in {"none", "pending"} => attempts[s] < MaxAttempts
    BY <1>2 DEF PostsCounted
  <2> HIDE DEF p, a
  <2>1. CASE s # r
    BY <1>5, <1>8, <2>1 DEF OutboxInv, PostsCounted
  <2>2. CASE s = r
    <3>1. MaxAttempts * tally[r].replays \in Nat
      BY <1>10, Bounds
    <3> QED BY <1>5, <1>8, <1>9, <1>10, <2>2, <3>1 DEF OutboxInv, PostsCounted
  <2> QED BY <2>1, <2>2
<1>12. AcksCounted(rows)'
  <2> HIDE DEF p, a
  <2> QED BY <1>2, <1>5, <1>8, <1>9, <1>10 DEF OutboxInv, AcksCounted
<1>13. UnsignedTold(rows)' /\ ReplayHolds(rows, replays)'
  BY <1>2, <1>4, <1>5 DEF OutboxInv, UnsignedTold, ReplayHolds
<1>14. O(rows, replays)!SettledIsTrue'
  BY <1>2, <1>5, <1>9 DEF OutboxInv, O!SettledIsTrue
<1> QED BY <1>6, <1>7, <1>11, <1>12, <1>13, <1>14 DEF OutboxInv

(* A batch is committed: what its worker did to each row is written.       *)
LEMMA CommitInv ==
  ASSUME NEW rows \in SUBSET Nat, NEW replays \in Nat, OutboxInv(rows, replays),
         NEW w \in Workers, O(rows, replays)!Commit(w)
  PROVE  OutboxInv(rows, replays)'
<1> DEFINE counted(r) == outcome[w][r] \in {"acked", "failed"}
<1>1. /\ status \in [rows -> {"none", "pending", "delivered", "dead", "gone"}]
      /\ attempts \in [rows -> 0 .. MaxAttempts] /\ LocksHold(rows)
      /\ due \in [rows -> BOOLEAN]
      /\ outcome \in [Workers -> [rows -> {"none", "acked", "failed", "unsigned"}]]
      /\ tally \in [rows -> [posts : Nat, acks : Nat, lostPosts : Nat, lostAcks : Nat,
                             replays : 0 .. replays, unsigned : BOOLEAN]]
  BY DEF OutboxInv, O!TypeOK
<1>2. /\ UNCHANGED <<aged, endpoint, replay, aborts, tally, owed>>
      /\ O(rows, replays)!Close(w)
      /\ due' = [r \in rows |-> IF outcome[w][r] = "failed" /\ status'[r] = "pending"
                                THEN FALSE ELSE due[r]]
  BY DEF O!Commit, O!history
<1>3. /\ attempts' = [r \in rows |-> IF counted(r) THEN attempts[r] + 1 ELSE attempts[r]]
      /\ status' = [r \in rows |->
           CASE r \in marked[w] \/ outcome[w][r] = "unsigned" -> "dead"
             [] outcome[w][r] = "acked" -> "delivered"
             [] outcome[w][r] = "failed" ->
                  IF attempts[r] + 1 >= MaxAttempts THEN "dead" ELSE "pending"
             [] OTHER -> status[r]]
  BY DEF O!Commit, O!StatusAfter, O!AttemptsAfter
<1>4. ASSUME NEW r \in rows
      PROVE  /\ outcome[w][r] # "none" => r \in batch[w]
             /\ r \in marked[w] \cup batch[w] => status[r] = "pending" /\ attempts[r] < MaxAttempts
             /\ r \in marked[w] => aged[r] /\ outcome[w][r] = "none"
             /\ attempts[r] \in Nat
  BY <1>1 DEF LocksHold, OutboxInv, PostsCounted, O!TypeOK
<1>5. ASSUME NEW r \in rows
      PROVE  /\ counted(r) => attempts'[r] = attempts[r] + 1
             /\ ~counted(r) => attempts'[r] = attempts[r]
             /\ outcome[w][r] = "acked" => status'[r] = "delivered"
             /\ outcome[w][r] = "failed" /\ attempts[r] + 1 >= MaxAttempts => status'[r] = "dead"
             /\ outcome[w][r] = "failed" /\ ~(attempts[r] + 1 >= MaxAttempts)
                  => status'[r] = "pending"
             /\ outcome[w][r] = "unsigned" \/ r \in marked[w] => status'[r] = "dead"
             /\ outcome[w][r] = "none" /\ r \notin marked[w] => status'[r] = status[r]
  BY <1>1, <1>3, <1>4
<1>6. /\ LocksHold(rows)'
      /\ pc' \in [Workers -> {"idle", "select", "post", "commit"}]
      /\ {marked', batch'} \subseteq [Workers -> SUBSET rows]
      /\ outcome' \in [Workers -> [rows -> {"none", "acked", "failed", "unsigned"}]]
      /\ \A v \in Workers : marked'[v] \cap batch'[v] = {}
      /\ \A v \in Workers, r \in rows : outcome'[v][r] \in {"none", outcome[v][r]}
      /\ \A r \in rows, results \in SUBSET {"acked", "failed"} :
           IF r \in batch[w] /\ outcome[w][r] \in results
           THEN InFlight(r, results) = 1 /\ InFlight(r, results)' = 0
           ELSE InFlight(r, results)' = InFlight(r, results)
  <2>1. ASSUME NEW r \in rows, NEW v \in Workers \ {w}, r \in marked[v] \cup batch[v]
        PROVE  status'[r] = status[r]
    <3>1. r \notin marked[w] \cup batch[w]
      BY <1>1, <2>1 DEF LocksHold
    <3>2. outcome[w][r] = "none"
      BY <1>1, <1>4, <3>1
    <3> QED BY <1>5, <3>1, <3>2
  <2>2. \A r \in rows : (\E v \in Workers \ {w} : r \in marked[v] \cup batch[v])
                       => status'[r] = status[r]
    BY <2>1
  <2> QED BY <1>2, <2>2, CloseBatch
<1>7. ASSUME NEW r \in rows
      PROVE  /\ IF counted(r) THEN /\ InFlight(r, {"acked", "failed"}) = 1
                                   /\ InFlight(r, {"acked", "failed"})' = 0
                ELSE InFlight(r, {"acked", "failed"})' = InFlight(r, {"acked", "failed"})
             /\ IF outcome[w][r] = "acked"
                THEN InFlight(r, {"acked"}) = 1 /\ InFlight(r, {"acked"})' = 0
                ELSE InFlight(r, {"acked"})' = InFlight(r, {"acked"})
             /\ InFlight(r, {"acked", "failed"}) \in {0, 1} /\ InFlight(r, {"acked"}) \in {0, 1}
  <2>1. {"acked", "failed"} \in SUBSET {"acked", "failed"} /\ {"acked"} \in SUBSET {"acked", "failed"}
    OBVIOUS
  <2>2. InFlight(r, {"acked", "failed"}) \in {0, 1} /\ InFlight(r, {"acked"}) \in {0, 1}
    BY DEF InFlight
  <2> QED BY <1>4, <1>6, <2>1, <2>2
<1>8. O(rows, replays)!TypeOK'
  <2>1. status' \in [rows -> {"none", "pending", "delivered", "dead", "gone"}]
    BY <1>1, <1>3
  <2>2. attempts' \in [rows -> 0 .. MaxAttempts]
    BY <1>1, <1>3, <1>4, Bounds
  <2>3. due' \in [rows -> BOOLEAN]
    BY <1>1, <1>2
  <2>4. /\ {due', aged', owed'} \subseteq [rows -> BOOLEAN]
        /\ endpoint' \in {"up", "deleting", "kept", "deleted"} /\ aborts' \in 0 .. MaxAborts
        /\ replay' \in [on : {{}} \cup {{r} : r \in rows},
                        status : {"pending", "delivered", "dead"}, attempts : 0 .. MaxAttempts]
        /\ tally' \in [rows -> [posts : Nat, acks : Nat, lostPosts : Nat, lostAcks : Nat,
                                replays : 0 .. replays, unsigned : BOOLEAN]]
    BY <1>2, <2>3 DEF OutboxInv, O!TypeOK
  <2> QED BY <1>6, <2>1, <2>2, <2>4 DEF O!TypeOK
<1>9. \A r \in rows :
        /\ tally[r].posts \in Nat /\ tally[r].acks \in Nat
        /\ tally[r].lostPosts \in Nat /\ tally[r].lostAcks \in Nat /\ tally[r].replays \in Nat
  BY <1>1
<1>10. ASSUME NEW r \in rows
       PROVE  /\ attempts'[r] + InFlight(r, {"acked", "failed"})'
                   = attempts[r] + InFlight(r, {"acked", "failed"})
              /\ status'[r] \in {"none", "pending"} => attempts'[r] < MaxAttempts
  <2>1. attempts'[r] + InFlight(r, {"acked", "failed"})'
                   = attempts[r] + InFlight(r, {"acked", "failed"})
    BY <1>4, <1>5, <1>7
  <2>2. status'[r] \in {"none", "pending"} => attempts'[r] < MaxAttempts
    <3>1. status[r] \in {"none", "pending"} => attempts[r] < MaxAttempts
      BY DEF OutboxInv, PostsCounted
    <3> QED BY <1>1, <1>4, <1>5, <3>1, Bounds
  <2> QED BY <2>1, <2>2
<1>11. PostsCounted(rows)'
  <2> SUFFICES ASSUME NEW r \in rows
               PROVE  LET open == tally[r].lostPosts + InFlight(r, {"acked", "failed"})'
                      IN  /\ attempts'[r] + open <= tally[r].posts
                          /\ tally[r].posts <= MaxAttempts * tally[r].replays
                                               + attempts'[r] + open
                          /\ status'[r] \in {"none", "pending"} => attempts'[r] < MaxAttempts
    BY <1>2 DEF PostsCounted
  <2> DEFINE m == MaxAttempts * tally[r].replays
  <2>1. m \in Nat /\ InFlight(r, {"acked", "failed"})' \in {0, 1} /\ attempts'[r] \in Nat
    BY <1>4, <1>5, <1>7, <1>9, Bounds
  <2>2. /\ attempts[r] + (tally[r].lostPosts + InFlight(r, {"acked", "failed"})) <= tally[r].posts
        /\ tally[r].posts <= m + attempts[r]
                               + (tally[r].lostPosts + InFlight(r, {"acked", "failed"}))
    BY DEF OutboxInv, PostsCounted
  <2> HIDE DEF m
  <2>3. /\ attempts'[r] + (tally[r].lostPosts + InFlight(r, {"acked", "failed"})') <= tally[r].posts
        /\ tally[r].posts <= m + attempts'[r]
                               + (tally[r].lostPosts + InFlight(r, {"acked", "failed"})')
    BY <1>4, <1>7, <1>9, <1>10, <2>1, <2>2
  <2> QED BY <1>10, <2>3 DEF m
<1>12. AcksCounted(rows)'
  <2> SUFFICES ASSUME NEW r \in rows
               PROVE  LET open == tally[r].lostAcks + InFlight(r, {"acked"})'
                      IN  /\ open <= tally[r].acks
                          /\ tally[r].acks <= open + tally[r].replays
                               + IF status'[r] \in {"delivered", "gone"} THEN 1 ELSE 0
    BY <1>2 DEF AcksCounted
  <2> DEFINE before == IF status[r] \in {"delivered", "gone"} THEN 1 ELSE 0
             after == IF status'[r] \in {"delivered", "gone"} THEN 1 ELSE 0
  <2>1. /\ tally[r].lostAcks + InFlight(r, {"acked"}) <= tally[r].acks
        /\ tally[r].acks <= tally[r].lostAcks + InFlight(r, {"acked"}) + tally[r].replays + before
    BY DEF OutboxInv, AcksCounted
  <2>2. /\ before \in {0, 1} /\ after \in {0, 1}
        /\ outcome[w][r] = "acked" => before = 0 /\ after = 1
        /\ outcome[w][r] # "acked" => before <= after
    BY <1>1, <1>4, <1>5
  <2> HIDE DEF before, after
  <2>3. /\ tally[r].lostAcks + InFlight(r, {"acked"})' <= tally[r].acks
        /\ tally[r].acks <= tally[r].lostAcks + InFlight(r, {"acked"})' + tally[r].replays + after
    <3>1. /\ tally[r].acks \in Nat /\ tally[r].lostAcks \in Nat /\ tally[r].replays \in Nat
      BY <1>9
    <3>2. CASE outcome[w][r] = "acked"
      <4>1. InFlight(r, {"acked"}) = 1 /\ InFlight(r, {"acked"})' = 0
        BY <1>7, <3>2
      <4> QED BY <2>1, <2>2, <3>1, <3>2, <4>1
    <3>3. CASE outcome[w][r] # "acked"
      <4>1. InFlight(r, {"acked"})' = InFlight(r, {"acked"}) /\ InFlight(r, {"acked"}) \in {0, 1}
        BY <1>7, <3>3
      <4> QED BY <2>1, <2>2, <3>1, <3>3, <4>1
    <3> QED BY <3>2, <3>3
  <2> QED BY <2>3 DEF after
<1>13. UnsignedTold(rows)' /\ ReplayHolds(rows, replays)'
  <2>1. UnsignedTold(rows)'
    BY <1>2, <1>6 DEF OutboxInv, UnsignedTold
  <2>2. ASSUME NEW r \in rows, status[r] # "pending"
        PROVE  status'[r] = status[r] /\ attempts'[r] = attempts[r]
    <3>1. r \notin marked[w] /\ outcome[w][r] = "none"
      BY <1>1, <1>4, <2>2
    <3> QED BY <1>5, <3>1
  <2>3. ReplayHolds(rows, replays)'
    <3>1. replay.on # {} => replay.status \in {"pending", "delivered", "dead"}
      BY DEF OutboxInv, O!TypeOK
    <3> QED BY <1>2, <2>2, <3>1 DEF OutboxInv, ReplayHolds
  <2> QED BY <2>1, <2>3
<1>14. O(rows, replays)!SettledIsTrue'
  <2> SUFFICES ASSUME NEW r \in rows
               PROVE  /\ status'[r] = "delivered" => tally[r].acks > tally[r].lostAcks
                      /\ status'[r] = "dead" /\ ~aged[r] =>
                           \/ tally[r].posts - tally[r].lostPosts >= MaxAttempts
                           \/ tally[r].unsigned
    BY <1>2 DEF O!SettledIsTrue
  <2>1. CASE outcome[w][r] = "none"
    BY <1>4, <1>5, <2>1 DEF OutboxInv, O!SettledIsTrue
  <2>2. CASE outcome[w][r] = "acked"
    BY <1>5, <1>7, <1>9, <2>2 DEF OutboxInv, AcksCounted
  <2>3. CASE outcome[w][r] = "failed"
    <3>1. attempts[r] + (tally[r].lostPosts + 1) <= tally[r].posts
      BY <1>7, <2>3 DEF OutboxInv, PostsCounted
    <3> QED BY <1>4, <1>5, <1>9, <2>3, <3>1, Bounds
  <2>4. CASE outcome[w][r] = "unsigned"
    BY <1>5, <2>4 DEF OutboxInv, UnsignedTold
  <2> QED BY <1>1, <2>1, <2>2, <2>3, <2>4
<1> QED BY <1>6, <1>8, <1>11, <1>12, <1>13, <1>14 DEF OutboxInv

(* The outbox, whatever its rows and bounds.                               *)
LEMMA OutboxStep ==
  ASSUME NEW rows \in SUBSET Nat, NEW replays \in Nat, OutboxInv(rows, replays),
         O(rows, replays)!Next
  PROVE  OutboxInv(rows, replays)'
<1>1. CASE \E r \in rows : \/ O(rows, replays)!Enqueue(r) \/ O(rows, replays)!PassBackoff(r)
                           \/ O(rows, replays)!PassDay(r) \/ O(rows, replays)!ReplayRead(r)
  BY <1>1, QuietInv
<1>2. ASSUME NEW r \in rows, O(rows, replays)!ReplayWrite(r)
      PROVE  OutboxInv(rows, replays)'
  BY <1>2, ReplayWriteInv
<1>3. ASSUME NEW w \in Workers, O(rows, replays)!WorkerStep(w) \/ O(rows, replays)!Abort(w)
      PROVE  OutboxInv(rows, replays)'
  BY <1>3, BatchBegins, BatchForgotten, CommitInv, DeliverInv DEF O!WorkerStep
<1>4. CASE O(rows, replays)!StartDelete \/ O(rows, replays)!DeleteIsVictim
  BY <1>4, QuietInv
<1>5. CASE O(rows, replays)!FinishDelete
  BY <1>5, FinishDeleteInv
<1> QED BY <1>1, <1>2, <1>3, <1>4, <1>5 DEF O!Next

(* What the run checks of the outbox follows from the counts.              *)
LEMMA OutboxExplained ==
  ASSUME NEW rows \in SUBSET Nat, NEW replays \in Nat, OutboxInv(rows, replays)
  PROVE  /\ O(rows, replays)!TypeOK /\ O(rows, replays)!DuplicatesExplained
         /\ O(rows, replays)!PostsBounded /\ O(rows, replays)!SettledIsTrue
<1>1. /\ attempts \in [rows -> 0 .. MaxAttempts] /\ LocksHold(rows)
      /\ tally \in [rows -> [posts : Nat, acks : Nat, lostPosts : Nat, lostAcks : Nat,
                             replays : 0 .. replays, unsigned : BOOLEAN]]
  BY DEF OutboxInv, O!TypeOK
<1>2. ASSUME NEW r \in rows
      PROVE  /\ tally[r].acks <= 1 + tally[r].lostAcks + tally[r].replays
             /\ tally[r].posts <= MaxAttempts * (1 + tally[r].replays) + tally[r].lostPosts
  <2> DEFINE m == MaxAttempts * tally[r].replays
             posted == InFlight(r, {"acked", "failed"})
             acked == InFlight(r, {"acked"})
  <2>1. /\ tally[r].posts \in Nat /\ tally[r].acks \in Nat /\ attempts[r] \in Nat
        /\ tally[r].lostPosts \in Nat /\ tally[r].lostAcks \in Nat /\ tally[r].replays \in Nat
        /\ m \in Nat /\ MaxAttempts * (1 + tally[r].replays) = MaxAttempts + m
    BY <1>1, Bounds
  <2>2. /\ posted \in {0, 1} /\ acked \in {0, 1}
        /\ posted = 1 \/ acked = 1 => status[r] = "pending"
    BY <1>1 DEF InFlight, LocksHold
  <2>3. /\ tally[r].posts <= m + attempts[r] + (tally[r].lostPosts + posted)
        /\ status[r] = "pending" => attempts[r] < MaxAttempts
        /\ attempts[r] <= MaxAttempts
    BY <1>1, Bounds DEF OutboxInv, PostsCounted
  <2>4. /\ tally[r].acks <= tally[r].lostAcks + acked + tally[r].replays + 1
        /\ status[r] = "pending" => tally[r].acks <= tally[r].lostAcks + acked + tally[r].replays
    <3>1. tally[r].acks <= (tally[r].lostAcks + acked) + tally[r].replays
                           + IF status[r] \in {"delivered", "gone"} THEN 1 ELSE 0
      BY DEF OutboxInv, AcksCounted
    <3> QED BY <2>1, <2>2, <3>1
  <2> HIDE DEF m, posted, acked
  <2> QED BY <2>1, <2>2, <2>3, <2>4, Bounds
<1> QED BY <1>2 DEF OutboxInv, O!DuplicatesExplained, O!PostsBounded

-----------------------------------------------------------------------------
(* An answer shows a secret of an endpoint that was given, and for one     *)
(* whose answers did not cross it is the secret that is stored.            *)
AnswersHold ==
  \A c \in Clients :
    /\ caller[c].pc \in {"answer", "rotate"} => caller[c].e \in used
    /\ caller[c].pc = "answer" => caller[c].secret \in 1 .. MaxSecrets
    /\ caller[c].pc = "answer" /\ caller[c].e \in E!Present \ mixed =>
         caller[c].secret = registered[caller[c].e].secret

(* Who subscribed when a change was begun still does unless it is gone,    *)
(* and gets a row.                                                         *)
EnqueueHolds ==
  \A c \in Clients :
    /\ caller[c].k \in Changes \cup {None}
    /\ caller[c].to \subseteq used
    /\ caller[c].pc \in {"select", "insert"} <=> caller[c].k # None
    /\ caller[c].k # None =>
         \A e \in subscribed[caller[c].k] \cap E!Present :
           /\ registered[e].hears
           /\ caller[c].pc = "insert" => e \in caller[c].to

(* What a client has under way.                                            *)
CallerType == [pc : {"idle", "rotate", "answer", "select", "insert"},
               e : Endpoints \cup {None}, k : Changes \cup {None}, secret : 0 .. MaxSecrets,
               to : SUBSET Endpoints]

(* The tables and clients refer to endpoints whose id was given out.       *)
IdsOnce ==
  /\ E!Present \subseteq used
  /\ subscribed \in [Changes -> SUBSET used]
  /\ announced \subseteq Changes
  /\ caller \in [Clients -> CallerType]

(* What holds of the endpoints, their secrets and their clients.           *)
EndpointsInv ==
  /\ E!TypeOK /\ IdsOnce /\ AnswersHold /\ EnqueueHolds
  /\ E!SecretsExplained /\ E!EveryoneTold /\ E!RefusedByDeletion

(* A client without a call.                                                *)
LEMMA IdleCaller ==
  /\ E!Idle \in CallerType /\ E!Idle.pc = "idle" /\ E!Idle.k = None /\ E!Idle.to = {}
BY DeliveriesAssumption DEF E!Idle, CallerType, E!EndpointsAssumption

(* Initially there is no endpoint and nobody calls.                        *)
LEMMA EndpointsInit == E!Init => EndpointsInv
<1> SUFFICES ASSUME E!Init PROVE EndpointsInv
  OBVIOUS
<1>1. MaxSecrets \in Nat
  BY DeliveriesAssumption DEF E!EndpointsAssumption
<1>2. \A c \in Clients : caller[c] = [pc |-> "idle", e |-> None, k |-> None, secret |-> 0, to |-> {}]
  BY DEF E!Init, E!Idle
<1>3. E!TypeOK /\ IdsOnce
  BY <1>1, <1>2, IdleCaller DEF E!Init, E!TypeOK, IdsOnce, CallerType, E!Present, E!Idle
<1>4. AnswersHold /\ EnqueueHolds
  BY <1>2 DEF AnswersHold, EnqueueHolds
<1>5. E!SecretsExplained /\ E!EveryoneTold /\ E!RefusedByDeletion
  BY DEF E!Init, E!SecretsExplained, E!EveryoneTold, E!RefusedByDeletion, E!Present
<1> QED BY <1>3, <1>4, <1>5 DEF EndpointsInv

(* What the proofs use of the types.                                       *)
LEMMA EndpointTypes ==
  ASSUME EndpointsInv
  PROVE  /\ MaxSecrets \in Nat /\ None \notin Endpoints \cup Changes
         /\ None \notin [hears : BOOLEAN, secret : 1 .. MaxSecrets]
         /\ registered \in [Endpoints -> [hears : BOOLEAN, secret : 1 .. MaxSecrets] \cup {None}]
         /\ \A e \in Endpoints : e \in E!Present <=> registered[e] # None
         /\ E!Present \subseteq used /\ mixed \subseteq used /\ used \subseteq Endpoints
         /\ secrets \in 0 .. MaxSecrets /\ shown \in [Endpoints -> 0 .. MaxSecrets]
         /\ queued \subseteq Endpoints \X Changes
         /\ subscribed \in [Changes -> SUBSET used] /\ announced \subseteq Changes
         /\ caller \in [Clients -> CallerType]
BY DeliveriesAssumption DEF EndpointsInv, E!TypeOK, IdsOnce, CallerType, E!EndpointsAssumption, E!Present

(* A request takes a step that changes neither the endpoints nor what is   *)
(* queued for them: it becomes q.                                          *)
LEMMA CallerStep ==
  ASSUME EndpointsInv, NEW c \in Clients, NEW q \in CallerType,
         caller' = [caller EXCEPT ![c] = q],
         UNCHANGED <<registered, used, secrets>>,
         q.pc = "rotate" => q.e \in used,
         q.pc # "answer",
         q.to \subseteq used,
         q.pc \in {"select", "insert"} <=> q.k # None,
         \A k \in Changes : subscribed'[k] # subscribed[k] =>
           /\ k \notin announced /\ \A d \in Clients : caller[d].k # k
           /\ subscribed'[k] \subseteq E!Subscribed,
         subscribed' \in [Changes -> SUBSET used],
         q.k # None => \A e \in subscribed'[q.k] \cap E!Present :
                         registered[e].hears /\ (q.pc = "insert" => e \in q.to),
         shown' \in [Endpoints -> 0 .. MaxSecrets],
         mixed \subseteq mixed', mixed' \subseteq used,
         \A e \in E!Present \ mixed' :
           /\ shown'[e] # shown[e] => shown'[e] = registered[e].secret
           /\ caller[c].pc = "answer" /\ caller[c].e = e => shown'[e] = registered[e].secret,
         queued' \subseteq Endpoints \X Changes, queued \subseteq queued',
         \A p \in queued' \ queued : p[1] \in E!Present,
         announced' \subseteq Changes, announced \subseteq announced',
         \A k \in announced' \ announced :
           \A e \in subscribed'[k] \cap E!Present : <<e, k>> \in queued',
         refused' # refused => used \ E!Present # {}
  PROVE  EndpointsInv'
<1>1. /\ caller'[c] = q /\ \A d \in Clients \ {c} : caller'[d] = caller[d]
      /\ caller' \in [Clients -> CallerType]
  BY EndpointTypes
<1>2. E!Present' = E!Present
  BY DEF E!Present
<1>3. IdsOnce'
  BY <1>1, <1>2, EndpointTypes DEF IdsOnce, CallerType
<1>4. E!TypeOK'
  <2>1. \A d \in Clients : caller'[d].pc \in {"idle", "rotate", "answer", "select", "insert"}
    BY <1>1 DEF CallerType
  <2> QED BY <2>1, EndpointTypes DEF E!TypeOK
<1>5. AnswersHold'
  BY <1>1, <1>2 DEF EndpointsInv, AnswersHold
<1>6. EnqueueHolds'
  <2> SUFFICES ASSUME NEW d \in Clients
               PROVE  /\ caller'[d].k \in Changes \cup {None}
                      /\ caller'[d].to \subseteq used
                      /\ caller'[d].pc \in {"select", "insert"} <=> caller'[d].k # None
                      /\ caller'[d].k # None =>
                           \A e \in subscribed'[caller'[d].k] \cap E!Present :
                             /\ registered[e].hears
                             /\ caller'[d].pc = "insert" => e \in caller'[d].to
    BY <1>2 DEF EnqueueHolds
  <2>1. CASE d = c
    BY <1>1, <2>1 DEF CallerType
  <2>2. CASE d # c
    <3>1. caller'[d] = caller[d]
      BY <1>1, <2>2
    <3>2. caller[d].k # None => subscribed'[caller[d].k] = subscribed[caller[d].k]
      BY DEF EndpointsInv, EnqueueHolds
    <3> QED BY <3>1, <3>2 DEF EndpointsInv, EnqueueHolds
  <2> QED BY <2>1, <2>2
<1>7. E!SecretsExplained'
  <2> SUFFICES ASSUME NEW e \in E!Present \ mixed'
               PROVE  \/ shown'[e] = registered[e].secret
                      \/ \E d \in Clients : caller'[d].pc = "answer" /\ caller'[d].e = e
    BY <1>2 DEF E!SecretsExplained
  <2>1. CASE shown[e] = registered[e].secret
    BY <2>1
  <2>2. CASE \E d \in Clients : caller[d].pc = "answer" /\ caller[d].e = e
    <3>1. PICK d \in Clients : caller[d].pc = "answer" /\ caller[d].e = e
      BY <2>2
    <3>2. CASE d = c
      BY <3>1, <3>2
    <3>3. CASE d # c
      BY <1>1, <3>1, <3>3
    <3> QED BY <3>2, <3>3
  <2> QED BY <2>1, <2>2 DEF EndpointsInv, E!SecretsExplained
<1>8. E!EveryoneTold'
  <2>1. ASSUME NEW k \in announced', NEW e \in subscribed'[k] \cap E!Present
        PROVE  <<e, k>> \in queued'
    <3>1. CASE k \in announced
      <4>1. subscribed'[k] = subscribed[k]
        BY <3>1, EndpointTypes
      <4> QED BY <2>1, <3>1, <4>1 DEF EndpointsInv, E!EveryoneTold
    <3>2. CASE k \notin announced
      BY <2>1, <3>2
    <3> QED BY <3>1, <3>2
  <2>2. \A p \in queued' : p[1] \in E!Present
    BY DEF EndpointsInv, E!EveryoneTold
  <2> QED BY <1>2, <2>1, <2>2 DEF E!EveryoneTold
<1>9. E!RefusedByDeletion'
  BY <1>2 DEF EndpointsInv, E!RefusedByDeletion
<1> QED BY <1>3, <1>4, <1>5, <1>6, <1>7, <1>8, <1>9 DEF EndpointsInv

(* A rotation is read, an answer arrives or is lost, a rotation finds its  *)
(* endpoint gone.                                                          *)
LEMMA AnswerInv ==
  ASSUME EndpointsInv, NEW c \in Clients,
         \/ \E e \in Endpoints : E!RotateRead(c, e)
         \/ E!Answer(c) \/ E!Lost(c)
         \/ E!RotateCommit(c) /\ caller[c].e \notin E!Present
  PROVE  EndpointsInv'
<1>1. /\ UNCHANGED <<registered, used, secrets, queued, announced, refused, subscribed>>
      /\ \A k \in Changes : subscribed'[k] = subscribed[k]
      /\ subscribed' \in [Changes -> SUBSET used]
      /\ queued' \subseteq Endpoints \X Changes /\ announced' \subseteq Changes
      /\ announced' \ announced = {} /\ queued' \ queued = {}
  BY EndpointTypes DEF E!RotateRead, E!Answer, E!Lost, E!RotateCommit
<1>2. CASE \E e \in Endpoints : E!RotateRead(c, e)
  <2>1. PICK e \in Endpoints : E!RotateRead(c, e)
    BY <1>2
  <2> DEFINE q == [E!Idle EXCEPT !.pc = "rotate", !.e = e]
  <2>2. /\ q \in CallerType /\ q.pc = "rotate" /\ q.e = e /\ q.k = None /\ q.to = {}
    BY IdleCaller DEF CallerType
  <2>3. /\ caller' = [caller EXCEPT ![c] = q] /\ e \in used /\ caller[c].pc = "idle"
        /\ UNCHANGED <<shown, mixed>>
    BY <2>1, EndpointTypes DEF E!RotateRead
  <2> HIDE DEF q
  <2> QED BY <1>1, <2>2, <2>3, CallerStep, EndpointTypes
<1>3. CASE E!Answer(c)
  <2>1. /\ caller' = [caller EXCEPT ![c] = E!Idle] /\ UNCHANGED mixed
        /\ shown' = [shown EXCEPT ![caller[c].e] = caller[c].secret]
        /\ caller[c].pc = "answer"
    BY <1>3 DEF E!Answer, E!Ends
  <2>2. /\ caller[c].e \in used /\ caller[c].secret \in 0 .. MaxSecrets
        /\ caller[c].e \in E!Present \ mixed => caller[c].secret = registered[caller[c].e].secret
    BY <2>1, EndpointTypes DEF EndpointsInv, AnswersHold, CallerType
  <2>3. shown' \in [Endpoints -> 0 .. MaxSecrets]
    BY <2>1, <2>2, EndpointTypes
  <2>4. \A e \in E!Present \ mixed' :
          /\ shown'[e] # shown[e] => shown'[e] = registered[e].secret
          /\ caller[c].e = e => shown'[e] = registered[e].secret
    BY <2>1, <2>2, EndpointTypes
  <2> DEFINE q == E!Idle
  <2>5. q \in CallerType /\ q.pc = "idle" /\ q.k = None /\ q.to = {}
    BY IdleCaller
  <2>6. caller' = [caller EXCEPT ![c] = q]
    BY <2>1
  <2> HIDE DEF q
  <2> QED BY <1>1, <2>1, <2>3, <2>4, <2>5, <2>6, CallerStep, EndpointTypes
<1>4. CASE E!Lost(c) \/ (E!RotateCommit(c) /\ caller[c].e \notin E!Present)
  <2>1. /\ caller' = [caller EXCEPT ![c] = E!Idle] /\ UNCHANGED shown
        /\ mixed \subseteq mixed'
        /\ \A e \in mixed' \ mixed : caller[c].pc = "answer" /\ e = caller[c].e
        /\ caller[c].pc = "answer" => caller[c].e \in mixed'
    BY <1>4 DEF E!Lost, E!RotateCommit, E!Ends
  <2>2. mixed' \subseteq used
    BY <2>1, EndpointTypes DEF EndpointsInv, AnswersHold
  <2>3. \A e \in E!Present \ mixed' : ~(caller[c].pc = "answer" /\ caller[c].e = e)
    BY <2>1
  <2> DEFINE q == E!Idle
  <2>4. q \in CallerType /\ q.pc = "idle" /\ q.k = None /\ q.to = {}
    BY IdleCaller
  <2>5. caller' = [caller EXCEPT ![c] = q]
    BY <2>1
  <2> HIDE DEF q
  <2> QED BY <1>1, <2>1, <2>2, <2>3, <2>4, <2>5, CallerStep, EndpointTypes
<1> QED BY <1>2, <1>3, <1>4

(* A change is announced: who subscribes is read, perhaps twice, and the   *)
(* rows are committed or refused.                                          *)
LEMMA AnnounceInv ==
  ASSUME EndpointsInv, NEW c \in Clients,
         \/ \E e \in Endpoints, k \in Changes : E!TestRead(c, e, k)
         \/ \E k \in Changes : E!Select(c, k)
         \/ E!Insert(c)
  PROVE  EndpointsInv'
<1>1. /\ UNCHANGED <<registered, used, secrets, shown, mixed>>
      /\ caller[c].pc # "answer" /\ mixed' \subseteq used
      /\ shown' \in [Endpoints -> 0 .. MaxSecrets]
  BY EndpointTypes DEF E!TestRead, E!Select, E!Insert
<1>2. E!Subscribed \subseteq E!Present /\ \A e \in E!Present : e \in E!Subscribed <=> registered[e].hears
  BY EndpointTypes DEF E!Subscribed, E!Present
<1>3. ASSUME NEW k \in Changes, NEW q \in CallerType,
             caller' = [caller EXCEPT ![c] = q],
             UNCHANGED <<queued, announced, refused>>,
             q.k = k, q.pc \in {"select", "insert"}, q.to \subseteq used,
             q.pc = "insert" => q.to = E!Subscribed,
             \/ UNCHANGED subscribed /\ caller[c].k = k
             \/ /\ subscribed' = [subscribed EXCEPT ![k] = E!Subscribed]
                /\ k \notin announced /\ \A d \in Clients : caller[d].k # k
      PROVE  EndpointsInv'
  <2>1. E!Subscribed \subseteq used
    BY <1>2, EndpointTypes
  <2>2. subscribed' \in [Changes -> SUBSET used]
    BY <1>3, <2>1, EndpointTypes
  <2>3. \A h \in Changes : subscribed'[h] # subscribed[h] =>
           /\ h \notin announced /\ \A d \in Clients : caller[d].k # h
           /\ subscribed'[h] \subseteq E!Subscribed
    BY <1>3, EndpointTypes
  <2>4. \A e \in subscribed'[k] \cap E!Present :
          registered[e].hears /\ (q.pc = "insert" => e \in q.to)
    <3>1. \A e \in subscribed'[k] \cap E!Present : registered[e].hears
      <4>1. CASE UNCHANGED subscribed /\ caller[c].k = k
        BY <4>1, EndpointTypes DEF EndpointsInv, EnqueueHolds
      <4>2. CASE subscribed' = [subscribed EXCEPT ![k] = E!Subscribed]
        BY <1>2, <4>2, EndpointTypes
      <4> QED BY <1>3, <4>1, <4>2
    <3> QED BY <1>2, <1>3, <3>1
  <2>5. q.k # None /\ q.pc # "answer" /\ q.pc # "rotate"
    BY <1>3, EndpointTypes
  <2>6. /\ queued' \subseteq Endpoints \X Changes /\ announced' \subseteq Changes
        /\ announced' \ announced = {} /\ queued' \ queued = {}
    BY <1>3, EndpointTypes
  <2> QED BY <1>1, <1>3, <2>2, <2>3, <2>4, <2>5, <2>6, CallerStep
<1>4. ASSUME NEW e \in Endpoints, NEW k \in Changes, E!TestRead(c, e, k)
      PROVE  EndpointsInv'
  <2> DEFINE q == [E!Idle EXCEPT !.pc = "select", !.k = k]
  <2>1. /\ q \in CallerType /\ q.pc = "select" /\ q.k = k /\ q.to = {}
    BY IdleCaller DEF CallerType
  <2>2. /\ caller' = [caller EXCEPT ![c] = q] /\ UNCHANGED <<queued, announced, refused>>
        /\ subscribed' = [subscribed EXCEPT ![k] = E!Subscribed]
        /\ k \notin announced /\ \A d \in Clients : caller[d].k # k
    BY <1>4 DEF E!TestRead
  <2> HIDE DEF q
  <2> QED BY <1>3, <2>1, <2>2
<1>5. ASSUME NEW k \in Changes, E!Select(c, k)
      PROVE  EndpointsInv'
  <2> DEFINE q == [E!Idle EXCEPT !.pc = "insert", !.k = k, !.to = E!Subscribed]
  <2>1. E!Subscribed \subseteq used /\ E!Subscribed \in SUBSET Endpoints
    BY <1>2, EndpointTypes
  <2>2. /\ q \in CallerType /\ q.pc = "insert" /\ q.k = k /\ q.to = E!Subscribed
    BY <2>1, IdleCaller DEF CallerType
  <2>3. /\ caller' = [caller EXCEPT ![c] = q] /\ UNCHANGED <<queued, announced, refused>>
        /\ \/ UNCHANGED subscribed /\ caller[c].k = k
           \/ /\ subscribed' = [subscribed EXCEPT ![k] = E!Subscribed]
              /\ k \notin announced /\ \A d \in Clients : caller[d].k # k
    BY <1>5 DEF E!Select
  <2> HIDE DEF q
  <2> QED BY <1>3, <2>1, <2>2, <2>3
<1>6. CASE E!Insert(c)
  <2> DEFINE k == caller[c].k
  <2>1. /\ caller' = [caller EXCEPT ![c] = E!Idle] /\ UNCHANGED subscribed
        /\ caller[c].pc = "insert"
        /\ \/ /\ caller[c].to \subseteq E!Present
              /\ queued' = queued \cup (caller[c].to \X {k})
              /\ announced' = announced \cup {k} /\ UNCHANGED refused
           \/ /\ ~(caller[c].to \subseteq E!Present) /\ UNCHANGED <<queued, announced>>
    BY <1>6 DEF E!Insert, E!Ends
  <2>2. /\ k \in Changes /\ caller[c].to \subseteq used
        /\ \A e \in subscribed[k] \cap E!Present : e \in caller[c].to
    BY <2>1 DEF EndpointsInv, EnqueueHolds
  <2>3. /\ queued' \subseteq Endpoints \X Changes /\ queued \subseteq queued'
        /\ \A p \in queued' \ queued : p[1] \in E!Present
        /\ announced' \subseteq Changes /\ announced \subseteq announced'
        /\ \A h \in announced' \ announced :
             \A e \in subscribed'[h] \cap E!Present : <<e, h>> \in queued'
        /\ refused' # refused => used \ E!Present # {}
    <3>1. CASE caller[c].to \subseteq E!Present /\ UNCHANGED refused
               /\ queued' = queued \cup (caller[c].to \X {k}) /\ announced' = announced \cup {k}
      <4>1. caller[c].to \X {k} \subseteq Endpoints \X Changes
        BY <2>2, EndpointTypes
      <4>2. \A p \in caller[c].to \X {k} : p[1] \in E!Present
        BY <3>1
      <4>3. \A e \in subscribed[k] \cap E!Present : <<e, k>> \in queued'
        BY <2>2, <3>1
      <4> QED BY <2>1, <2>2, <3>1, <4>1, <4>2, <4>3, EndpointTypes
    <3>2. CASE ~(caller[c].to \subseteq E!Present) /\ UNCHANGED <<queued, announced>>
      BY <2>2, <3>2, EndpointTypes
    <3> QED BY <2>1, <3>1, <3>2
  <2> DEFINE q == E!Idle
  <2>4. q \in CallerType /\ q.pc = "idle" /\ q.k = None /\ q.to = {}
    BY IdleCaller
  <2>5. caller' = [caller EXCEPT ![c] = q]
    BY <2>1
  <2>6. /\ subscribed' \in [Changes -> SUBSET used]
        /\ \A h \in Changes : subscribed'[h] = subscribed[h]
    BY <2>1, EndpointTypes
  <2> HIDE DEF q
  <2> QED BY <1>1, <2>3, <2>4, <2>5, <2>6, CallerStep
<1> QED BY <1>4, <1>5, <1>6

(* An endpoint is stored, new or with another secret, and the answer that  *)
(* shows the secret is on its way: the others are as they were.            *)
LEMMA StoreStep ==
  ASSUME EndpointsInv, NEW c \in Clients, NEW x \in Endpoints,
         NEW row \in [hears : BOOLEAN, secret : 1 .. MaxSecrets], NEW q \in CallerType,
         caller' = [caller EXCEPT ![c] = q], caller[c].pc # "answer",
         q.pc = "answer", q.e = x, q.secret = row.secret, q.k = None, q.to \subseteq used,
         registered' = [registered EXCEPT ![x] = row],
         secrets' \in 0 .. MaxSecrets, mixed \subseteq mixed', mixed' \subseteq used,
         \/ x \notin used /\ used' = used \cup {x}
         \/ /\ x \in E!Present /\ used' = used /\ row.hears = registered[x].hears
            /\ x \notin mixed' => ~E!Crossing(c, x),
         UNCHANGED <<shown, queued, announced, refused, subscribed>>
  PROVE  EndpointsInv'
<1>1. /\ caller'[c] = q /\ \A d \in Clients \ {c} : caller'[d] = caller[d]
      /\ caller' \in [Clients -> CallerType]
  BY EndpointTypes
<1>2. /\ row # None /\ registered'[x] = row
      /\ \A e \in Endpoints \ {x} : registered'[e] = registered[e]
      /\ registered' \in [Endpoints -> [hears : BOOLEAN, secret : 1 .. MaxSecrets] \cup {None}]
  BY EndpointTypes
<1>3. E!Present' = E!Present \cup {x}
  BY <1>2 DEF E!Present
<1>4. used \subseteq used' /\ x \in used' /\ used' \subseteq Endpoints /\ E!Present' \subseteq used'
  BY <1>3, EndpointTypes
<1>5. E!TypeOK'
  <2>1. \A d \in Clients : caller'[d].pc \in {"idle", "rotate", "answer", "select", "insert"}
    BY <1>1 DEF CallerType
  <2> QED BY <1>2, <1>4, <2>1, EndpointTypes DEF E!TypeOK
<1>6. IdsOnce'
  BY <1>1, <1>4, EndpointTypes DEF IdsOnce, CallerType
<1>7. \A d \in Clients \ {c} :
        /\ caller[d].pc \in {"answer", "rotate"} => caller[d].e \in used
        /\ caller[d].pc = "answer" => caller[d].secret \in 1 .. MaxSecrets
        /\ caller[d].pc = "answer" /\ caller[d].e = x => x \in mixed'
  BY EndpointTypes DEF EndpointsInv, AnswersHold, E!Crossing
<1>8. AnswersHold'
  <2> SUFFICES ASSUME NEW d \in Clients
               PROVE  /\ caller'[d].pc \in {"answer", "rotate"} => caller'[d].e \in used'
                      /\ caller'[d].pc = "answer" => caller'[d].secret \in 1 .. MaxSecrets
                      /\ caller'[d].pc = "answer" /\ caller'[d].e \in E!Present' \ mixed' =>
                           caller'[d].secret = registered'[caller'[d].e].secret
    BY DEF AnswersHold
  <2>1. CASE d = c
    BY <1>1, <1>2, <1>4, <2>1
  <2>2. CASE d # c
    <3>1. caller'[d] = caller[d]
      BY <1>1, <2>2
    <3>2. ASSUME caller[d].pc = "answer", caller[d].e \in E!Present' \ mixed'
          PROVE  caller[d].secret = registered'[caller[d].e].secret
      <4>1. caller[d].e # x /\ caller[d].e \in E!Present \ mixed
        BY <1>3, <1>7, <2>2, <3>2
      <4>2. registered'[caller[d].e] = registered[caller[d].e]
        BY <1>2, <4>1, EndpointTypes
      <4> QED BY <3>2, <4>1, <4>2 DEF EndpointsInv, AnswersHold
    <3> QED BY <1>4, <1>7, <2>2, <3>1, <3>2
  <2> QED BY <2>1, <2>2
<1>9. x \in E!Present => row.hears = registered[x].hears
  BY EndpointTypes
<1>10. \A k \in Changes : subscribed[k] \cap E!Present' = subscribed[k] \cap E!Present
  BY <1>3, EndpointTypes
<1>11. EnqueueHolds'
  <2> SUFFICES ASSUME NEW d \in Clients
               PROVE  /\ caller'[d].k \in Changes \cup {None}
                      /\ caller'[d].to \subseteq used'
                      /\ caller'[d].pc \in {"select", "insert"} <=> caller'[d].k # None
                      /\ caller'[d].k # None =>
                           \A e \in subscribed[caller'[d].k] \cap E!Present' :
                             /\ registered'[e].hears
                             /\ caller'[d].pc = "insert" => e \in caller'[d].to
    BY DEF EnqueueHolds
  <2>1. CASE d = c
    BY <1>1, <1>4, <2>1
  <2>2. CASE d # c
    <3>1. caller'[d] = caller[d]
      BY <1>1, <2>2
    <3>2. ASSUME caller[d].k # None, NEW e \in subscribed[caller[d].k] \cap E!Present'
          PROVE  registered'[e].hears /\ (caller[d].pc = "insert" => e \in caller[d].to)
      <4>1. caller[d].k \in Changes
        BY <3>2 DEF EndpointsInv, EnqueueHolds
      <4>2. e \in E!Present
        BY <1>10, <3>2, <4>1
      <4>3. registered[e].hears /\ (caller[d].pc = "insert" => e \in caller[d].to)
        BY <3>2, <4>2 DEF EndpointsInv, EnqueueHolds
      <4>4. registered'[e].hears = registered[e].hears
        BY <1>2, <1>9, <4>2, EndpointTypes
      <4> QED BY <4>3, <4>4
    <3> QED BY <1>4, <3>1, <3>2 DEF EndpointsInv, EnqueueHolds
  <2> QED BY <2>1, <2>2
<1>12. E!SecretsExplained'
  <2> SUFFICES ASSUME NEW e \in E!Present' \ mixed'
               PROVE  \/ shown[e] = registered'[e].secret
                      \/ \E d \in Clients : caller'[d].pc = "answer" /\ caller'[d].e = e
    BY DEF E!SecretsExplained
  <2>1. CASE e = x
    BY <1>1, <2>1
  <2>2. CASE e # x
    <3>1. e \in E!Present \ mixed /\ registered'[e] = registered[e]
      BY <1>2, <1>3, <2>2, EndpointTypes
    <3>2. CASE \E d \in Clients : caller[d].pc = "answer" /\ caller[d].e = e
      BY <1>1, <3>2
    <3> QED BY <3>1, <3>2 DEF EndpointsInv, E!SecretsExplained
  <2> QED BY <2>1, <2>2
<1>13. E!EveryoneTold'
  <2>1. \A k \in announced : \A e \in subscribed[k] \cap E!Present' : <<e, k>> \in queued
    BY <1>10, EndpointTypes DEF EndpointsInv, E!EveryoneTold
  <2>2. \A p \in queued : p[1] \in E!Present'
    BY <1>3 DEF EndpointsInv, E!EveryoneTold
  <2> QED BY <2>1, <2>2 DEF E!EveryoneTold
<1>14. E!RefusedByDeletion'
  <2>1. used \ E!Present \subseteq used' \ E!Present'
    BY <1>3, <1>4
  <2> QED BY <2>1 DEF EndpointsInv, E!RefusedByDeletion
<1> QED BY <1>5, <1>6, <1>8, <1>11, <1>12, <1>13, <1>14 DEF EndpointsInv

(* An endpoint is created under an id that was never used, or given a new  *)
(* secret.                                                                 *)
LEMMA StoreInv ==
  ASSUME EndpointsInv, NEW c \in Clients,
         \/ \E e \in Endpoints, hears \in BOOLEAN : E!Create(c, e, hears)
         \/ E!RotateCommit(c) /\ caller[c].e \in E!Present
  PROVE  EndpointsInv'
<1>1. secrets < MaxSecrets /\ secrets' = secrets + 1
  BY DEF E!Create, E!RotateCommit
<1>2. secrets' \in 1 .. MaxSecrets /\ secrets' \in 0 .. MaxSecrets
  BY <1>1, EndpointTypes
<1>3. ASSUME NEW x \in Endpoints, NEW hears \in BOOLEAN, E!Create(c, x, hears)
      PROVE  EndpointsInv'
  <2> DEFINE row == [hears |-> hears, secret |-> secrets']
             q == [E!Idle EXCEPT !.pc = "answer", !.e = x, !.secret = secrets']
  <2>1. /\ q \in CallerType /\ q.pc = "answer" /\ q.e = x /\ q.secret = secrets'
        /\ q.k = None /\ q.to = {}
    BY <1>2, IdleCaller DEF CallerType
  <2>2. row \in [hears : BOOLEAN, secret : 1 .. MaxSecrets] /\ row.secret = secrets'
    BY <1>2
  <2>3. /\ caller' = [caller EXCEPT ![c] = q] /\ registered' = [registered EXCEPT ![x] = row]
        /\ caller[c].pc = "idle" /\ x \notin used /\ used' = used \cup {x}
        /\ UNCHANGED <<shown, mixed, queued, announced, refused, subscribed>>
    BY <1>1, <1>3 DEF E!Create, E!NewEndpoint
  <2> HIDE DEF q, row
  <2> QED BY <1>2, <2>1, <2>2, <2>3, StoreStep, EndpointTypes
<1>4. CASE E!RotateCommit(c) /\ caller[c].e \in E!Present
  <2> DEFINE x == caller[c].e
             row == [registered[x] EXCEPT !.secret = secrets']
             q == [caller[c] EXCEPT !.pc = "answer", !.secret = secrets']
  <2>1. /\ x \in E!Present /\ x \in Endpoints /\ x \in used
        /\ registered[x] \in [hears : BOOLEAN, secret : 1 .. MaxSecrets]
        /\ caller[c] \in CallerType /\ caller[c].pc = "rotate"
    BY <1>4, EndpointTypes DEF E!Present, E!RotateCommit
  <2>2. /\ row \in [hears : BOOLEAN, secret : 1 .. MaxSecrets] /\ row.secret = secrets'
        /\ row.hears = registered[x].hears
    BY <1>2, <2>1
  <2>3. /\ q \in CallerType /\ q.pc = "answer" /\ q.e = x /\ q.secret = secrets'
        /\ q.k = caller[c].k /\ q.to = caller[c].to
    BY <1>2, <2>1 DEF CallerType
  <2>4. caller[c].k = None /\ caller[c].to \subseteq used
    BY <2>1 DEF EndpointsInv, EnqueueHolds
  <2>5. /\ caller' = [caller EXCEPT ![c] = q] /\ registered' = [registered EXCEPT ![x] = row]
        /\ used' = used /\ mixed' = IF E!Crossing(c, x) THEN mixed \cup {x} ELSE mixed
        /\ UNCHANGED <<shown, queued, announced, refused, subscribed>>
    BY <1>1, <1>4, EndpointTypes DEF E!RotateCommit
  <2>6. mixed \subseteq mixed' /\ mixed' \subseteq used /\ (x \notin mixed' => ~E!Crossing(c, x))
    BY <2>1, <2>5, EndpointTypes
  <2> HIDE DEF q, row, x
  <2> QED BY <1>2, <2>1, <2>2, <2>3, <2>4, <2>5, <2>6, StoreStep
<1> QED BY <1>3, <1>4

(* An endpoint is deleted with its rows.                                   *)
LEMMA DeleteInv ==
  ASSUME EndpointsInv, NEW x \in Endpoints, E!Delete(x)
  PROVE  EndpointsInv'
<1>1. /\ x \in E!Present /\ registered' = [registered EXCEPT ![x] = None]
      /\ queued' = {p \in queued : p[1] # x}
      /\ UNCHANGED <<used, secrets, shown, mixed, announced, refused, subscribed, caller>>
  BY DEF E!Delete
<1>2. /\ registered'[x] = None /\ \A e \in Endpoints \ {x} : registered'[e] = registered[e]
      /\ registered' \in [Endpoints -> [hears : BOOLEAN, secret : 1 .. MaxSecrets] \cup {None}]
  BY <1>1, EndpointTypes
<1>3. E!Present' = E!Present \ {x}
  BY <1>2 DEF E!Present
<1>4. \A e \in E!Present' : e \in E!Present /\ e # x /\ registered'[e] = registered[e]
  BY <1>2, <1>3, EndpointTypes
<1>5. E!TypeOK' /\ IdsOnce'
  BY <1>1, <1>2, <1>3 DEF EndpointsInv, E!TypeOK, IdsOnce
<1>6. AnswersHold' /\ EnqueueHolds'
  BY <1>1, <1>4 DEF EndpointsInv, AnswersHold, EnqueueHolds
<1>7. E!SecretsExplained'
  BY <1>1, <1>4 DEF EndpointsInv, E!SecretsExplained
<1>8. E!EveryoneTold'
  <2>1. ASSUME NEW k \in announced, NEW e \in subscribed[k] \cap E!Present'
        PROVE  <<e, k>> \in queued'
    <3>1. <<e, k>> \in queued /\ e # x
      BY <1>4, <2>1 DEF EndpointsInv, E!EveryoneTold
    <3>2. <<e, k>>[1] = e
      OBVIOUS
    <3> QED BY <1>1, <3>1, <3>2
  <2>2. \A p \in queued' : p[1] \in E!Present'
    BY <1>1, <1>3 DEF EndpointsInv, E!EveryoneTold
  <2> QED BY <1>1, <2>1, <2>2 DEF E!EveryoneTold
<1>9. E!RefusedByDeletion'
  BY <1>1, <1>3 DEF EndpointsInv, E!RefusedByDeletion
<1> QED BY <1>5, <1>6, <1>7, <1>8, <1>9 DEF EndpointsInv

(* Every call on the endpoints keeps it.                                   *)
LEMMA EndpointsStep == EndpointsInv /\ E!Next => EndpointsInv'
<1> SUFFICES ASSUME EndpointsInv, E!Next PROVE EndpointsInv'
  OBVIOUS
<1>1. ASSUME NEW c \in Clients, E!RotateCommit(c)
      PROVE  EndpointsInv'
  BY <1>1, AnswerInv, StoreInv
<1> QED BY <1>1, StoreInv, AnswerInv, AnnounceInv, DeleteInv DEF E!Next

-----------------------------------------------------------------------------
(* The composition: the part that moves keeps its own invariant.           *)
DeliveriesInv ==
  /\ part = "grants" => GrantsInv
  /\ part = "outbox" => OutboxInv(Rows, 0)
  /\ part = "replays" => OutboxInv({1}, MaxReplays)
  /\ part = "endpoints" => EndpointsInv

(* The two instances of the run are instances of the one proved about.     *)
LEMMA SameOutbox ==
  (W!Init => O(Rows, 0)!Init) /\ (W!Next => O(Rows, 0)!Next)
<1>1. W!Init => O(Rows, 0)!Init
  BY DEF W!Init, O!Init, W!NoReplay, O!NoReplay, W!NoTally, O!NoTally
<1>2. \A S, k : W!Oldest(S, k) = O(Rows, 0)!Oldest(S, k)
  BY Zenon DEF W!Oldest, O!Oldest, W!Cardinality, O!Cardinality
<1>3. \A r : W!Enqueue(r) => O(Rows, 0)!Enqueue(r)
  BY DEF W!Enqueue, O!Enqueue, W!outbox, O!outbox, W!workers, O!workers, W!history, O!history
<1>4. \A r : W!PassBackoff(r) => O(Rows, 0)!PassBackoff(r)
  BY DEF W!PassBackoff, O!PassBackoff, W!outbox, O!outbox, W!workers, O!workers, W!history,
         O!history
<1>5. \A r : W!PassDay(r) => O(Rows, 0)!PassDay(r)
  BY DEF W!PassDay, O!PassDay, W!outbox, O!outbox, W!workers, O!workers, W!history, O!history
<1>6. \A r : W!ReplayRead(r) => O(Rows, 0)!ReplayRead(r)
  BY DEF W!ReplayRead, O!ReplayRead, W!outbox, O!outbox, W!workers, O!workers, W!history,
         O!history
<1>7. \A r : W!ReplayWrite(r) => O(Rows, 0)!ReplayWrite(r)
  BY DEF W!ReplayWrite, O!ReplayWrite, W!Free, O!Free, W!Held, O!Held, W!NoReplay,
         O!NoReplay, W!outbox, O!outbox, W!workers, O!workers, W!history, O!history
<1>8. \A w : W!Mark(w) => O(Rows, 0)!Mark(w)
  BY DEF W!Mark, O!Mark, W!Free, O!Free, W!Held, O!Held, W!outbox, O!outbox, W!workers,
         O!workers, W!history, O!history
<1>9. \A w : W!Select(w) => O(Rows, 0)!Select(w)
  BY <1>2
     DEF W!Select, O!Select, W!Available, O!Available, W!Free, O!Free, W!Held, O!Held,
         W!outbox, O!outbox, W!workers, O!workers, W!history, O!history
<1>10. \A w : W!SelectNothing(w) => O(Rows, 0)!SelectNothing(w)
  BY DEF W!SelectNothing, O!SelectNothing, W!Available, O!Available, W!Free, O!Free, W!Held,
         O!Held, W!Close, O!Close, W!outbox, O!outbox, W!workers, O!workers, W!history,
         O!history
<1>11. \A w : W!Commit(w) => O(Rows, 0)!Commit(w)
  BY DEF W!Commit, O!Commit, W!Posted, O!Posted, W!StatusAfter, O!StatusAfter,
         W!AttemptsAfter, O!AttemptsAfter, W!Close, O!Close, W!outbox, O!outbox, W!workers,
         O!workers, W!history, O!history
<1>12. \A w, r, x : W!Deliver(w, r, x) => O(Rows, 0)!Deliver(w, r, x)
  BY <1>2
     DEF W!Deliver, O!Deliver, W!Todo, O!Todo, W!outbox, O!outbox, W!workers, O!workers,
         W!history, O!history
<1>13. \A w : W!Abort(w) => O(Rows, 0)!Abort(w)
  BY DEF W!Abort, O!Abort, W!Posted, O!Posted, W!Close, O!Close, W!outbox, O!outbox,
         W!workers, O!workers, W!history, O!history
<1>14. W!StartDelete => O(Rows, 0)!StartDelete
  BY DEF W!StartDelete, O!StartDelete, W!outbox, O!outbox, W!workers, O!workers, W!history,
         O!history
<1>15. W!FinishDelete => O(Rows, 0)!FinishDelete
  BY DEF W!FinishDelete, O!FinishDelete, W!Free, O!Free, W!Held, O!Held, W!outbox, O!outbox,
         W!workers, O!workers, W!history, O!history
<1>16. W!DeleteIsVictim => O(Rows, 0)!DeleteIsVictim
  BY DEF W!DeleteIsVictim, O!DeleteIsVictim, W!Posted, O!Posted, W!outbox, O!outbox,
         W!workers, O!workers, W!history, O!history
<1>17. ASSUME W!Next PROVE O(Rows, 0)!Next
  BY <1>17, <1>3, <1>4, <1>5, <1>6, <1>7, <1>8, <1>9, <1>10, <1>11, <1>12, <1>13, <1>14, <1>15, <1>16
     DEF W!Next, O!Next, W!WorkerStep, O!WorkerStep
<1> QED BY <1>1, <1>17

(* The same of the second instance.                                        *)
LEMMA SameReplays ==
  (R!Init => O({1}, MaxReplays)!Init) /\ (R!Next => O({1}, MaxReplays)!Next)
<1>1. R!Init => O({1}, MaxReplays)!Init
  BY DEF R!Init, O!Init, R!NoReplay, O!NoReplay, R!NoTally, O!NoTally
<1>2. \A S, k : R!Oldest(S, k) = O({1}, MaxReplays)!Oldest(S, k)
  BY Zenon DEF R!Oldest, O!Oldest, R!Cardinality, O!Cardinality
<1>3. \A r : R!Enqueue(r) => O({1}, MaxReplays)!Enqueue(r)
  BY DEF R!Enqueue, O!Enqueue, R!outbox, O!outbox, R!workers, O!workers, R!history, O!history
<1>4. \A r : R!PassBackoff(r) => O({1}, MaxReplays)!PassBackoff(r)
  BY DEF R!PassBackoff, O!PassBackoff, R!outbox, O!outbox, R!workers, O!workers, R!history,
         O!history
<1>5. \A r : R!PassDay(r) => O({1}, MaxReplays)!PassDay(r)
  BY DEF R!PassDay, O!PassDay, R!outbox, O!outbox, R!workers, O!workers, R!history, O!history
<1>6. \A r : R!ReplayRead(r) => O({1}, MaxReplays)!ReplayRead(r)
  BY DEF R!ReplayRead, O!ReplayRead, R!outbox, O!outbox, R!workers, O!workers, R!history,
         O!history
<1>7. \A r : R!ReplayWrite(r) => O({1}, MaxReplays)!ReplayWrite(r)
  BY DEF R!ReplayWrite, O!ReplayWrite, R!Free, O!Free, R!Held, O!Held, R!NoReplay,
         O!NoReplay, R!outbox, O!outbox, R!workers, O!workers, R!history, O!history
<1>8. \A w : R!Mark(w) => O({1}, MaxReplays)!Mark(w)
  BY DEF R!Mark, O!Mark, R!Free, O!Free, R!Held, O!Held, R!outbox, O!outbox, R!workers,
         O!workers, R!history, O!history
<1>9. \A w : R!Select(w) => O({1}, MaxReplays)!Select(w)
  BY <1>2
     DEF R!Select, O!Select, R!Available, O!Available, R!Free, O!Free, R!Held, O!Held,
         R!outbox, O!outbox, R!workers, O!workers, R!history, O!history
<1>10. \A w : R!SelectNothing(w) => O({1}, MaxReplays)!SelectNothing(w)
  BY DEF R!SelectNothing, O!SelectNothing, R!Available, O!Available, R!Free, O!Free, R!Held,
         O!Held, R!Close, O!Close, R!outbox, O!outbox, R!workers, O!workers, R!history,
         O!history
<1>11. \A w : R!Commit(w) => O({1}, MaxReplays)!Commit(w)
  BY DEF R!Commit, O!Commit, R!Posted, O!Posted, R!StatusAfter, O!StatusAfter,
         R!AttemptsAfter, O!AttemptsAfter, R!Close, O!Close, R!outbox, O!outbox, R!workers,
         O!workers, R!history, O!history
<1>12. \A w, r, x : R!Deliver(w, r, x) => O({1}, MaxReplays)!Deliver(w, r, x)
  BY <1>2
     DEF R!Deliver, O!Deliver, R!Todo, O!Todo, R!outbox, O!outbox, R!workers, O!workers,
         R!history, O!history
<1>13. \A w : R!Abort(w) => O({1}, MaxReplays)!Abort(w)
  BY DEF R!Abort, O!Abort, R!Posted, O!Posted, R!Close, O!Close, R!outbox, O!outbox,
         R!workers, O!workers, R!history, O!history
<1>14. R!StartDelete => O({1}, MaxReplays)!StartDelete
  BY DEF R!StartDelete, O!StartDelete, R!outbox, O!outbox, R!workers, O!workers, R!history,
         O!history
<1>15. R!FinishDelete => O({1}, MaxReplays)!FinishDelete
  BY DEF R!FinishDelete, O!FinishDelete, R!Free, O!Free, R!Held, O!Held, R!outbox, O!outbox,
         R!workers, O!workers, R!history, O!history
<1>16. R!DeleteIsVictim => O({1}, MaxReplays)!DeleteIsVictim
  BY DEF R!DeleteIsVictim, O!DeleteIsVictim, R!Posted, O!Posted, R!outbox, O!outbox,
         R!workers, O!workers, R!history, O!history
<1>17. ASSUME R!Next PROVE O({1}, MaxReplays)!Next
  BY <1>17, <1>3, <1>4, <1>5, <1>6, <1>7, <1>8, <1>9, <1>10, <1>11, <1>12, <1>13, <1>14, <1>15, <1>16
     DEF R!Next, O!Next, R!WorkerStep, O!WorkerStep
<1> QED BY <1>1, <1>17

(* What the runs check follows from the invariant.                         *)
LEMMA DeliveriesSafe == DeliveriesInv => GrantsAreTrailed /\ DeliveriesExplained
<1>1. Rows \in SUBSET Nat /\ {1} \in SUBSET Nat /\ 0 \in Nat /\ MaxReplays \in Nat
  BY Bounds
<1>2. OutboxInv(Rows, 0) => W!TypeOK /\ W!DuplicatesExplained
  BY <1>1, OutboxExplained DEF O!TypeOK, W!TypeOK, O!DuplicatesExplained, W!DuplicatesExplained
<1>3. OutboxInv({1}, MaxReplays) => R!TypeOK /\ R!PostsBounded /\ R!SettledIsTrue
  BY <1>1, OutboxExplained DEF O!TypeOK, R!TypeOK, O!PostsBounded, R!PostsBounded,
                               O!SettledIsTrue, R!SettledIsTrue
<1> QED BY <1>2, <1>3 DEF DeliveriesInv, GrantsAreTrailed, DeliveriesExplained, GrantsInv,
                          EndpointsInv

(* Each part begins as its module does.                                    *)
LEMMA DeliveriesInit == Init => DeliveriesInv
<1>1. Rows \in SUBSET Nat /\ {1} \in SUBSET Nat /\ 0 \in Nat /\ MaxReplays \in Nat
  BY Bounds
<1> QED BY <1>1, GrantsInit, OutboxInit, SameOutbox, SameReplays, EndpointsInit DEF Init, DeliveriesInv

(* Nothing moves.                                                          *)
LEMMA Stutter == DeliveriesInv /\ UNCHANGED vars => DeliveriesInv'
<1> SUFFICES ASSUME DeliveriesInv, UNCHANGED vars PROVE DeliveriesInv'
  OBVIOUS
<1>1. GrantsInv => GrantsInv'
  BY DEF vars, grantsVars, GrantsInv, J!TypeOK, J!TrailMatchesGrant, J!Ended, WritesHold,
         GrantedOnce, Writes
<1>2. ASSUME NEW rows, NEW replays, OutboxInv(rows, replays)
      PROVE  OutboxInv(rows, replays)'
  BY <1>2 DEF vars, outboxVars, OutboxInv, O!TypeOK, LocksHold, PostsCounted, AcksCounted,
              InFlight, UnsignedTold, ReplayHolds, O!SettledIsTrue
<1>3. EndpointsInv => EndpointsInv'
  BY DEF vars, endpointsVars, EndpointsInv, E!TypeOK, IdsOnce, AnswersHold, EnqueueHolds,
         E!SecretsExplained, E!EveryoneTold, E!RefusedByDeletion, E!Present
<1> QED BY <1>1, <1>2, <1>3 DEF DeliveriesInv, vars

(* The part that moves takes a step of its module.                         *)
LEMMA DeliveriesStep == DeliveriesInv /\ [Next]_vars => DeliveriesInv'
<1> SUFFICES ASSUME DeliveriesInv, Next PROVE DeliveriesInv'
  BY Stutter
<1>1. Rows \in SUBSET Nat /\ {1} \in SUBSET Nat /\ 0 \in Nat /\ MaxReplays \in Nat
  BY Bounds
<1>2. CASE part = "grants"
  BY <1>2, GrantsStep DEF DeliveriesInv, Next
<1>3. CASE part = "outbox"
  BY <1>1, <1>3, SameOutbox, OutboxStep DEF DeliveriesInv, Next
<1>4. CASE part = "replays"
  BY <1>1, <1>4, SameReplays, OutboxStep DEF DeliveriesInv, Next
<1>5. CASE part = "endpoints"
  BY <1>5, EndpointsStep DEF DeliveriesInv, Next
<1> QED BY <1>2, <1>3, <1>4, <1>5 DEF Next

(* The invariant of the composition.                                       *)
LEMMA DeliveriesInvariant == Spec => []DeliveriesInv
BY DeliveriesInit, DeliveriesStep, PTL DEF Spec

(* For any grants, administrators and expirers, and whatever fails between *)
(* the commits (api/v1/jit_grants.py): the chain tells the state of every  *)
(* grant at any moment.                                                    *)
THEOREM GrantsTrailed == Spec => []GrantsAreTrailed
BY DeliveriesInvariant, DeliveriesSafe, PTL

(* For any rows, workers, batch sizes, replays and rollbacks: a receiver   *)
(* sees an event again only after a rollback or a replay, a row is posted  *)
(* MAX_ATTEMPTS times per replay, and what the console shows of it is what *)
(* happened (webhooks/worker.py). For any endpoints and clients: whoever   *)
(* subscribed is told, and knows the secret that is stored, but for        *)
(* answers that crossed (api/v1/webhooks.py).                              *)
THEOREM DeliveriesHold == Spec => []DeliveriesExplained
BY DeliveriesInvariant, DeliveriesSafe, PTL

(* A grant that has ended is ended again, in the chain, only by a call     *)
(* that read it before (jit_grants.py, expire_due and revoke).             *)
THEOREM EndsAgainByOverlap == Spec => EndsAgainOnlyByOverlap
<1>1. DeliveriesInv /\ [Next]_vars => [part = "grants" => J!EndsAgainOnlyByOverlapStep]_vars
  <2> SUFFICES ASSUME DeliveriesInv, Next, part = "grants" PROVE J!EndsAgainOnlyByOverlapStep
    OBVIOUS
  <2> QED BY EndsAgain DEF DeliveriesInv, Next
<1> QED BY <1>1, DeliveriesInvariant, PTL DEF Spec, EndsAgainOnlyByOverlap

=============================================================================
