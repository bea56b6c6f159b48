---------------------------- MODULE AuditVerify ----------------------------
(***************************************************************************)
(* The cron job that verifies the audit chains of all organisations        *)
(* (scripts/verify_audit_chain.py), while requests append to them and      *)
(* somebody with access to the database tampers with their rows.           *)
(*                                                                         *)
(* One session serves the whole run.  The alert of a broken chain is an    *)
(* ordinary append, with a commit of its own; the webhook rows that follow *)
(* it wait for the next commit.  An append that loses the race for its     *)
(* sequence number fails in flush, and nothing rolls the session back:     *)
(* whatever is asked of it afterwards raises.                              *)
(***************************************************************************)
EXTENDS AuditRows

CONSTANTS Orgs,           \* the organisations, one chain each
          Events,         \* what requests record
          Alert,          \* the event audit.chain_broken
          MaxRows,        \* bound: requests append below this length
          MaxTampers,     \* bound on tampering
          MaxRuns         \* bound on runs of the job

VerifyAssumption == MaxRows \in Nat /\ MaxTampers \in Nat /\ MaxRuns \in Nat

VARIABLES table,          \* table[o]: the rows of audit_events of o
          tampers,        \* how often a row was tampered with
          job,            \* the run in progress, see Idle
          run             \* what became of the run so far

vars == <<table, tampers, job, run>>

(* The session's state: the organisations left to check, the one being     *)
(* alerted about and its row, the webhook rows not committed yet, and      *)
(* whether a failed flush has left the session unusable.                   *)
Idle == [pc |-> "idle", todo |-> {}, org |-> {}, row |-> {}, unsent |-> {}, poisoned |-> FALSE]

Init ==
  /\ table = [o \in Orgs |-> {}]
  /\ tampers = 0
  /\ job = Idle
  /\ run = [n |-> 0, found |-> {}, rows |-> {}, hooks |-> {}, exit |-> {}]

-----------------------------------------------------------------------------
(* A request appends an event (AuditLog shows the append in detail).       *)
Record(o, e) ==
  /\ Tip(table[o]) < MaxRows
  /\ table' = [table EXCEPT ![o] = @ \cup {NewRow(Tip(@) + 1, TipHash(@), e)}]
  /\ UNCHANGED <<tampers, job, run>>

(* Tampering, past the trigger that forbids it: a payload is edited, or a  *)
(* row is deleted.                                                         *)
Tamper(o) ==
  /\ tampers < MaxTampers
  /\ \E r \in table[o] :
       \/ \E e \in Events \ {r.event} :
            table' = [table EXCEPT ![o] = (@ \ {r}) \cup {[r EXCEPT !.event = e]}]
       \/ table' = [table EXCEPT ![o] = @ \ {r}]
  /\ tampers' = tampers + 1
  /\ UNCHANGED <<job, run>>

-----------------------------------------------------------------------------
(* main: a run begins with the list of all organisations.                  *)
Start ==
  /\ job.pc = "idle"
  /\ run.n < MaxRuns
  /\ job' = [Idle EXCEPT !.pc = "loop", !.todo = Orgs]
  /\ run' = [n |-> run.n + 1, found |-> {}, rows |-> {}, hooks |-> {}, exit |-> {}]
  /\ UNCHANGED <<table, tampers>>

(* _check_org: verify_chain reads and recomputes the chain of one          *)
(* organisation.                                                           *)
Check(o) ==
  /\ job.pc = "loop" /\ ~job.poisoned
  /\ o \in job.todo
  /\ IF VerifyOk(table[o], 0)
     THEN /\ job' = [job EXCEPT !.todo = @ \ {o}]
          /\ UNCHANGED run
     ELSE /\ job' = [job EXCEPT !.todo = @ \ {o}, !.pc = "alert", !.org = {o}]
          /\ run' = [run EXCEPT !.found = @ \cup {o}]
  /\ UNCHANGED <<table, tampers>>

(* record_admin: the alert is chained to the tip like any event.           *)
AlertRead(o) ==
  /\ job.pc = "alert" /\ job.org = {o}
  /\ job' = [job EXCEPT !.pc = "write",
               !.row = {NewRow(Tip(table[o]) + 1, TipHash(table[o]), Alert)}]
  /\ UNCHANGED <<table, tampers, run>>

(* The alert commits, and with it the webhook rows of the organisations    *)
(* before.                                                                 *)
AlertWrite(o) ==
  /\ job.pc = "write" /\ job.org = {o}
  /\ \A r \in job.row : r.seq \notin Sequences(table[o])
  /\ table' = [table EXCEPT ![o] = @ \cup job.row]
  /\ run' = [run EXCEPT !.rows = @ \cup {o}, !.hooks = @ \cup job.unsent]
  /\ job' = [job EXCEPT !.pc = "emit", !.row = {}, !.unsent = {}]
  /\ UNCHANGED tampers

(* A request took the number first: the error is logged and swallowed, and *)
(* the session is left in its failed transaction.                          *)
AlertRaced(o) ==
  /\ job.pc = "write" /\ job.org = {o}
  /\ \E r \in job.row : r.seq \in Sequences(table[o])
  /\ job' = [job EXCEPT !.pc = "emit", !.row = {}, !.unsent = {}, !.poisoned = TRUE]
  /\ UNCHANGED <<table, tampers, run>>

(* emit: the webhook rows join the open transaction; on a failed session   *)
(* it raises, which is logged and swallowed too.                           *)
Emit(o) ==
  /\ job.pc = "emit" /\ job.org = {o}
  /\ job' = [job EXCEPT !.pc = "loop", !.org = {},
               !.unsent = IF job.poisoned THEN @ ELSE @ \cup {o}]
  /\ UNCHANGED <<table, tampers, run>>

(* Mutant: the run commits nothing at its end.                             *)
Finish_NoCommit ==
  /\ job.pc = "loop" /\ ~job.poisoned /\ job.todo = {}
  /\ job' = Idle
  /\ run' = [run EXCEPT !.exit = {0}]
  /\ UNCHANGED <<table, tampers>>

(* The final commit; exit 0 whether or not chains are broken.              *)
Finish ==
  /\ job.pc = "loop" /\ ~job.poisoned /\ job.todo = {}
  /\ job' = Idle
  /\ run' = [run EXCEPT !.hooks = @ \cup job.unsent, !.exit = {0}]
  /\ UNCHANGED <<table, tampers>>

(* The failed session raises at the next query or at the final commit:     *)
(* exit 1, with the other organisations left unchecked.                    *)
Abort ==
  /\ job.pc = "loop" /\ job.poisoned
  /\ job' = Idle
  /\ run' = [run EXCEPT !.exit = {1}]
  /\ UNCHANGED <<table, tampers>>

(* The pod is lost; what is not committed is gone.                         *)
Crash ==
  /\ job.pc # "idle"
  /\ job' = Idle
  /\ UNCHANGED <<table, tampers, run>>

Next ==
  \/ \E o \in Orgs : \/ \E e \in Events : Record(o, e)
                     \/ Tamper(o)
                     \/ Check(o)
                     \/ AlertRead(o)
                     \/ AlertWrite(o)
                     \/ AlertRaced(o)
                     \/ Emit(o)
  \/ Start
  \/ Finish
  \/ Abort
  \/ Crash

Spec == Init /\ [][Next]_vars

-----------------------------------------------------------------------------
(* The types of the variables of the verification job                      *)
(* (scripts/verify_audit_chain.py).                                        *)
TypeOK ==
  /\ DOMAIN table = Orgs
  /\ \A o \in Orgs : \A r \in table[o] : r.event \in Events \cup {Alert}
  /\ tampers \in 0 .. MaxTampers
  /\ job.pc \in {"idle", "loop", "alert", "write", "emit"}
  /\ job.todo \subseteq Orgs /\ job.org \subseteq Orgs /\ job.unsent \subseteq Orgs
  /\ job.poisoned \in BOOLEAN
  /\ run.n \in 0 .. MaxRuns
  /\ run.found \subseteq Orgs /\ run.rows \subseteq Orgs /\ run.hooks \subseteq Orgs
  /\ run.exit \subseteq {0, 1}

(* A table some sequence of appends can have built.                        *)
Genuine(t) ==
  /\ Sequences(t) = 1 .. Cardinality(t)
  /\ \A r \in t : r = NewRow(r.seq, TipHash({p \in t : p.seq < r.seq}), r.event)

(* verify_chain (audit/service.py:198) accepts exactly the tables that     *)
(* appends alone can have built: no edit and no deletion goes unseen that  *)
(* does not leave behind a log which could have been written that way.     *)
VerifierExact == \A o \in Orgs : VerifyOk(table[o], 0) <=> Genuine(table[o])

(* A run that exits 0 has checked every organisation, and every break it   *)
(* found is both in the log and on its way to the webhooks: no failure it  *)
(* swallows (verify_audit_chain.py:86, :102) is hidden behind a success.   *)
ZeroMeansTold ==
  run.exit = {0} => run.found \subseteq run.rows \cap run.hooks

(* A webhook audit.chain_broken is only sent for a break that is recorded  *)
(* in the log as well (the order of verify_audit_chain.py:70-103).         *)
AnnouncedIsRecorded == run.hooks \subseteq run.rows

=============================================================================
