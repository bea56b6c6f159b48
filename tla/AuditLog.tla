------------------------------ MODULE AuditLog ------------------------------
(***************************************************************************)
(* The hash-chained audit log of one organisation: audit/service.py over   *)
(* the Postgres table audit_events.  Chains of different organisations     *)
(* share nothing, as every query filters on organization_id.               *)
(*                                                                         *)
(* Any number of requests append concurrently, each in a transaction of    *)
(* its own: _append reads the committed tip, computes the next sequence    *)
(* number and hash, flushes the row and commits.  No lock is taken; the    *)
(* unique index on (organization_id, sequence) is all that orders them: an *)
(* insert waits while another open transaction holds the same key, and     *)
(* fails with an IntegrityError once a committed row has it.               *)
(*                                                                         *)
(* A SIEM polls the log with the since_sequence cursor of GET              *)
(* /audit/events, which is correct only if rows become visible in sequence *)
(* order.                                                                  *)
(***************************************************************************)
EXTENDS AuditRows

CONSTANTS Writers,        \* requests that append, one transaction each
          Events,         \* what they record: actor, type, outcome, payload
          MaxRows,        \* bound on the length of the log
          PageSize        \* the poller's ?limit=

ASSUME AuditLogAssumption ==
  /\ MaxRows \in Nat
  /\ PageSize \in Nat \ {0}

VARIABLES rows,           \* committed rows of audit_events
          tx,             \* tx[w]: the open transaction of writer w
          watermark,      \* the poller's cursor: the last sequence it has seen
          polled          \* the rows it has received

vars == <<rows, tx, watermark, polled>>

-----------------------------------------------------------------------------
NoTx == [pc |-> "idle"]

Init ==
  /\ rows = {}
  /\ tx = [w \in Writers |-> NoTx]
  /\ watermark = 0
  /\ polled = {}

(* Mutant: numbers rows from the tip itself, so the first row is number 0. *)
ReadTip_FromZero(w, e) ==
  /\ tx[w].pc = "idle"
  /\ Tip(rows) < MaxRows
  /\ tx' = [tx EXCEPT ![w] =
              [pc |-> "read", row |-> NewRow(Tip(rows), TipHash(rows), e)]]
  /\ UNCHANGED <<rows, watermark, polled>>

(* Mutant: the number comes from a database sequence or trigger, as the    *)
(* comment of models/audit.py says, instead of from the committed tip.     *)
ReadTip_DbSequence(w, e) ==
  LET drawn == rows \cup {tx[o].row : o \in {v \in Writers : tx[v].pc # "idle"}}
  IN  /\ tx[w].pc = "idle"
      /\ Tip(drawn) < MaxRows
      /\ tx' = [tx EXCEPT ![w] =
                  [pc |-> "read", row |-> NewRow(Tip(drawn) + 1, TipHash(rows), e)]]
      /\ UNCHANGED <<rows, watermark, polled>>

(* _next_sequence_and_prev_hash: read the committed tip, then compute the  *)
(* row to insert.                                                          *)
ReadTip(w, e) ==
  /\ tx[w].pc = "idle"
  /\ Tip(rows) < MaxRows
  /\ tx' = [tx EXCEPT ![w] =
              [pc |-> "read", row |-> NewRow(Tip(rows) + 1, TipHash(rows), e)]]
  /\ UNCHANGED <<rows, watermark, polled>>

(* Mutant: a transaction that has only read the tip already holds the key. *)
KeyLocked_ByReaders(w) ==
  \E o \in Writers \ {w} :
    tx[o].pc # "idle" /\ tx[o].row.seq = tx[w].row.seq

(* The key of w's row is held by the uncommitted insert of another         *)
(* transaction: the unique index makes w wait for it.                      *)
KeyLocked(w) ==
  \E o \in Writers \ {w} :
    tx[o].pc = "flushed" /\ tx[o].row.seq = tx[w].row.seq

(* Mutant: ix_audit_org_seq is not unique, as models/audit.py declares it. *)
KeyTaken_NotUnique(w) == FALSE

KeyTaken(w) == tx[w].row.seq \in Sequences(rows)

(* session.flush: the INSERT succeeds.                                     *)
Flush(w) ==
  /\ tx[w].pc = "read"
  /\ ~KeyLocked(w)
  /\ ~KeyTaken(w)
  /\ tx' = [tx EXCEPT ![w].pc = "flushed"]
  /\ UNCHANGED <<rows, watermark, polled>>

(* session.flush: the INSERT hits the unique index; the transaction of the *)
(* caller rolls back with everything in it.                                *)
Conflict(w) ==
  /\ tx[w].pc = "read"
  /\ ~KeyLocked(w)
  /\ KeyTaken(w)
  /\ tx' = [tx EXCEPT ![w] = NoTx]
  /\ UNCHANGED <<rows, watermark, polled>>

(* session.commit: the row becomes visible.                                *)
Commit(w) ==
  /\ tx[w].pc = "flushed"
  /\ rows' = rows \cup {tx[w].row}
  /\ tx' = [tx EXCEPT ![w] = NoTx]
  /\ UNCHANGED <<watermark, polled>>

(* The process or its connection is lost before the commit.                *)
Crash(w) ==
  /\ tx[w].pc # "idle"
  /\ tx' = [tx EXCEPT ![w] = NoTx]
  /\ UNCHANGED <<rows, watermark, polled>>

(* Mutant: the cursor comparison is off by one.                            *)
Page_SkipsNext ==
  {r \in rows : /\ r.seq > watermark + 1
                /\ Cardinality({p \in rows : p.seq > watermark /\ p.seq < r.seq})
                     < PageSize}

(* GET /audit/events?since_sequence=watermark&limit=PageSize, oldest first;*)
(* the poller keeps the sequence of the last event of the page.            *)
Page ==
  {r \in rows : /\ r.seq > watermark
                /\ Cardinality({p \in rows : p.seq > watermark /\ p.seq < r.seq})
                     < PageSize}

Poll ==
  \E last \in Page :
    /\ \A r \in Page : r.seq <= last.seq
    /\ watermark' = last.seq
    /\ polled' = polled \cup Page
    /\ UNCHANGED <<rows, tx>>

Next ==
  \/ \E w \in Writers : \/ \E e \in Events : ReadTip(w, e)
                        \/ Flush(w)
                        \/ Conflict(w)
                        \/ Commit(w)
                        \/ Crash(w)
  \/ Poll

Spec == Init /\ [][Next]_vars

(* A request that has begun to append goes on, and Postgres wakes those    *)
(* that wait on a key when its holder ends: strong fairness for Flush, as  *)
(* the key may be taken again before w is scheduled.  The SIEM keeps       *)
(* polling.                                                                *)
Fairness ==
  /\ \A w \in Writers : /\ SF_vars(Flush(w))
                        /\ WF_vars(Conflict(w))
                        /\ WF_vars(Commit(w))
  /\ WF_vars(Poll)

FairSpec == Spec /\ Fairness

-----------------------------------------------------------------------------
IsRow(r) ==
  /\ r = NewRow(r.seq, r.prev, r.event)
  /\ r.seq \in 1 .. MaxRows
  /\ r.event \in Events

IsTx(t) ==
  \/ t = NoTx
  \/ /\ t = [pc |-> t.pc, row |-> t.row]
     /\ t.pc \in {"read", "flushed"}
     /\ IsRow(t.row)

(* The types of the variables; a stored hash is always the hash of its own *)
(* row (audit_events, models/audit.py).                                    *)
TypeOK ==
  /\ \A r \in rows : IsRow(r)
  /\ DOMAIN tx = Writers
  /\ \A w \in Writers : IsTx(tx[w])
  /\ watermark \in 0 .. MaxRows
  /\ polled \subseteq rows

(* However appends interleave, the committed rows are one chain: numbered  *)
(* from 1 without gap or fork, and verify_chain accepts it from every      *)
(* starting point.                                                         *)
ChainIntact ==
  /\ \A r, s \in rows : r.seq = s.seq => r = s
  /\ Sequences(rows) = 1 .. Tip(rows)
  /\ \A since \in 0 .. Tip(rows) : VerifyOk(rows, since)

(* A consumer of the since_sequence cursor never misses an event: no row   *)
(* with a sequence at or below its watermark becomes visible after the     *)
(* poller went past it.                                                    *)
CursorMissesNothing == polled = {r \in rows : r.seq <= watermark}

(* The log implements the append-only history: a step leaves the history   *)
(* as it is or adds one event at its end.                                  *)
Chain == INSTANCE AuditChain WITH
           chain <- [i \in 1 .. Tip(rows) |-> RowAt(rows, i).event]

ImplementsChain == Chain!Spec

(* An append that has begun ends, with its row committed or with an error: *)
(* waiting on the unique index never blocks writers for ever.              *)
EveryAppendEnds ==
  \A w \in Writers : tx[w].pc # "idle" ~> tx[w].pc = "idle"

(* Every committed event is eventually delivered to the poller, whatever   *)
(* its page size.                                                          *)
EveryEventPolled ==
  \A n \in 1 .. MaxRows : n \in Sequences(rows) ~> watermark >= n

=============================================================================
