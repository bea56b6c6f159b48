--------------------------- MODULE AuditLog_proofs ---------------------------
(***************************************************************************)
(* For any number of writers, any events and any bound: the audit log is   *)
(* one intact chain, a polling consumer misses nothing, and the log        *)
(* implements an append-only history.                                      *)
(*                                                                         *)
(* ChainIntact is not inductive.  What makes it so is what each open       *)
(* transaction knows (TxLinked): the row it is about to insert extends a   *)
(* committed row, and once the index has let it through (FlushedNext) it   *)
(* is the row right after the tip, held by no other transaction.           *)
(*                                                                         *)
(* The readers: what the feed has sent, what the console has listed and    *)
(* what the summary has counted agree with the log, whatever rows come in  *)
(* between.  Their invariant (ReadersInv) adds what links a batch or a     *)
(* page to the next: the feed's cursor is below the end of the log, the    *)
(* pages so far end at the cursor, and the hour holds every decision of    *)
(* the minute to be counted that had been recorded then.                   *)
(***************************************************************************)
EXTENDS AuditMC, FiniteSetTheorems, FunctionTheorems, SequenceTheorems, TLAPS

(* The hash that the row with number n must point back to.                 *)
LinkBefore(table, n) == IF n = 1 THEN Genesis ELSE RowAt(table, n - 1).hash

Numbered ==
  /\ IsFiniteSet(rows)
  /\ \A r, s \in rows : r.seq = s.seq => r = s
  /\ Tip(rows) \in 0 .. MaxRows
  /\ Sequences(rows) = 1 .. Tip(rows)

Linked == \A r \in rows : r.prev = LinkBefore(rows, r.seq)

TxLinked ==
  \A w \in Writers : tx[w].pc # "idle" =>
    /\ tx[w].row.seq <= Tip(rows) + 1
    /\ tx[w].row.prev = LinkBefore(rows, tx[w].row.seq)

FlushedNext ==
  \A w \in Writers : tx[w].pc = "flushed" =>
    /\ tx[w].row.seq = Tip(rows) + 1
    /\ \A o \in Writers \ {w} : tx[o].pc # "flushed"

Polled ==
  /\ watermark \in 0 .. Tip(rows)
  /\ CursorMissesNothing

IInv == TypeOK /\ Numbered /\ Linked /\ TxLinked /\ FlushedNext /\ Polled

-----------------------------------------------------------------------------
(* The tip of a non-empty table numbered a .. n is n.                      *)
LEMMA TipOfInterval ==
  ASSUME NEW table, NEW a \in Nat, NEW n \in Nat, a <= n,
         Sequences(table) = a .. n
  PROVE  Tip(table) = n
<1>1. table # {} /\ n \in Sequences(table) /\ \A m \in Sequences(table) : m <= n
  BY DEF Sequences
<1>2. \A k \in Sequences(table) : (\A m \in Sequences(table) : m <= k) => k = n
  BY <1>1
<1> QED BY <1>1, <1>2 DEF Tip

(* The row with a given number, in a numbered table.                       *)
LEMMA RowAtNumbered ==
  ASSUME NEW table, \A r, s \in table : r.seq = s.seq => r = s,
         NEW n \in Sequences(table)
  PROVE  /\ RowAt(table, n) \in table
         /\ RowAt(table, n).seq = n
         /\ \A r \in table : r.seq = n => RowAt(table, n) = r
BY DEF RowAt, Sequences

(* The hash a writer reads at the tip is the one its row must point to.    *)
LEMMA TipHashLinks ==
  ASSUME Numbered
  PROVE  TipHash(rows) = LinkBefore(rows, Tip(rows) + 1)
<1>1. CASE rows = {}
  BY <1>1 DEF TipHash, Tip, LinkBefore
<1>2. CASE rows # {}
  <2>1. Tip(rows) # 0
    BY <1>2 DEF Numbered, Sequences
  <2>2. Tip(rows) \in Nat /\ Tip(rows) + 1 # 1 /\ Tip(rows) + 1 - 1 = Tip(rows)
    BY <2>1 DEF Numbered
  <2> QED BY <1>2, <2>2 DEF TipHash, LinkBefore
<1> QED BY <1>1, <1>2

(* Adding the row that follows the tip.                                    *)
LEMMA CommitExtends ==
  ASSUME Numbered, NEW row, row.seq = Tip(rows) + 1, row.seq \in 1 .. MaxRows,
         rows' = rows \cup {row}
  PROVE  /\ Numbered'
         /\ Tip(rows') = Tip(rows) + 1
         /\ RowAt(rows', Tip(rows) + 1) = row
         /\ \A n \in 1 .. Tip(rows) : RowAt(rows', n) = RowAt(rows, n)
         /\ \A n \in 1 .. Tip(rows) + 1 : LinkBefore(rows', n) = LinkBefore(rows, n)
<1>1. Tip(rows) \in Nat /\ Sequences(rows) = 1 .. Tip(rows)
  BY DEF Numbered
<1>2. Sequences(rows') = 1 .. Tip(rows) + 1
  <2>1. Sequences(rows') = Sequences(rows) \cup {row.seq}
    BY DEF Sequences
  <2>2. \A n \in Nat : (1 .. n) \cup {n + 1} = 1 .. n + 1
    OBVIOUS
  <2> QED BY <1>1, <2>1, <2>2
<1>3. Tip(rows') = Tip(rows) + 1
  BY <1>1, <1>2, TipOfInterval
<1>4. \A r, s \in rows' : r.seq = s.seq => r = s
  <2>1. \A r \in rows : r.seq # row.seq
    BY <1>1 DEF Sequences
  <2> QED BY <2>1 DEF Numbered
<1>5. IsFiniteSet(rows')
  BY FS_AddElement DEF Numbered
<1>6. Numbered'
  BY <1>1, <1>2, <1>3, <1>4, <1>5 DEF Numbered
<1>7. RowAt(rows', Tip(rows) + 1) = row
  BY <1>1, <1>2, <1>4, RowAtNumbered
<1>8. ASSUME NEW n \in 1 .. Tip(rows)
      PROVE  RowAt(rows', n) = RowAt(rows, n)
  <2>1. RowAt(rows, n) \in rows /\ RowAt(rows, n).seq = n
    BY <1>1, RowAtNumbered DEF Numbered
  <2>2. RowAt(rows, n) \in rows' /\ n \in Sequences(rows')
    BY <1>1, <1>2, <2>1
  <2> QED BY <1>4, <2>1, <2>2, RowAtNumbered
<1>9. ASSUME NEW n \in 1 .. Tip(rows) + 1
      PROVE  LinkBefore(rows', n) = LinkBefore(rows, n)
  <2>1. n # 1 => n - 1 \in 1 .. Tip(rows)
    BY <1>1
  <2> QED BY <1>8, <2>1 DEF LinkBefore
<1> QED BY <1>3, <1>6, <1>7, <1>8, <1>9

(* A page is every row between the watermark and its last row.             *)
LEMMA PageIsPrefix ==
  ASSUME Numbered, TypeOK, NEW last \in Page, \A r \in Page : r.seq <= last.seq
  PROVE  Page = {r \in rows : r.seq > watermark /\ r.seq <= last.seq}
<1> DEFINE Upto(n) == {p \in rows : p.seq > watermark /\ p.seq < n}
<1>1. ASSUME NEW r \in rows, r.seq > watermark, r.seq <= last.seq
      PROVE  r \in Page
  <2>1. Upto(r.seq) \in SUBSET Upto(last.seq)
    BY <1>1 DEF TypeOK, IsRow, Page
  <2>2. IsFiniteSet(Upto(last.seq)) /\ IsFiniteSet(Upto(r.seq))
    BY FS_Subset DEF Numbered
  <2>3. Cardinality(Upto(r.seq)) <= Cardinality(Upto(last.seq))
    BY <2>1, <2>2, FS_Subset
  <2>4. Cardinality(Upto(r.seq)) \in Nat /\ Cardinality(Upto(last.seq)) \in Nat
    BY <2>2, FS_CardinalityType
  <2>5. Cardinality(Upto(last.seq)) < PageSize
    BY DEF Page
  <2>6. Cardinality(Upto(r.seq)) < PageSize
    BY <2>3, <2>4, <2>5, AuditLogAssumption
  <2> QED BY <1>1, <2>6 DEF Page
<1> QED BY <1>1 DEF Page

-----------------------------------------------------------------------------
(* The empty log satisfies the invariant.                                  *)
LEMMA InitInv == Init => IInv
<1> SUFFICES ASSUME Init PROVE IInv
  OBVIOUS
<1>1. IsFiniteSet(rows) /\ Sequences(rows) = {} /\ Tip(rows) = 0
  BY FS_EmptySet DEF Init, Sequences, Tip
<1>2. TypeOK
  BY AuditLogAssumption DEF Init, TypeOK, IsTx
<1> QED BY <1>1, <1>2, AuditLogAssumption
     DEF Init, IInv, Numbered, Linked, TxLinked, FlushedNext, Polled,
         CursorMissesNothing, NoTx

(* A writer computes its row from the tip it read.                         *)
LEMMA ReadTipInv ==
  ASSUME IInv, NEW w \in Writers, NEW e \in Events, ReadTip(w, e)
  PROVE  IInv'
<1> DEFINE row == NewRow(Tip(rows) + 1, TipHash(rows), e)
<1>1. tx'[w] = [pc |-> "read", row |-> row] /\ \A o \in Writers \ {w} : tx'[o] = tx[o]
  BY DEF ReadTip, IInv, TypeOK
<1>2. /\ row.seq = Tip(rows) + 1 /\ row.prev = TipHash(rows) /\ row.event = e
      /\ IsRow(row)
  <2>1. Tip(rows) + 1 \in 1 .. MaxRows
    BY AuditLogAssumption DEF ReadTip, IInv, Numbered
  <2> QED BY <2>1 DEF NewRow, IsRow
<1>3. tx'[w].row = row /\ tx'[w].pc = "read"
  BY <1>1
<1>4. IsTx(tx'[w])
  BY <1>1, <1>2, <1>3 DEF IsTx
<1>5. TypeOK'
  BY <1>1, <1>4 DEF ReadTip, IInv, TypeOK
<1>6. TxLinked'
  BY <1>1, <1>2, <1>3, TipHashLinks DEF ReadTip, IInv, TxLinked, Numbered
<1>7. FlushedNext'
  BY <1>1, <1>3 DEF ReadTip, IInv, FlushedNext
<1> QED BY <1>5, <1>6, <1>7
     DEF ReadTip, IInv, Numbered, Linked, Polled, CursorMissesNothing

(* A row is flushed only if no committed row has its number.               *)
LEMMA FlushInv ==
  ASSUME IInv, NEW w \in Writers, Flush(w)
  PROVE  IInv'
<1>1. /\ tx'[w] = [tx[w] EXCEPT !.pc = "flushed"]
      /\ \A o \in Writers \ {w} : tx'[o] = tx[o]
  BY DEF Flush, IInv, TypeOK
<1>2. tx[w] = [pc |-> "read", row |-> tx[w].row] /\ IsRow(tx[w].row)
  BY DEF Flush, IInv, TypeOK, IsTx, NoTx
<1>3. tx'[w] = [pc |-> "flushed", row |-> tx[w].row]
  BY <1>1, <1>2
<1>4. TypeOK'
  BY <1>1, <1>2, <1>3 DEF Flush, IInv, TypeOK, IsTx
<1>5. TxLinked'
  BY <1>1, <1>2, <1>3 DEF Flush, IInv, TxLinked
<1>6. FlushedNext'
  <2>1. tx[w].row.seq = Tip(rows) + 1
    BY <1>2 DEF Flush, KeyTaken, IInv, TxLinked, Numbered, IsRow
  <2>2. \A o \in Writers \ {w} : tx[o].pc # "flushed"
    BY <2>1 DEF Flush, KeyLocked, IInv, FlushedNext
  <2> QED BY <1>1, <1>3, <2>1, <2>2 DEF Flush, FlushedNext
<1> QED BY <1>4, <1>5, <1>6
     DEF Flush, IInv, Numbered, Linked, Polled, CursorMissesNothing

(* Conflict and Crash only forget a transaction.                           *)
LEMMA ForgetInv ==
  ASSUME IInv, NEW w \in Writers, tx' = [tx EXCEPT ![w] = NoTx],
         UNCHANGED <<rows, watermark, polled>>
  PROVE  IInv'
<1>1. tx'[w] = NoTx /\ \A o \in Writers \ {w} : tx'[o] = tx[o]
  BY DEF IInv, TypeOK
<1>2. TypeOK'
  BY <1>1 DEF IInv, TypeOK, IsTx
<1>3. TxLinked' /\ FlushedNext'
  BY <1>1 DEF IInv, TxLinked, FlushedNext, NoTx
<1> QED BY <1>2, <1>3 DEF IInv, Numbered, Linked, Polled, CursorMissesNothing

(* The flushed row extends the chain by one.                               *)
LEMMA CommitInv ==
  ASSUME IInv, NEW w \in Writers, Commit(w)
  PROVE  IInv'
<1> DEFINE row == tx[w].row
<1>1. tx'[w] = NoTx /\ \A o \in Writers \ {w} : tx'[o] = tx[o]
  BY DEF Commit, IInv, TypeOK
<1>2. /\ row.seq = Tip(rows) + 1 /\ row.seq \in 1 .. MaxRows /\ IsRow(row)
      /\ row.prev = LinkBefore(rows, row.seq)
      /\ \A o \in Writers \ {w} : tx[o].pc # "flushed"
  BY DEF Commit, IInv, TypeOK, IsTx, IsRow, FlushedNext, TxLinked, NoTx
<1>3. Tip(rows) \in Nat /\ Sequences(rows) = 1 .. Tip(rows)
  BY DEF IInv, Numbered
<1>4. rows' = rows \cup {row} /\ watermark' = watermark /\ polled' = polled
  BY DEF Commit
<1>5. /\ Numbered'
      /\ Tip(rows') = Tip(rows) + 1
      /\ \A n \in 1 .. Tip(rows) + 1 : LinkBefore(rows', n) = LinkBefore(rows, n)
  BY <1>2, <1>4, CommitExtends DEF IInv
<1>6. TypeOK'
  <2>1. DOMAIN tx' = Writers /\ \A o \in Writers : IsTx(tx'[o])
    BY <1>1 DEF Commit, IInv, TypeOK, IsTx
  <2>2. \A r \in rows' : IsRow(r)
    BY <1>2, <1>4 DEF IInv, TypeOK
  <2> QED BY <1>4, <2>1, <2>2 DEF IInv, TypeOK
<1>7. Linked'
  <2>1. ASSUME NEW r \in rows PROVE r.prev = LinkBefore(rows', r.seq)
    <3>1. r.seq \in 1 .. Tip(rows) + 1
      BY <1>3 DEF Sequences
    <3> QED BY <1>5, <3>1 DEF IInv, Linked
  <2>2. row.prev = LinkBefore(rows', row.seq)
    BY <1>2, <1>3, <1>5
  <2> QED BY <1>4, <2>1, <2>2 DEF Linked
<1>8. TxLinked'
  <2> SUFFICES ASSUME NEW o \in Writers, tx'[o].pc # "idle"
               PROVE  /\ tx'[o].row.seq <= Tip(rows') + 1
                      /\ tx'[o].row.prev = LinkBefore(rows', tx'[o].row.seq)
    BY DEF TxLinked
  <2>1. o # w /\ tx'[o] = tx[o]
    BY <1>1 DEF NoTx
  <2>2. tx[o].row.seq \in 1 .. Tip(rows) + 1
    BY <2>1, <1>3 DEF IInv, TypeOK, IsTx, IsRow, TxLinked, NoTx
  <2> QED BY <1>3, <1>5, <2>1, <2>2 DEF IInv, TxLinked
<1>9. FlushedNext'
  BY <1>1, <1>2 DEF FlushedNext, NoTx
<1>10. Polled'
  BY <1>2, <1>3, <1>4, <1>5 DEF IInv, Polled, CursorMissesNothing
<1> QED BY <1>5, <1>6, <1>7, <1>8, <1>9, <1>10 DEF IInv

(* The poller moves its cursor to the end of a page.                       *)
LEMMA PollInv ==
  ASSUME IInv, Poll
  PROVE  IInv'
<1>1. PICK last \in Page : /\ \A r \in Page : r.seq <= last.seq
                           /\ watermark' = last.seq
                           /\ polled' = polled \cup Page
  BY DEF Poll
<1>2. UNCHANGED <<rows, tx>>
  BY DEF Poll
<1>3. Page = {r \in rows : r.seq > watermark /\ r.seq <= last.seq}
  BY <1>1, PageIsPrefix DEF IInv
<1>4. last \in rows /\ last.seq \in 1 .. Tip(rows) /\ last.seq > watermark
  BY <1>3 DEF IInv, Numbered, Sequences
<1>5. \A r \in rows : r.seq \in Nat
  BY DEF IInv, TypeOK, IsRow
<1>6. CursorMissesNothing'
  BY <1>1, <1>2, <1>3, <1>4, <1>5 DEF IInv, Polled, CursorMissesNothing, TypeOK
<1>7. Polled'
  BY <1>1, <1>2, <1>4, <1>6 DEF Polled, IInv, Numbered
<1>8. TypeOK'
  <2>1. polled' \subseteq rows'
    BY <1>1, <1>2, <1>3 DEF IInv, TypeOK
  <2>2. watermark' \in 0 .. MaxRows
    BY <1>1, <1>4, AuditLogAssumption DEF IInv, Numbered
  <2> QED BY <1>2, <2>1, <2>2 DEF IInv, TypeOK
<1> QED BY <1>2, <1>7, <1>8
     DEF IInv, Numbered, Linked, TxLinked, FlushedNext

(* Every step keeps the invariant.                                         *)
LEMMA StepInv == IInv /\ [Next]_vars => IInv'
<1> SUFFICES ASSUME IInv, [Next]_vars PROVE IInv'
  OBVIOUS
<1>1. ASSUME NEW w \in Writers, NEW e \in Events, ReadTip(w, e) PROVE IInv'
  BY <1>1, ReadTipInv
<1>2. ASSUME NEW w \in Writers, Flush(w) PROVE IInv'
  BY <1>2, FlushInv
<1>3. ASSUME NEW w \in Writers, Conflict(w) \/ Crash(w) PROVE IInv'
  BY <1>3, ForgetInv DEF Conflict, Crash
<1>4. ASSUME NEW w \in Writers, Commit(w) PROVE IInv'
  BY <1>4, CommitInv
<1>5. CASE Poll
  BY <1>5, PollInv
<1>6. CASE UNCHANGED vars
  BY <1>6 DEF vars, IInv, TypeOK, Numbered, Linked, TxLinked, FlushedNext,
              Polled, CursorMissesNothing
<1> QED BY <1>1, <1>2, <1>3, <1>4, <1>5, <1>6 DEF Next

(* The strengthened invariant holds in every behaviour.                    *)
THEOREM Invariance == Spec => []IInv
<1> QED BY InitInv, StepInv, PTL DEF Spec

(* The links make verify_chain accept the chain from every starting point: *)
(* the hash the walk carries into a row is the one the row points back to. *)
LEMMA VerifyAccepts ==
  ASSUME IInv, NEW since \in 0 .. Tip(rows)
  PROVE  VerifyOk(rows, since)
<1>1. /\ Tip(rows) \in Nat /\ Sequences(rows) = 1 .. Tip(rows)
      /\ since \in Nat /\ since <= Tip(rows)
  BY DEF IInv, Numbered
<1>2. ASSUME NEW r \in rows, r.seq > since
      PROVE  PrevHash(rows, since, r) = r.prev
  <2> DEFINE before == {p \in rows : p.seq > since /\ p.seq < r.seq}
             start == {p \in rows : p.seq = since}
  <2>1. r.seq \in 1 .. Tip(rows)
    BY <1>1 DEF Sequences
  <2>2. r.prev = LinkBefore(rows, r.seq)
    BY DEF IInv, Linked
  <2>3. CASE r.seq = since + 1
    <3>1. before = {}
      BY <1>1, <2>3 DEF Sequences, IInv, TypeOK, IsRow
    <3>2. since = 0 => LinkBefore(rows, r.seq) = Genesis
      BY <2>3 DEF LinkBefore
    <3>3. since # 0 => start # {} /\ LinkBefore(rows, r.seq) = RowAt(rows, since).hash
      BY <1>1, <2>3 DEF LinkBefore, Sequences
    <3> QED BY <2>2, <3>1, <3>2, <3>3 DEF PrevHash
  <2>4. CASE r.seq # since + 1
    <3>1. r.seq > since + 1 /\ r.seq - 1 \in Nat /\ r.seq - 1 \in Sequences(rows)
      BY <1>1, <1>2, <2>1, <2>4
    <3>2. Sequences(before) = since + 1 .. r.seq - 1
      <4>1. \A n : n \in Sequences(before) <=>
                     n \in Sequences(rows) /\ n > since /\ n < r.seq
        BY DEF Sequences
      <4>2. Sequences(before) \subseteq since + 1 .. r.seq - 1
        BY <1>1, <2>1, <4>1
      <4>3. since + 1 .. r.seq - 1 \subseteq Sequences(before)
        BY <1>1, <2>1, <4>1
      <4> QED BY <4>2, <4>3
    <3>3. Tip(before) = r.seq - 1
      <4>1. since + 1 \in Nat /\ r.seq - 1 \in Nat /\ since + 1 <= r.seq - 1
        BY <1>1, <2>1, <3>1
      <4> HIDE DEF before
      <4> QED BY <3>2, <4>1, TipOfInterval
    <3>4. before # {}
      <4>1. r.seq - 1 \in Sequences(before)
        BY <1>1, <2>1, <3>1, <3>2
      <4> QED BY <4>1 DEF Sequences
    <3>5. RowAt(before, r.seq - 1) = RowAt(rows, r.seq - 1)
      <4>1. \A p, q \in before : p.seq = q.seq => p = q
        BY DEF IInv, Numbered
      <4>2. r.seq - 1 \in Sequences(before)
        BY <3>1, <3>2, <2>1
      <4>3. RowAt(before, r.seq - 1) \in rows /\ RowAt(before, r.seq - 1).seq = r.seq - 1
        BY <4>1, <4>2, RowAtNumbered
      <4> QED BY <3>1, <4>3, RowAtNumbered DEF IInv, Numbered
    <3> QED BY <2>1, <2>2, <3>1, <3>3, <3>4, <3>5 DEF PrevHash, TipHash, LinkBefore
  <2> QED BY <2>3, <2>4
<1>3. \A r \in rows : r.hash = Hash(r.prev, r.seq, r.event)
  BY DEF IInv, TypeOK, IsRow, NewRow
<1> QED BY <1>2, <1>3 DEF VerifyOk, Broken

(* The variables keep their types, and every stored hash is the hash of    *)
(* its own row, for any number of concurrent appends (audit/service.py,    *)
(* _append).                                                               *)
THEOREM TypeCorrect == Spec => []TypeOK
<1>1. IInv => TypeOK
  BY DEF IInv
<1> QED BY Invariance, <1>1, PTL

(* Without any lock, the unique index alone keeps the log one unforked,    *)
(* gapless chain that verify_chain accepts from every starting point.      *)
THEOREM ChainIsIntact == Spec => []ChainIntact
<1>1. IInv => ChainIntact
  BY VerifyAccepts DEF IInv, Numbered, ChainIntact
<1> QED BY Invariance, <1>1, PTL

(* A consumer of the since_sequence cursor (api/v1/audit.py) misses no     *)
(* event.                                                                  *)
THEOREM CursorIsComplete == Spec => []CursorMissesNothing
<1>1. IInv => CursorMissesNothing
  BY DEF IInv, Polled
<1> QED BY Invariance, <1>1, PTL

-----------------------------------------------------------------------------
(* Refinement: a commit is Record(e) of AuditChain, every other step       *)
(* stutters.                                                               *)
History == [i \in 1 .. Tip(rows) |-> RowAt(rows, i).event]

(* A commit adds one event at the end of the history.                      *)
LEMMA CommitRecords ==
  ASSUME IInv, NEW w \in Writers, Commit(w)
  PROVE  \E e \in Events : History' = Append(History, e)
<1> DEFINE row == tx[w].row
<1>1. row.seq = Tip(rows) + 1 /\ row.seq \in 1 .. MaxRows /\ row.event \in Events
  BY DEF Commit, IInv, TypeOK, IsTx, IsRow, FlushedNext, NoTx
<1>2. /\ Tip(rows') = Tip(rows) + 1
      /\ RowAt(rows', Tip(rows) + 1) = row
      /\ \A n \in 1 .. Tip(rows) : RowAt(rows', n) = RowAt(rows, n)
  BY <1>1, CommitExtends DEF IInv, Commit
<1>3. Tip(rows) \in Nat
  BY DEF IInv, Numbered
<1>4. History' = Append(History, row.event)
  <2>1. History' = [i \in 1 .. Tip(rows) + 1 |-> RowAt(rows', i).event]
    BY <1>2 DEF History
  <2>2. History \in Seq({History[i] : i \in 1 .. Tip(rows)}) /\ Len(History) = Tip(rows)
    BY <1>3 DEF History
  <2>3. \A i \in 1 .. Tip(rows) + 1 :
           RowAt(rows', i).event = IF i <= Tip(rows) THEN History[i] ELSE row.event
    BY <1>2, <1>3 DEF History
  <2>4. Append(History, row.event) =
          [i \in 1 .. Tip(rows) + 1 |-> IF i <= Tip(rows) THEN History[i] ELSE row.event]
    BY <1>3, <2>2
  <2> QED BY <2>1, <2>3, <2>4
<1> QED BY <1>1, <1>4

(* The concurrent, hash-chained log implements the append-only history of  *)
(* AuditChain (audit/service.py, module docstring).                        *)
THEOREM Refinement == Spec => ImplementsChain
<1>1. Init => History = <<>>
  BY DEF Init, History, Tip
<1>2. IInv /\ [Next]_vars => [\E e \in Events : History' = Append(History, e)]_History
  <2> SUFFICES ASSUME IInv, [Next]_vars
               PROVE  \/ \E e \in Events : History' = Append(History, e)
                      \/ History' = History
    OBVIOUS
  <2>1. ASSUME NEW w \in Writers, Commit(w)
        PROVE  \E e \in Events : History' = Append(History, e)
    BY <2>1, CommitRecords
  <2>2. CASE UNCHANGED rows
    BY <2>2 DEF History
  <2> QED BY <2>1, <2>2
       DEF Next, vars, ReadTip, Flush, Conflict, Crash, Poll
<1> QED BY <1>1, <1>2, Invariance, PTL
     DEF Spec, ImplementsChain, Chain!Spec, Chain!Init, Chain!Next, Chain!Record,
         History

-----------------------------------------------------------------------------
(* The operators of the readers, by their definitions.                     *)
LEMMA SameCardinality == \A S : R!Cardinality(S) = Cardinality(S)
BY DEF R!Cardinality, Cardinality

(* The rank of a number in a set is how many numbers there are up to it.   *)
LEMMA RankIs == \A S, x : R!Rank(S, x) = Cardinality({y \in S : y <= x})
BY SameCardinality DEF R!Rank

(* InOrder puts each number of a set at its rank.                          *)
LEMMA InOrderIs ==
  \A S : R!InOrder(S) =
           [i \in 1 .. Cardinality(S) |-> CHOOSE x \in S : R!Rank(S, x) = i]
BY SameCardinality DEF R!InOrder

(* The numbers of a finite set are ranked 1, 2, 3, ... without gaps.       *)
LEMMA Ranked ==
  ASSUME NEW S \in SUBSET Nat, IsFiniteSet(S)
  PROVE  /\ Cardinality(S) \in Nat
         /\ \A x \in S : R!Rank(S, x) \in 1 .. Cardinality(S)
         /\ \A x, y \in S : x < y => R!Rank(S, x) < R!Rank(S, y)
         /\ \A x, y \in S : R!Rank(S, x) = R!Rank(S, y) => x = y
         /\ \A i \in 1 .. Cardinality(S) : \E x \in S : R!Rank(S, x) = i
<1> DEFINE Upto(x) == {y \in S : y <= x}
<1>1. Cardinality(S) \in Nat
  BY FS_CardinalityType
<1>2. \A x : IsFiniteSet(Upto(x)) /\ Cardinality(Upto(x)) \in Nat /\ Cardinality(Upto(x)) <= Cardinality(S)
  BY FS_Subset, FS_CardinalityType
<1>3. ASSUME NEW x \in S, NEW y \in S, x < y
      PROVE  Cardinality(Upto(x)) < Cardinality(Upto(y))
  <2>1. Upto(x) \subseteq Upto(y) /\ Upto(x) # Upto(y)
    <3>1. y \in Upto(y) /\ y \notin Upto(x)
      BY <1>3
    <3>2. \A z \in Upto(x) : z \in Upto(y)
      BY <1>3
    <3> QED BY <3>1, <3>2
  <2>2. Cardinality(Upto(x)) <= Cardinality(Upto(y)) /\ Cardinality(Upto(x)) # Cardinality(Upto(y))
    BY <2>1, <1>2, FS_Subset
  <2> QED BY <2>2, <1>2
<1>4. ASSUME NEW x \in S PROVE Cardinality(Upto(x)) \in 1 .. Cardinality(S)
  <2>1. Upto(x) # {}
    OBVIOUS
  <2>2. Cardinality(Upto(x)) # 0
    BY <2>1, <1>2, FS_EmptySet
  <2> QED BY <2>2, <1>1, <1>2
<1>5. \A x, y \in S : Cardinality(Upto(x)) = Cardinality(Upto(y)) => x = y
  <2> SUFFICES ASSUME NEW x \in S, NEW y \in S, Cardinality(Upto(x)) = Cardinality(Upto(y)), x # y
               PROVE  FALSE
    OBVIOUS
  <2>1. x < y \/ y < x
    OBVIOUS
  <2> QED BY <2>1, <1>2, <1>3
<1>6. ASSUME NEW i \in 1 .. Cardinality(S) PROVE \E x \in S : Cardinality(Upto(x)) = i
  <2> DEFINE f == [x \in S |-> Cardinality(Upto(x))]
             T == 1 .. Cardinality(S)
  <2>1. f \in [S -> T]
    BY <1>4
  <2>2. f \in Injection(S, T)
    <3>1. \A a, b \in S : f[a] = f[b] => a = b
      BY <1>5
    <3> HIDE DEF f, T
    <3> QED BY <2>1, <3>1, Fun_IsInj
  <2>3. IsFiniteSet(T) /\ Cardinality(T) = Cardinality(S)
    <3>1. 1 \in Int /\ Cardinality(S) \in Int
      BY <1>1
    <3>2. IsFiniteSet(T) /\ Cardinality(T) = IF 1 > Cardinality(S) THEN 0 ELSE Cardinality(S) - 1 + 1
      BY <3>1, FS_Interval
    <3> QED BY <3>2, <1>1
  <2>4. f \in Surjection(S, T)
    <3> HIDE DEF f, T
    <3> QED BY <2>2, <2>3, FS_Injection
  <2>5. \A t \in T : \E s \in S : f[s] = t
    <3> HIDE DEF f, T
    <3> QED BY <2>4, Fun_SurjectionProperties
  <2> QED BY <2>5
<1> QED BY <1>1, <1>3, <1>4, <1>5, <1>6, RankIs

(* A finite set of numbers that is not empty has a least and a greatest.   *)
LEMMA Extremes ==
  ASSUME NEW S \in SUBSET Nat, IsFiniteSet(S), S # {}
  PROVE  /\ \E x \in S : \A y \in S : x <= y
         /\ \E x \in S : \A y \in S : y <= x
<1>1. Cardinality(S) \in Nat \ {0}
  BY FS_CardinalityType, FS_EmptySet
<1>2. PICK x \in S : R!Rank(S, x) = 1
  BY <1>1, Ranked
<1>3. PICK z \in S : R!Rank(S, z) = Cardinality(S)
  BY <1>1, Ranked
<1>4. \A y \in S : x <= y
  <2> SUFFICES ASSUME NEW y \in S, y < x PROVE FALSE
    OBVIOUS
  <2>1. R!Rank(S, y) < R!Rank(S, x) /\ R!Rank(S, y) \in 1 .. Cardinality(S)
    BY Ranked
  <2> QED BY <2>1, <1>1, <1>2
<1>5. \A y \in S : y <= z
  <2> SUFFICES ASSUME NEW y \in S, z < y PROVE FALSE
    OBVIOUS
  <2>1. R!Rank(S, z) < R!Rank(S, y) /\ R!Rank(S, y) \in 1 .. Cardinality(S)
    BY Ranked
  <2> QED BY <2>1, <1>1, <1>3
<1> QED BY <1>4, <1>5

(* InOrder lists a finite set of numbers by rank.                          *)
LEMMA Listed ==
  ASSUME NEW S \in SUBSET Nat, IsFiniteSet(S)
  PROVE  /\ R!InOrder(S) \in Seq(Nat) /\ Len(R!InOrder(S)) = Cardinality(S)
         /\ DOMAIN R!InOrder(S) = 1 .. Cardinality(S)
         /\ \A i \in 1 .. Cardinality(S) :
              R!InOrder(S)[i] \in S /\ R!Rank(S, R!InOrder(S)[i]) = i
         /\ \A x \in S : R!InOrder(S)[R!Rank(S, x)] = x
<1>2. R!InOrder(S) = [i \in 1 .. Cardinality(S) |-> CHOOSE x \in S : R!Rank(S, x) = i]
  BY InOrderIs
<1>3. \A i \in 1 .. Cardinality(S) : R!InOrder(S)[i] \in S /\ R!Rank(S, R!InOrder(S)[i]) = i
  BY <1>2, Ranked
<1>4. \A x \in S : R!InOrder(S)[R!Rank(S, x)] = x
  <2> SUFFICES ASSUME NEW x \in S PROVE R!InOrder(S)[R!Rank(S, x)] = x
    OBVIOUS
  <2>1. R!Rank(S, x) \in 1 .. Cardinality(S)
    BY Ranked
  <2>2. R!InOrder(S)[R!Rank(S, x)] \in S /\ R!Rank(S, R!InOrder(S)[R!Rank(S, x)]) = R!Rank(S, x)
    BY <1>3, <2>1
  <2>3. \A y \in S : R!Rank(S, y) = R!Rank(S, x) => y = x
    BY Ranked
  <2> QED BY <2>2, <2>3
<1>5. R!InOrder(S) \in [1 .. Cardinality(S) -> Nat]
  BY <1>2, <1>3
<1>6. R!InOrder(S) \in Seq(Nat) /\ Len(R!InOrder(S)) = Cardinality(S)
  BY <1>5, Ranked DEF Seq
<1> QED BY <1>2, <1>3, <1>4, <1>6

(* The n least of a set are below the others, and there are some.          *)
LEMMA LeastBelow ==
  ASSUME NEW S \in SUBSET Nat, IsFiniteSet(S), NEW n \in Nat \ {0}
  PROVE  /\ R!Least(S, n) \subseteq S /\ IsFiniteSet(R!Least(S, n))
         /\ \A x \in R!Least(S, n), y \in S : y <= x => y \in R!Least(S, n)
         /\ S # {} => R!Least(S, n) # {}
<1>1. R!Least(S, n) \subseteq S /\ IsFiniteSet(R!Least(S, n))
  BY FS_Subset DEF R!Least
<1>2. \A x \in R!Least(S, n), y \in S : y <= x => y \in R!Least(S, n)
  <2> SUFFICES ASSUME NEW x \in S, R!Rank(S, x) <= n, NEW y \in S, y <= x
               PROVE  R!Rank(S, y) <= n
    BY DEF R!Least
  <2>1. R!Rank(S, x) \in Nat /\ R!Rank(S, y) \in Nat
    BY Ranked
  <2>2. y = x \/ R!Rank(S, y) < R!Rank(S, x)
    BY Ranked
  <2> QED BY <2>1, <2>2
<1>3. S # {} => R!Least(S, n) # {}
  <2> SUFFICES ASSUME S # {} PROVE R!Least(S, n) # {}
    OBVIOUS
  <2>1. 1 \in 1 .. Cardinality(S)
    BY FS_CardinalityType, FS_EmptySet
  <2>2. PICK x \in S : R!Rank(S, x) = 1
    BY <2>1, Ranked
  <2> QED BY <2>2 DEF R!Least
<1> QED BY <1>1, <1>2, <1>3

(* What comes before is listed before.                                     *)
LEMMA ListedTogether ==
  ASSUME NEW A \in SUBSET Nat, NEW B \in SUBSET Nat, IsFiniteSet(A), IsFiniteSet(B),
         \A a \in A, b \in B : a < b
  PROVE  R!InOrder(A \cup B) = R!InOrder(A) \o R!InOrder(B)
<1> DEFINE C == A \cup B
           n == Cardinality(A)
           m == Cardinality(B)
<1>1. A \cap B = {}
  OBVIOUS
<1>2. IsFiniteSet(C) /\ C \in SUBSET Nat
  BY FS_Union DEF C
<1>3. n \in Nat /\ m \in Nat /\ Cardinality(C) = n + m
  <2>1. n \in Nat /\ m \in Nat
    BY FS_CardinalityType
  <2>2. Cardinality(C) = n + m - Cardinality(A \cap B)
    BY FS_Union
  <2>3. Cardinality(A \cap B) = 0
    BY <1>1, FS_EmptySet
  <2> HIDE DEF C, n, m
  <2> QED BY <2>1, <2>2, <2>3
<1>4. ASSUME NEW a \in A PROVE R!Rank(C, a) = R!Rank(A, a)
  <2>1. {y \in C : y <= a} = {y \in A : y <= a}
    <3>1. \A y \in B : ~(y <= a)
      OBVIOUS
    <3> QED BY <3>1
  <2> QED BY <2>1, RankIs
<1>5. ASSUME NEW b \in B PROVE R!Rank(C, b) = n + R!Rank(B, b)
  <2> DEFINE D == {y \in B : y <= b}
  <2>1. {y \in C : y <= b} = A \cup D
    <3>1. \A y \in A : y <= b
      OBVIOUS
    <3> QED BY <3>1
  <2>2. A \cap D = {} /\ IsFiniteSet(D)
    BY <1>1, FS_Subset
  <2>3. Cardinality(A \cup D) = n + Cardinality(D)
    <3>1. Cardinality(A \cup D) = n + Cardinality(D) - Cardinality(A \cap D)
      BY <2>2, FS_Union
    <3>2. Cardinality(D) \in Nat /\ Cardinality(A \cap D) = 0
      BY <2>2, FS_EmptySet, FS_CardinalityType
    <3> QED BY <3>1, <3>2, <1>3
  <2> QED BY <2>1, <2>3, RankIs
<1> HIDE DEF C, n, m
<1>6. /\ R!InOrder(A) \in Seq(Nat) /\ Len(R!InOrder(A)) = n
      /\ R!InOrder(B) \in Seq(Nat) /\ Len(R!InOrder(B)) = m
      /\ R!InOrder(C) \in Seq(Nat) /\ Len(R!InOrder(C)) = n + m
  BY Listed, <1>2, <1>3 DEF n, m
<1>7. ASSUME NEW i \in 1 .. n + m
      PROVE  R!InOrder(C)[i] = (R!InOrder(A) \o R!InOrder(B))[i]
  <2>1. CASE i <= n
    <3>1. i \in 1 .. n
      BY <1>3, <2>1
    <3>2. R!InOrder(A)[i] \in A /\ R!Rank(A, R!InOrder(A)[i]) = i
      BY <3>1, Listed DEF n
    <3>3. R!Rank(C, R!InOrder(A)[i]) = i /\ R!InOrder(A)[i] \in C
      BY <3>2, <1>4 DEF C
    <3>4. R!InOrder(C)[i] = R!InOrder(A)[i]
      BY <3>3, <1>2, Listed
    <3>5. (R!InOrder(A) \o R!InOrder(B))[i] = R!InOrder(A)[i]
      BY <1>6, <3>1, <1>3
    <3> QED BY <3>4, <3>5
  <2>2. CASE i > n
    <3>1. i - n \in 1 .. m
      BY <1>3, <2>2, i \in 1 .. n + m
    <3>2. R!InOrder(B)[i - n] \in B /\ R!Rank(B, R!InOrder(B)[i - n]) = i - n
      BY <3>1, Listed DEF m
    <3>3. R!Rank(C, R!InOrder(B)[i - n]) = n + (i - n) /\ R!InOrder(B)[i - n] \in C
      BY <3>2, <1>5 DEF C
    <3>4. R!InOrder(C)[i] = R!InOrder(B)[i - n]
      <4>1. n + (i - n) = i
        BY <1>3, i \in 1 .. n + m
      <4>2. R!InOrder(C)[R!Rank(C, R!InOrder(B)[i - n])] = R!InOrder(B)[i - n]
        BY <3>3, <1>2, Listed
      <4> QED BY <4>1, <4>2, <3>3
    <3>5. (R!InOrder(A) \o R!InOrder(B))[i] = R!InOrder(B)[i - n]
      <4> HIDE DEF n, m
      <4> DEFINE s == R!InOrder(A)
                 t == R!InOrder(B)
      <4>1. s \in Seq(Nat) /\ t \in Seq(Nat) /\ Len(s) = n /\ Len(t) = m
        BY <1>6
      <4>2. i > Len(s) /\ i \in 1 .. Len(s) + Len(t)
        BY <4>1, <2>2, i \in 1 .. n + m
      <4> HIDE DEF s, t
      <4>3. \A j \in 1 .. Len(s) + Len(t) :
              (s \o t)[j] = IF j <= Len(s) THEN s[j] ELSE t[j - Len(s)]
        BY <4>1, ConcatProperties, Zenon
      <4>4. ~(i <= Len(s))
        BY <4>1, <4>2, <1>3
      <4> QED BY <4>1, <4>2, <4>3, <4>4 DEF s, t
    <3> QED BY <3>4, <3>5
  <2>3. i <= n \/ i > n
    BY <1>3, i \in 1 .. n + m
  <2> QED BY <2>1, <2>2, <2>3, Zenon
<1>8. /\ R!InOrder(A) \o R!InOrder(B) \in Seq(Nat)
      /\ Len(R!InOrder(A) \o R!InOrder(B)) = n + m
  BY <1>6
<1>9. R!InOrder(C) = R!InOrder(A) \o R!InOrder(B)
  BY <1>6, <1>7, <1>8, SeqEqual
<1> QED BY <1>9 DEF C

(* An interval is listed upwards.                                          *)
LEMMA ListedInterval ==
  ASSUME NEW a \in Nat, NEW b \in Nat, a <= b
  PROVE  /\ Cardinality(a .. b) = b + 1 - a
         /\ R!InOrder(a .. b) = [i \in 1 .. b + 1 - a |-> a + i - 1]
<1> DEFINE S == a .. b
<1>1. \A x \in S : R!Rank(S, x) = x - a + 1
  <2> SUFFICES ASSUME NEW x \in S PROVE Cardinality({y \in S : y <= x}) = x - a + 1
    BY RankIs
  <2>1. {y \in S : y <= x} = a .. x
    OBVIOUS
  <2>2. a \in Int /\ x \in Int /\ a <= x
    OBVIOUS
  <2>3. Cardinality(a .. x) = IF a > x THEN 0 ELSE x - a + 1
    BY <2>2, FS_Interval
  <2>4. ~(a > x)
    BY <2>2
  <2>5. Cardinality(a .. x) = x - a + 1
    BY <2>3, <2>4
  <2> HIDE DEF S
  <2> QED BY <2>1, <2>5
<1>2. Cardinality(S) = b + 1 - a
  BY FS_Interval
<1>3. \A i \in 1 .. b + 1 - a : (CHOOSE x \in S : R!Rank(S, x) = i) = a + i - 1
  <2> SUFFICES ASSUME NEW i \in 1 .. b + 1 - a
               PROVE  (CHOOSE x \in S : R!Rank(S, x) = i) = a + i - 1
    OBVIOUS
  <2>1. a + i - 1 \in S /\ \A x \in S : x - a + 1 = i <=> x = a + i - 1
    OBVIOUS
  <2> QED BY <2>1, <1>1
<1> HIDE DEF S
<1>4. R!InOrder(S) = [i \in 1 .. b + 1 - a |-> a + i - 1]
  BY <1>2, <1>3, InOrderIs
<1> QED BY <1>2, <1>4 DEF S

-----------------------------------------------------------------------------
(* What holds of the readers between two steps.                            *)
LogInv ==
  /\ log \in Seq(Kinds)
  /\ hourFrom \in Nat /\ minuteFrom \in Nat
  /\ hourFrom <= minuteFrom /\ minuteFrom <= Len(log)

FeedInv ==
  /\ feed \in [on : BOOLEAN, seed : Nat, cursor : Nat, got : Seq(Nat)]
  /\ feed.seed <= feed.cursor /\ feed.cursor <= Len(log)
  /\ R!FeedIsExact

PagesInv ==
  /\ list \in [top : Nat, cursor : Nat, shown : Seq(Nat)]
  /\ IF list.shown = <<>> THEN list = R!NoList
     ELSE 0 < list.cursor /\ list.cursor <= list.top /\ list.top <= Len(log)
  /\ R!PagesAreOne

CountInv ==
  /\ count \in [pc : {"idle", "minute", "done"}, at : Nat, hour : SUBSET Nat,
                 minute : SUBSET Nat, from : Nat]
  /\ count.pc = "minute" =>
       /\ count.at <= Len(log)
       /\ \A n \in R!Decisions(count.from) : n <= count.at => n \in count.hour
  /\ R!MinuteExplained

ReadersInv == part = "readers" => LogInv /\ FeedInv /\ PagesInv /\ CountInv

(* The decisions after a row are numbers of rows, finitely many.           *)
LEMMA DecisionsFinite ==
  ASSUME LogInv, NEW from \in Nat
  PROVE  /\ R!Decisions(from) \in SUBSET Nat /\ IsFiniteSet(R!Decisions(from))
         /\ \A n : n \in R!Decisions(from) <=>
                    n \in Nat /\ from < n /\ n <= Len(log) /\ log[n] = "decision"
<1>1. Len(log) \in Nat
  BY DEF LogInv
<1>2. R!Decisions(from) \subseteq from + 1 .. Len(log)
  BY DEF R!Decisions
<1>3. IsFiniteSet(from + 1 .. Len(log))
  BY <1>1, FS_Interval
<1>4. IsFiniteSet(R!Decisions(from))
  BY <1>2, <1>3, FS_Subset
<1>5. \A n : n \in R!Decisions(from) <=>
             n \in Nat /\ from < n /\ n <= Len(log) /\ log[n] = "decision"
  BY <1>1 DEF R!Decisions
<1> QED BY <1>2, <1>4, <1>5

(* A row that is added leaves what is due as it is.                        *)
LEMMA RecordKeeps ==
  ASSUME LogInv, FeedInv, PagesInv, CountInv, R!ReadersAssumption,
         NEW k \in Kinds, R!Record(k)
  PROVE  LogInv' /\ FeedInv' /\ PagesInv' /\ CountInv'
<1> USE DEF R!Record
<1>1. Len(log) \in Nat /\ Len(log') = Len(log) + 1 /\ \A n \in 1 .. Len(log) : log'[n] = log[n]
  BY DEF LogInv
<1>2. LogInv'
  BY <1>1 DEF LogInv
<1>3. ASSUME NEW f \in Nat, NEW n \in Nat, n <= Len(log)
      PROVE  n \in R!Decisions(f)' <=> n \in R!Decisions(f)
  BY <1>1, <1>3 DEF R!Decisions
<1>4. FeedInv'
  <2>1. feed.seed \in Nat /\ feed.cursor \in Nat /\ feed.cursor <= Len(log)
    BY DEF FeedInv
  <2>2. {n \in R!Decisions(feed.seed) : n <= feed.cursor}'
          = {n \in R!Decisions(feed.seed) : n <= feed.cursor}
    <3>1. R!Decisions(feed.seed) \in SUBSET Nat
      BY <2>1, DecisionsFinite
    <3>2. R!Decisions(feed.seed)' \in SUBSET Nat
      BY <1>1, <2>1 DEF R!Decisions
    <3>3. \A n \in Nat : n <= feed.cursor =>
            (n \in R!Decisions(feed.seed)' <=> n \in R!Decisions(feed.seed))
      BY <1>1, <1>3, <2>1
    <3> QED BY <3>1, <3>2, <3>3
  <2>3. R!FeedIsExact'
    BY <2>2 DEF R!FeedIsExact, FeedInv
  <2> QED BY <1>1, <2>1, <2>3 DEF FeedInv
<1>5. PagesInv'
  BY <1>1 DEF PagesInv, R!PagesAreOne
<1>6. CountInv'
  <2>1. ASSUME count.pc = "minute", NEW n \in R!Decisions(count.from)', n <= count.at
        PROVE  n \in count.hour
    <3>1. count.from \in Nat /\ count.at \in Nat /\ count.at <= Len(log)
      BY <2>1 DEF CountInv
    <3>2. n \in Nat /\ n <= Len(log)
      BY <1>1, <2>1, <3>1 DEF R!Decisions
    <3>3. n \in R!Decisions(count.from)
      BY <1>3, <2>1, <3>1, <3>2
    <3> QED BY <2>1, <3>3 DEF CountInv
  <2> QED BY <1>1, <2>1 DEF CountInv, R!MinuteExplained
<1> QED BY <1>2, <1>4, <1>5, <1>6

(* A poll sends the decisions that come next, and all of them.             *)
LEMMA PollKeeps ==
  ASSUME LogInv, FeedInv, R!ReadersAssumption, R!Poll
  PROVE  FeedInv'
<1> DEFINE D == R!Decisions(feed.cursor)
           T == R!Least(D, BatchSize)
           b == R!InOrder(T)
           last == b[Len(b)]
           due == {n \in R!Decisions(feed.seed) : n <= feed.cursor}
<1>1. /\ feed.seed \in Nat /\ feed.cursor \in Nat /\ feed.got \in Seq(Nat)
      /\ feed.seed <= feed.cursor
  BY DEF FeedInv
<1>2. D \in SUBSET Nat /\ IsFiniteSet(D)
  BY <1>1, DecisionsFinite
<1>3. /\ T \in SUBSET Nat /\ IsFiniteSet(T)
      /\ T \subseteq D
      /\ \A x \in T, y \in D : y <= x => y \in T
  <2>1. BatchSize \in Nat \ {0}
    BY DEF R!ReadersAssumption
  <2> HIDE DEF D
  <2> QED BY <1>2, <2>1, LeastBelow
<1>4. /\ b # <<>>
      /\ feed' = [feed EXCEPT !.cursor = last, !.got = @ \o b]
      /\ log' = log
  BY DEF R!Poll, R!Batch
<1>5. last \in T /\ \A y \in T : y <= last
  <2> HIDE DEF T
  <2>1. b \in Seq(Nat) /\ Len(b) = Cardinality(T) /\ Cardinality(T) \in Nat
    BY <1>3, Listed, FS_CardinalityType
  <2>2. Len(b) # 0
    <3> HIDE DEF b
    <3> QED BY <1>4, <2>1
  <2>3. Len(b) \in 1 .. Cardinality(T)
    <3> HIDE DEF b
    <3> QED BY <2>1, <2>2
  <2>4. last \in T /\ R!Rank(T, last) = Cardinality(T)
    BY <1>3, <2>1, <2>3, Listed
  <2> HIDE DEF last
  <2>5. ASSUME NEW y \in T PROVE y <= last
    <3>1. last < y => R!Rank(T, last) < R!Rank(T, y)
      BY <1>3, <2>4, Ranked
    <3>2. R!Rank(T, y) <= Cardinality(T) /\ R!Rank(T, y) \in Nat
      BY <1>3, Ranked
    <3> QED BY <1>3, <2>1, <2>4, <3>1, <3>2
  <2> QED BY <2>4, <2>5
<1>6. last \in Nat /\ feed.cursor < last /\ last <= Len(log) /\ Len(log) \in Nat
  BY <1>1, <1>3, <1>5, DecisionsFinite DEF LogInv
<1>7. {n \in R!Decisions(feed.seed) : n <= last} = due \cup T
  <2>1. ASSUME NEW n \in R!Decisions(feed.seed), n <= last PROVE n \in due \cup T
    <3>1. n \in Nat /\ n <= Len(log) /\ log[n] = "decision"
      BY <1>1, DecisionsFinite
    <3>2. CASE n <= feed.cursor
      BY <3>2
    <3>3. CASE feed.cursor < n
      <4>1. n \in D
        BY <1>1, <3>1, <3>3, DecisionsFinite
      <4> QED BY <1>3, <1>5, <2>1, <4>1
    <3> QED BY <1>1, <3>1, <3>2, <3>3
  <2>2. ASSUME NEW n \in due PROVE n \in R!Decisions(feed.seed) /\ n <= last
    <3>1. n \in Nat
      BY <1>1, DecisionsFinite
    <3> QED BY <1>1, <1>6, <3>1
  <2>3. ASSUME NEW n \in T PROVE n \in R!Decisions(feed.seed) /\ n <= last
    <3>1. n \in D
      BY <1>3
    <3> QED BY <1>1, <1>5, <3>1, DecisionsFinite
  <2> HIDE DEF T, last
  <2> QED BY <2>1, <2>2, <2>3
<1>8. R!InOrder(due \cup T) = R!InOrder(due) \o b
  <2>1. due \in SUBSET Nat /\ IsFiniteSet(due)
    <3>1. R!Decisions(feed.seed) \in SUBSET Nat /\ IsFiniteSet(R!Decisions(feed.seed))
      BY <1>1, DecisionsFinite
    <3> QED BY <3>1, FS_Subset
  <2>2. \A x \in due, y \in T : x < y
    <3> SUFFICES ASSUME NEW x \in due, NEW y \in T PROVE x < y
      OBVIOUS
    <3>1. x \in Nat /\ x <= feed.cursor
      BY <2>1
    <3>2. y \in Nat /\ feed.cursor < y
      BY <1>1, <1>3, DecisionsFinite
    <3> QED BY <1>1, <3>1, <3>2
  <2> HIDE DEF due, T
  <2> QED BY <1>3, <2>1, <2>2, ListedTogether
<1>9. feed.got = R!InOrder(due) /\ b \in Seq(Nat)
  <2>1. b \in Seq(Nat)
    <3> HIDE DEF T
    <3> QED BY <1>3, Listed
  <2> QED BY <2>1 DEF FeedInv, R!FeedIsExact
<1>10. feed'.seed = feed.seed /\ feed'.cursor = last /\ feed'.got = feed.got \o b
       /\ feed' \in [on : BOOLEAN, seed : Nat, cursor : Nat, got : Seq(Nat)]
  <2>1. feed.got \o b \in Seq(Nat)
    <3> HIDE DEF b
    <3> QED BY <1>1, <1>9
  <2>2. feed \in [on : BOOLEAN, seed : Nat, cursor : Nat, got : Seq(Nat)]
    BY DEF FeedInv
  <2> DEFINE g == feed.got \o b
  <2>3. feed' = [feed EXCEPT !.cursor = last, !.got = g]
    BY <1>4
  <2> HIDE DEF g, last
  <2>4. feed'.seed = feed.seed /\ feed'.cursor = last /\ feed'.got = g
    BY <2>2, <2>3
  <2>5. feed' \in [on : BOOLEAN, seed : Nat, cursor : Nat, got : Seq(Nat)]
    BY <1>6, <2>1, <2>2, <2>3 DEF g
  <2> QED BY <2>4, <2>5 DEF g
<1>11. R!FeedIsExact'
  <2>1. R!Decisions(feed.seed)' = R!Decisions(feed.seed)
    BY <1>4, <1>10 DEF R!Decisions
  <2> HIDE DEF b, last, due, T
  <2> QED BY <1>7, <1>8, <1>9, <1>10, <2>1 DEF R!FeedIsExact
<1> HIDE DEF b, last
<1> QED BY <1>1, <1>4, <1>6, <1>10, <1>11 DEF FeedInv

(* The next page of the console is the interval below its cursor.          *)
LEMMA ListOlderKeeps ==
  ASSUME LogInv, PagesInv, R!ReadersAssumption, R!ListOlder
  PROVE  PagesInv'
<1> DEFINE below == {n \in 1 .. Len(log) : list.shown = <<>> \/ n < list.cursor}
           b == IF list.shown = <<>> THEN Len(log) ELSE list.cursor - 1
           a == IF b >= PageOfConsole THEN b - PageOfConsole + 1 ELSE 1
           s == R!InOrder(R!OlderPage)
           page == R!Reversed(s)
           l == b + 1 - a
           g == list.shown \o page
<1>1. /\ Len(log) \in Nat /\ list.cursor \in Nat /\ list.top \in Nat
      /\ PageOfConsole \in Nat \ {0} /\ list.shown \in Seq(Nat)
  BY DEF LogInv, PagesInv, R!ReadersAssumption
<1>2. b \in Nat /\ b <= Len(log) /\ below = 1 .. b
  BY <1>1 DEF PagesInv, R!NoList
<1>3. R!OlderPage = {n \in below : Cardinality({m \in below : m >= n}) <= PageOfConsole}
  BY SameCardinality DEF R!OlderPage
<1> HIDE DEF below
<1>4. \A n \in 1 .. b : Cardinality({m \in 1 .. b : m >= n}) = b + 1 - n
  <2> HIDE DEF b
  <2> SUFFICES ASSUME NEW n \in 1 .. b
               PROVE  Cardinality({m \in 1 .. b : m >= n}) = b + 1 - n
    OBVIOUS
  <2>1. {m \in 1 .. b : m >= n} = n .. b
    BY <1>2
  <2>2. n \in Nat /\ n <= b
    OBVIOUS
  <2>3. Cardinality(n .. b) = b + 1 - n
    BY <1>2, <2>2, ListedInterval
  <2> QED BY <2>1, <2>3
<1>5. a \in Nat \ {0} /\ (b > 0 => a <= b) /\ R!OlderPage = a .. b
  <2> HIDE DEF b
  <2>1. a \in Nat \ {0} /\ (b > 0 => a <= b)
    BY <1>1, <1>2
  <2>2. \A n \in 1 .. b : b + 1 - n <= PageOfConsole <=> a <= n
    BY <1>1, <1>2
  <2> HIDE DEF a
  <2>3. R!OlderPage = {n \in 1 .. b : b + 1 - n <= PageOfConsole}
    BY <1>2, <1>3, <1>4
  <2> QED BY <1>2, <2>1, <2>2, <2>3
<1> HIDE DEF a, b
<1>6. b > 0 /\ a <= b
  <2>1. a .. b # {}
    BY <1>5 DEF R!ListOlder
  <2> QED BY <1>2, <1>5, <2>1
<1>7. l \in Nat \ {0} /\ s = [i \in 1 .. l |-> a + i - 1]
  BY <1>2, <1>5, <1>6, ListedInterval
<1> HIDE DEF l
<1>8. s \in Seq(Nat) /\ Len(s) = l
  <2>1. s \in [1 .. l -> Nat]
    BY <1>5, <1>7
  <2> HIDE DEF s
  <2> QED BY <1>7, <2>1
<1>9. page = [i \in 1 .. l |-> b + 1 - i] /\ page \in Seq(Nat) /\ Len(page) = l
  <2>1. page = [i \in 1 .. l |-> s[l + 1 - i]]
    <3> HIDE DEF s
    <3> QED BY <1>8 DEF R!Reversed
  <2>2. \A i \in 1 .. l : s[l + 1 - i] = b + 1 - i /\ b + 1 - i \in Nat
    <3> SUFFICES ASSUME NEW i \in 1 .. l
                 PROVE  s[l + 1 - i] = b + 1 - i /\ b + 1 - i \in Nat
      OBVIOUS
    <3>1. l + 1 - i \in 1 .. l
      BY <1>7
    <3>2. s[l + 1 - i] = a + (l + 1 - i) - 1
      BY <1>7, <3>1
    <3> HIDE DEF s
    <3> QED BY <1>2, <1>5, <1>6, <3>2 DEF l
  <2> HIDE DEF s
  <2>3. page = [i \in 1 .. l |-> b + 1 - i]
    <3> HIDE DEF page
    <3> QED BY <2>1, <2>2
  <2>4. page \in [1 .. l -> Nat]
    <3> HIDE DEF page
    <3> QED BY <2>2, <2>3
  <2> HIDE DEF page
  <2> QED BY <1>7, <2>3, <2>4
<1>10. page[1] = b /\ page[Len(page)] = a
  <2> HIDE DEF page
  <2>1. page[1] = b /\ page[l] = b + 1 - l
    BY <1>2, <1>7, <1>9
  <2>2. b + 1 - l = a
    BY <1>2, <1>5 DEF l
  <2> QED BY <1>9, <2>1, <2>2
<1>11. /\ list' = [top |-> IF list.shown = <<>> THEN b ELSE list.top, cursor |-> a, shown |-> g]
       /\ log' = log
  <2> HIDE DEF page
  <2>1. /\ list' = [top |-> IF list.shown = <<>> THEN page[1] ELSE list.top,
                    cursor |-> page[Len(page)], shown |-> list.shown \o page]
        /\ log' = log
    BY DEF R!ListOlder, page, s
  <2> QED BY <1>10, <2>1
<1> HIDE DEF page
<1>12. g \in Seq(Nat) /\ Len(g) = Len(list.shown) + l /\ g # <<>>
  <2>1. g \in Seq(Nat) /\ Len(g) = Len(list.shown) + Len(page)
    BY <1>1, <1>9, ConcatProperties, Zenon
  <2>2. Len(list.shown) \in Nat
    BY <1>1
  <2> HIDE DEF g
  <2>3. Len(g) # 0
    BY <1>7, <1>9, <2>1, <2>2
  <2> QED BY <1>9, <2>1, <2>3
<1>13. g = [i \in 1 .. list'.top + 1 - list'.cursor |-> list'.top + 1 - i]
  <2>1. CASE list.shown = <<>>
    <3>1. g = page
      BY <1>9, <2>1
    <3>2. list'.top = b /\ list'.cursor = a
      BY <1>11, <2>1
    <3> QED BY <1>9, <3>1, <3>2 DEF l
  <2>2. CASE list.shown # <<>>
    <3> DEFINE k == list.top + 1 - list.cursor
    <3>1. /\ b = list.cursor - 1 /\ list.cursor <= list.top /\ 0 < list.cursor
          /\ list.shown = [i \in 1 .. k |-> list.top + 1 - i]
          /\ list'.top = list.top /\ list'.cursor = a
      BY <1>11, <2>2 DEF b, PagesInv, R!PagesAreOne
    <3>2. k \in Nat \ {0} /\ Len(list.shown) = k
      <4>1. k \in Nat \ {0}
        BY <1>1, <3>1
      <4> HIDE DEF k
      <4> QED BY <1>1, <3>1, <4>1
    <3>3. list.top + 1 - a = k + l /\ b = list.top - k
      <4> DEFINE t == list.top
                 c == list.cursor
      <4>1. t \in Nat /\ c \in Nat /\ a \in Nat /\ b \in Nat
        BY <1>1, <1>2, <1>5
      <4>2. b = c - 1 /\ l = b + 1 - a /\ k = t + 1 - c
        BY <3>1 DEF l
      <4> HIDE DEF t, c, k
      <4>3. t + 1 - a = k + l /\ b = t - k
        BY <4>1, <4>2
      <4> QED BY <4>3 DEF t
    <3>4. \A i \in 1 .. k + l : g[i] = list.top + 1 - i
      <4> SUFFICES ASSUME NEW i \in 1 .. k + l PROVE g[i] = list.top + 1 - i
        OBVIOUS
      <4> HIDE DEF k
      <4>1. CASE i <= k
        <5>1. i \in 1 .. k
          BY <3>2, <4>1
        <5>2. g[i] = list.shown[i]
          BY <1>1, <1>9, <3>2, <5>1
        <5> QED BY <3>1, <5>1, <5>2
      <4>2. CASE i > k
        <5>1. i - k \in 1 .. l
          BY <1>7, <3>2, <4>2
        <5>2. g[i] = page[i - k]
          <6>1. \A j \in 1 .. Len(list.shown) + Len(page) :
                  g[j] = IF j <= Len(list.shown) THEN list.shown[j]
                         ELSE page[j - Len(list.shown)]
            BY <1>1, <1>9, ConcatProperties, Zenon
          <6>2. i \in 1 .. Len(list.shown) + Len(page) /\ ~(i <= Len(list.shown))
            <7>1. Len(list.shown) = k /\ Len(page) = l /\ k \in Nat /\ l \in Nat
              BY <1>7, <1>9, <3>2
            <7> QED BY <4>2, <7>1
          <6> HIDE DEF g
          <6> QED BY <3>2, <6>1, <6>2
        <5>3. page[i - k] = b + 1 - (i - k)
          BY <1>9, <5>1
        <5> QED BY <1>1, <3>2, <3>3, <5>1, <5>2, <5>3
      <4>3. i <= k \/ i > k
        BY <3>2
      <4> QED BY <4>1, <4>2, <4>3
    <3>5. g \in [1 .. k + l -> Nat]
      <4> HIDE DEF g, k
      <4>1. Len(g) = k + l
        BY <1>12, <3>2
      <4> QED BY <1>12, <4>1
    <3> HIDE DEF g, k
    <3> QED BY <3>1, <3>3, <3>4, <3>5
  <2> QED BY <2>1, <2>2
<1> HIDE DEF g
<1>14. /\ list' \in [top : Nat, cursor : Nat, shown : Seq(Nat)]
       /\ list'.shown = g /\ list'.cursor = a
       /\ a <= list'.top /\ list'.top <= Len(log)
  <2>1. CASE list.shown = <<>>
    BY <1>2, <1>5, <1>6, <1>11, <1>12, <2>1
  <2>2. CASE list.shown # <<>>
    <3>1. list.cursor <= list.top /\ list.top <= Len(log) /\ b = list.cursor - 1
      BY <2>2 DEF PagesInv, b
    <3> QED BY <1>1, <1>2, <1>5, <1>6, <1>11, <1>12, <2>2, <3>1
  <2> QED BY <2>1, <2>2
<1>15. R!PagesAreOne'
  BY <1>13, <1>14 DEF R!PagesAreOne
<1> QED BY <1>5, <1>11, <1>12, <1>14, <1>15 DEF PagesInv

(* The hour that is counted first has what the minute will have, but for   *)
(* what comes in between.                                                  *)
LEMMA CountsKeep ==
  ASSUME LogInv, CountInv, R!CountHour \/ R!CountMinute \/ R!CountAnew
  PROVE  CountInv'
<1>1. Len(log) \in Nat /\ hourFrom \in Nat /\ minuteFrom \in Nat /\ hourFrom <= minuteFrom
  BY DEF LogInv
<1>2. CASE R!CountHour
  <2>1. R!Decisions(hourFrom) \in SUBSET Nat
    BY <1>1, DecisionsFinite
  <2>2. R!Decisions(minuteFrom)' = R!Decisions(minuteFrom)
    BY <1>2 DEF R!CountHour, R!Decisions
  <2>3. \A n \in R!Decisions(minuteFrom) : n \in R!Decisions(hourFrom)
    BY <1>1, DecisionsFinite
  <2>4. /\ count' = [pc |-> "minute", at |-> Len(log), from |-> minuteFrom,
                     hour |-> R!Decisions(hourFrom), minute |-> {}]
        /\ log' = log /\ minuteFrom' = minuteFrom
    BY <1>2 DEF R!CountHour
  <2>5. R!Decisions(count.from)' = R!Decisions(minuteFrom)
    BY <2>4 DEF R!Decisions
  <2>6. \A n \in R!Decisions(count.from)' : n \in count'.hour
    BY <2>3, <2>4, <2>5
  <2>7. /\ count'.pc = "minute" /\ count'.at = Len(log')
        /\ count' \in [pc : {"idle", "minute", "done"}, at : Nat, hour : SUBSET Nat,
                       minute : SUBSET Nat, from : Nat]
    BY <1>1, <2>1, <2>4
  <2>8. Len(log') \in Nat
    BY <1>1, <2>4
  <2> QED BY <2>6, <2>7, <2>8 DEF CountInv, R!MinuteExplained
<1>3. CASE R!CountMinute
  <2>1. count.from \in Nat /\ count.at \in Nat /\ count.hour \in SUBSET Nat
    BY DEF CountInv
  <2>2. R!Decisions(count.from) \in SUBSET Nat
    BY <2>1, DecisionsFinite
  <2>3. \A n \in R!Decisions(count.from) \ count.hour : n > count.at
    <3> SUFFICES ASSUME NEW n \in R!Decisions(count.from), n \notin count.hour
                 PROVE  n > count.at
      OBVIOUS
    <3>1. ~(n <= count.at)
      BY <1>3 DEF R!CountMinute, CountInv
    <3> QED BY <2>1, <2>2, <3>1
  <2>4. count' = [count EXCEPT !.pc = "done", !.minute = R!Decisions(count.from)]
    BY <1>3 DEF R!CountMinute
  <2> QED BY <2>1, <2>2, <2>3, <2>4 DEF CountInv, R!MinuteExplained
<1>4. CASE R!CountAnew
  BY <1>4 DEF R!CountAnew, R!NoCount, CountInv, R!MinuteExplained
<1> QED BY <1>2, <1>3, <1>4

(* What is not touched stays.                                              *)
LEMMA ReadersUnchanged ==
  /\ LogInv /\ FeedInv /\ UNCHANGED <<log, feed>> => FeedInv'
  /\ LogInv /\ PagesInv /\ UNCHANGED <<log, list>> => PagesInv'
  /\ LogInv /\ CountInv /\ UNCHANGED <<log, count>> => CountInv'
  /\ LogInv /\ UNCHANGED <<log, hourFrom, minuteFrom>> => LogInv'
<1>1. FeedInv /\ UNCHANGED <<log, feed>> => FeedInv'
  BY DEF FeedInv, R!FeedIsExact, R!Decisions
<1>2. PagesInv /\ UNCHANGED <<log, list>> => PagesInv'
  BY DEF PagesInv, R!PagesAreOne
<1>3. CountInv /\ UNCHANGED <<log, count>> => CountInv'
  BY DEF CountInv, R!MinuteExplained, R!Decisions
<1> QED BY <1>1, <1>2, <1>3 DEF LogInv

(* The readers' invariant is kept by every step.                           *)
LEMMA ReadersStep == ReadersInv /\ [MCNext]_mcVars => ReadersInv'
<1> SUFFICES ASSUME ReadersInv, [MCNext]_mcVars, part' = "readers"
             PROVE  LogInv' /\ FeedInv' /\ PagesInv' /\ CountInv'
  BY DEF ReadersInv
<1> USE ReadersUnchanged, AuditMCAssumption
<1>1. part = "readers" /\ LogInv /\ FeedInv /\ PagesInv /\ CountInv
  BY DEF ReadersInv, MCNext, mcVars
<1>2. CASE UNCHANGED mcVars
  BY <1>1, <1>2 DEF mcVars, readersVars
<1>3. ASSUME NEW k \in Kinds, R!Record(k) PROVE LogInv' /\ FeedInv' /\ PagesInv' /\ CountInv'
  BY <1>1, <1>3, RecordKeeps
<1>4. CASE R!Ages
  <2>1. LogInv'
    BY <1>1, <1>4 DEF R!Ages, LogInv
  <2> QED BY <1>1, <1>4, <2>1 DEF R!Ages
<1>5. CASE R!Connect \/ R!Drop
  <2>1. Len(log) \in Nat
    BY <1>1 DEF LogInv
  <2>2. FeedInv'
    <3>1. R!InOrder({}) = <<>>
      <4>1. R!InOrder({}) \in Seq(Nat) /\ Len(R!InOrder({})) = 0
        BY Listed, FS_EmptySet
      <4> QED BY <4>1
    <3>2. feed'.seed \in Nat /\ feed'.cursor = feed'.seed /\ feed'.got = <<>>
          /\ feed'.seed <= Len(log) /\ feed' \in [on : BOOLEAN, seed : Nat, cursor : Nat, got : Seq(Nat)]
          /\ log' = log
      <4>1. CASE R!Connect
        <5>1. feed' = [on |-> TRUE, seed |-> Len(log), cursor |-> Len(log), got |-> <<>>]
              /\ log' = log
          BY <4>1 DEF R!Connect
        <5> QED BY <2>1, <5>1
      <4>2. CASE R!Drop
        <5>1. feed' = [on |-> FALSE, seed |-> 0, cursor |-> 0, got |-> <<>>] /\ log' = log
          BY <4>2 DEF R!Drop, R!NoFeed
        <5> QED BY <2>1, <5>1
      <4> QED BY <1>5, <4>1, <4>2
    <3>3. {n \in R!Decisions(feed'.seed) : n <= feed'.cursor} = {}
      <4>1. \A n \in R!Decisions(feed'.seed) : ~(n <= feed'.seed)
        BY <2>1, <3>2 DEF R!Decisions
      <4> QED BY <3>2, <4>1
    <3>4. {n \in R!Decisions(feed.seed) : n <= feed.cursor}' = {}
      BY <3>2, <3>3 DEF R!Decisions
    <3>5. R!FeedIsExact'
      BY <3>1, <3>2, <3>4 DEF R!FeedIsExact
    <3> QED BY <2>1, <3>2, <3>5 DEF FeedInv
  <2> QED BY <1>1, <1>5, <2>2 DEF R!Connect, R!Drop
<1>6. CASE R!Poll
  <2>1. FeedInv'
    BY <1>1, <1>6, PollKeeps
  <2> QED BY <1>1, <1>6, <2>1 DEF R!Poll
<1>7. CASE R!ListOlder
  <2>1. PagesInv'
    BY <1>1, <1>7, ListOlderKeeps
  <2> QED BY <1>1, <1>7, <2>1 DEF R!ListOlder
<1>8. CASE R!ListAnew
  <2>1. PagesInv'
    BY <1>8 DEF R!ListAnew, R!NoList, PagesInv, R!PagesAreOne
  <2> QED BY <1>1, <1>8, <2>1 DEF R!ListAnew
<1>9. CASE R!CountHour \/ R!CountMinute \/ R!CountAnew
  <2>1. CountInv'
    BY <1>1, <1>9, CountsKeep
  <2> QED BY <1>1, <1>9, <2>1 DEF R!CountHour, R!CountMinute, R!CountAnew
<1>10. R!Next \/ UNCHANGED mcVars
  BY <1>1 DEF MCNext
<1> QED BY <1>2, <1>3, <1>4, <1>5, <1>6, <1>7, <1>8, <1>9, <1>10 DEF R!Next

(* The feed, the pages and the summary show the log as it is, whatever     *)
(* rows come in between (activity_stream.py:37-149, audit.py:66-72).       *)
THEOREM ReadersSee == MCSpec => []ReadersSeeTheLog
<1>1. MCInit => ReadersInv
  <2> SUFFICES ASSUME R!Init PROVE LogInv /\ FeedInv /\ PagesInv /\ CountInv
    BY DEF MCInit, ReadersInv
  <2>1. LogInv /\ PagesInv /\ CountInv
    BY DEF R!Init, LogInv, PagesInv, CountInv, R!NoList, R!NoCount, R!PagesAreOne, R!MinuteExplained
  <2>2. log = <<>> /\ feed = R!NoFeed
    BY DEF R!Init
  <2>3. {n \in R!Decisions(feed.seed) : n <= feed.cursor} = {}
    BY <2>2 DEF R!Decisions, R!NoFeed
  <2>4. R!InOrder({}) = <<>>
    <3>1. R!InOrder({}) \in Seq(Nat) /\ Len(R!InOrder({})) = 0
      BY Listed, FS_EmptySet
    <3> QED BY <3>1
  <2>5. FeedInv
    <3>1. feed.got = <<>> /\ feed.seed = 0 /\ feed.cursor = 0 /\ Len(log) = 0
          /\ feed \in [on : BOOLEAN, seed : Nat, cursor : Nat, got : Seq(Nat)]
      BY <2>2 DEF R!NoFeed
    <3>2. R!FeedIsExact
      BY <2>3, <2>4, <3>1 DEF R!FeedIsExact
    <3> QED BY <3>1, <3>2 DEF FeedInv
  <2> QED BY <2>1, <2>5
<1>2. ReadersInv /\ [MCNext]_mcVars => ReadersInv'
  BY ReadersStep
<1>3. ReadersInv => ReadersSeeTheLog
  <2> SUFFICES ASSUME LogInv, FeedInv, PagesInv, CountInv
               PROVE  R!TypeOK /\ R!FeedIsExact /\ R!PagesAreOne /\ R!MinuteExplained
    BY DEF ReadersInv, ReadersSeeTheLog
  <2>1. R!FeedIsExact /\ R!PagesAreOne /\ R!MinuteExplained
    BY DEF FeedInv, PagesInv, CountInv
  <2>2. list.cursor <= list.top
    BY DEF PagesInv, R!NoList
  <2> QED BY <2>1, <2>2 DEF R!TypeOK, LogInv, FeedInv, CountInv
<1> QED BY <1>1, <1>2, <1>3, PTL DEF MCSpec
=============================================================================
