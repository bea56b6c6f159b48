------------------------------ MODULE AuditRows ------------------------------
(***************************************************************************)
(* The rows of audit_events and what verify_chain computes from them       *)
(* (audit/service.py).  A table is a set of rows.                          *)
(***************************************************************************)
EXTENDS Naturals, FiniteSets, Sequences

(* Rows and hashes.  SHA-256 is taken to be injective: a hash is the pair  *)
(* it was computed from.                                                   *)

Genesis == <<>>

Hash(prev, seq, event) == <<prev, seq, event>>

NewRow(seq, prev, event) ==
  [seq |-> seq, event |-> event, prev |-> prev, hash |-> Hash(prev, seq, event)]

Sequences(table) == {r.seq : r \in table}

RowAt(table, n) == CHOOSE r \in table : r.seq = n

(* The highest sequence number of a table, 0 when it is empty: ORDER BY    *)
(* sequence DESC LIMIT 1.                                                  *)
Tip(table) ==
  IF table = {} THEN 0
  ELSE CHOOSE n \in Sequences(table) : \A m \in Sequences(table) : m <= n

TipHash(table) == IF table = {} THEN Genesis ELSE RowAt(table, Tip(table)).hash

-----------------------------------------------------------------------------
(* verify_chain(since): walk the rows above `since` in sequence order and  *)
(* recompute every hash from the one before it.                            *)

PrevHash(table, since, r) ==
  LET before == {p \in table : p.seq > since /\ p.seq < r.seq}
      start  == {p \in table : p.seq = since}
  IN  IF before # {} THEN TipHash(before)
      ELSE IF since # 0 /\ start # {} THEN RowAt(table, since).hash
      ELSE Genesis

Broken(table, since) ==
  {r \in table : /\ r.seq > since
                 /\ \/ r.prev # PrevHash(table, since, r)
                    \/ r.hash # Hash(PrevHash(table, since, r), r.seq, r.event)}

VerifyOk(table, since) == Broken(table, since) = {}

=============================================================================
