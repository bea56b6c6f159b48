----------------------------- MODULE AuditChain -----------------------------
(***************************************************************************)
(* What the audit log of one organisation promises (audit/service.py,      *)
(* module docstring): one totally ordered, append-only history.  Nothing   *)
(* is said of writers, transactions, sequence numbers or hashes; AuditLog  *)
(* is shown to implement this specification.                               *)
(***************************************************************************)
EXTENDS Sequences, Naturals

CONSTANT Events           \* what may be recorded

VARIABLE chain            \* the recorded history, oldest first

Init == chain = <<>>

Record(e) == chain' = Append(chain, e)

Next == \E e \in Events : Record(e)

Spec == Init /\ [][Next]_chain

=============================================================================
