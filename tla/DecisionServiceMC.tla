-------------------------- MODULE DecisionServiceMC --------------------------
(* DecisionService on small instances.                                     *)
EXTENDS DecisionService, TLC

Rule(e, s) == [effect |-> e, sequence |-> s]

AllowPolicy == {Rule("allow", FALSE)}

(* What a disabled agent might still be told.                              *)
KillPolicies == {Rule("allow", FALSE), Rule("require_approval", FALSE)}

(* A policy that is tightened or loosened, and a sequence policy.          *)
AllPolicies == {Rule(e, FALSE) : e \in Effects} \cup {Rule("allow", TRUE)}

Granting == {{"action"}}
MaybeGranting == {{}, {"action"}}

(* A member of the organisation, whose seat does not grant the action; or  *)
(* somebody who has left it, for whom no JIT grant counts.                 *)
Member == {{"other"}}
MaybeMember == {{}, {"other"}}

(* No property of these runs tells one check from another.                 *)
RequestSymmetry == Permutations(Requests)

=============================================================================
