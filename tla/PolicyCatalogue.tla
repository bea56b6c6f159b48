-------------------------- MODULE PolicyCatalogue ---------------------------
(* Any one or two of seventeen policies, between which each operator and   *)
(* each form of pattern is used, against requests that differ in what the  *)
(* conditions read.                                                        *)
EXTENDS PolicyEngine, TLC

Read == [ns |-> "crm", verb |-> "read"]
Pay == [ns |-> "crmx", verb |-> "pay"]

MCBegins == [crm |-> {"crm", "crmx"}, crmx |-> {"crmx"}]
MCGranted == {Exact(Read), Exact(Pay)}

Policy(priority, effect, actions, condition) ==
  [priority |-> priority, effect |-> effect, actions |-> actions, types |-> {},
   enabled |-> TRUE, condition |-> condition]

Always == [op |-> "none"]
True == [op |-> "and", args |-> <<>>]
Class(op, value) == [op |-> op, path |-> [rooted |-> TRUE, name |-> "class"], value |-> value]
Taint(S) == [op |-> "is_tainted", categories |-> S]

Catalogue ==
  {Policy(9, "allow", {Star}, Always), Policy(5, "allow", {Star}, True),
   Policy(5, "allow", {Stem("crm")}, Class("eq", "public")),
   Policy(5, "deny", {Verb("pay")}, Class("neq", "public")),
   Policy(4, "deny", {}, Taint({})),
   Policy(4, "deny", {Star}, Taint({"web"})),
   Policy(3, "require_approval", {Dot("crm")}, True),
   Policy(3, "require_approval", {}, [op |-> "gt", path |-> [rooted |-> TRUE, name |-> "amount"],
                                      value |-> 1]),
   Policy(2, "allow", {Exact(Read)}, [op |-> "or", args |-> <<Class("in", {"public"}), True>>]),
   Policy(2, "deny", {Exact(Read), Exact(Pay)}, [op |-> "not", args |-> <<True>>]),
   Policy(6, "deny", {Star}, [op |-> "not", args |->
     <<[op |-> "preceded_by", scope |-> Exact(Read), window |-> 1]>>]),
   Policy(6, "allow", {Star}, [op |-> "time_between", lo |-> 22, hi |-> 6]),
   Policy(1, "deny", {Star}, [op |-> "and", args |->
     <<[op |-> "has_scope", action |-> Pay], [op |-> "eq", path |->
       [rooted |-> FALSE, name |-> "class"], value |-> "public"]>>]),
   Policy(7, "allow", {Star}, [op |-> "xor"]),
   Policy(2, "deny", {Star}, [op |-> "not", args |-> <<>>]),
   [Policy(1, "deny", {Star}, Always) EXCEPT !.enabled = FALSE],
   [Policy(8, "allow", {Dot("crm")}, Always) EXCEPT !.types = {"contact"}]}

(* The conditions above, with those they are made of: two levels of them.  *)
Operands(S) == UNION {{Args(c)[i] : i \in DOMAIN Args(c)} : c \in S}
Nodes ==
  LET top == {p.condition : p \in Catalogue} IN top \cup Operands(top) \cup Operands(Operands(top))
Height[c \in Nodes] ==
  IF Args(c) = <<>> THEN 0 ELSE 1 + Max({Height[Args(c)[i]] : i \in DOMAIN Args(c)})

(* Two policies are loaded in the order that their priorities reverse, and *)
(* in either order when these are the same.                                *)
Loads ==
  {<<>>} \cup {<<p>> : p \in Catalogue}
  \cup {l \in {<<p, q>> : p, q \in Catalogue} : l[1] # l[2] /\ l[1].priority >= l[2].priority}

Request(action, class, amount, taint, generic) ==
  [action |-> action, type |-> "contact", attrs |-> [class |-> class, amount |-> amount],
   taint |-> taint, generic |-> generic, time |-> 23, scopes |-> MCGranted,
   history |-> {[action |-> Read, ago |-> 1]}]

Requested ==
  {Request(Read, "public", 2, {}, FALSE), Request(Read, "public", 2, {"web"}, FALSE),
   Request(Read, "public", 2, {}, TRUE), Request(Pay, "secret", None, {"mail"}, FALSE),
   Request(Pay, None, 1, {}, TRUE), Request([ns |-> "crm", verb |-> "drop"], "public", 1, {}, FALSE),
   [Request(Pay, "public", 0, {}, FALSE) EXCEPT !.time = 12, !.type = "deal",
    !.history = {[action |-> Read, ago |-> 2]}]}

(* TLC computes a definition once, and what replaces a constant each time; *)
(* so the constants are replaced by names of definitions.                  *)
MCConditions == Nodes
MCDepth == Height
MCLists == Loads
MCShown == {<<>>, <<Policy(9, "allow", {Star}, Always)>>, <<Policy(4, "deny", {}, Taint({}))>>}
MCAsked == Requested

=============================================================================
