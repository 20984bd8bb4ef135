------------------------- MODULE MCConfiguredWorker -------------------------
(* The constants of the configured Worker's run.                           *)
EXTENDS ConfiguredWorker

TheSelections == [g \in {"gateway"} |-> {"small", "unbound"}]

Trusts(approval, allowed, denied) ==
  [approval |-> approval, allowed |-> allowed, denied |-> denied]

ThePolicies ==
  [p \in Policy |->
     CASE p = "open"    -> Trusts(FALSE, NoList, {})
       [] p = "asking"  -> Trusts(TRUE, {"read", "write"}, {})
       [] p = "reading" -> Trusts(FALSE, {"read"}, {})
       [] p = "denying" -> Trusts(FALSE, NoList, {"write"})]

Reading(schema) ==
  [name |-> "r", capability |-> "read", required |-> TRUE, schema |-> schema]

Writing ==
  [name |-> "w", capability |-> "write", required |-> FALSE, schema |-> NoSchema]

\* "admin" is declared and available, but is no tool.
ADocument ==
  [gateway |-> "gateway", selection |-> "small", declared |-> {},
   tools |-> <<Reading("checked"), Writing>>, policy |-> "open",
   approval |-> FALSE, allowed |-> NoList, denied |-> {},
   limits |-> [max_attempts |-> 2]]

\* What two policies make of each other.
Narrowings ==
  {[ADocument EXCEPT !.policy = policy, !.approval = approval,
                     !.allowed = allowed, !.denied = denied, !.tools = tools] :
     policy \in Policy, approval \in BOOLEAN,
     allowed \in {NoList, {"read"}, {"read", "write"}},
     denied \in {{}, {"write"}},
     tools \in {<<Reading(NoSchema)>>, <<Writing>>}}

\* Documents that differ from a valid one in a single respect, and one that
\* allows another attempt.
Variations ==
  {ADocument,
   [ADocument EXCEPT !.gateway = "elsewhere"],
   [ADocument EXCEPT !.selection = "unbound"],
   [ADocument EXCEPT !.declared = {"admin"}],
   [ADocument EXCEPT !.declared = {"read"}],
   [ADocument EXCEPT !.policy = "unknown"],
   [ADocument EXCEPT !.tools = <<Reading(NoSchema), Reading("checked")>>],
   [ADocument EXCEPT !.tools = <<[Writing EXCEPT !.required = TRUE]>>],
   [ADocument EXCEPT !.tools = <<Reading("unchecked")>>],
   [ADocument EXCEPT !.tools = <<Writing, [Reading(NoSchema) EXCEPT !.name = "w"]>>],
   [ADocument EXCEPT !.tools = <<Reading(NoSchema)>>, !.limits.max_attempts = 3]}

TheBound == {<<"gateway", "small">>}

TheDocuments == Narrowings \cup Variations
=============================================================================
