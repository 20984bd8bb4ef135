------------------------- MODULE WorkerConfiguration ------------------------
(***************************************************************************)
(* What validate_worker_configuration (loom_ai/worker_configuration.py)    *)
(* makes of a configuration document: it is checked against registries the *)
(* runtime trusts, and refused, or narrowed to what both sides permit.     *)
(*                                                                         *)
(* A document here has the right fields with values of the right types;    *)
(* one that has not is refused like the ones below.                        *)
(***************************************************************************)
EXTENDS Naturals, Sequences

CONSTANTS
  Capability,
  ToolName,
  Schema,     \* input schema references
  Policy,     \* policy references
  Gateway,    \* model gateways, each with the selections it offers
  Document,   \* the documents considered
  Selections, \* gateway_selections
  Available,  \* available_capabilities
  Policies,   \* policy_registry
  NoList,     \* a list of allowed capabilities that is not given
  NoSchema    \* a tool without input_schema_ref

CapabilityList == (SUBSET Capability) \cup {NoList}

Tool ==
  [name : ToolName, capability : Capability, required : BOOLEAN,
   schema : Schema \cup {NoSchema}]

Limits == [max_attempts : Nat \ {0}]

ASSUME RegistryAssumption ==
  /\ NoList \notin SUBSET Capability
  /\ NoSchema \notin Schema
  /\ Selections \in [Gateway -> SUBSET STRING]
  /\ Available \subseteq Capability
  /\ Policies \in [Policy -> [approval : BOOLEAN, allowed : CapabilityList,
                              denied : SUBSET Capability]]
  /\ Document \subseteq
       [gateway : STRING, selection : STRING, declared : SUBSET Capability,
        tools : Seq(Tool), policy : STRING, approval : BOOLEAN,
        allowed : CapabilityList, denied : SUBSET Capability, limits : Limits]

Configuration ==
  [capabilities : SUBSET Capability, tools : SUBSET Tool, approval : BOOLEAN,
   limits : Limits]

-----------------------------------------------------------------------------
Tools(d) == {d.tools[i] : i \in DOMAIN d.tools}

ToolCapabilities(tools) == {tool.capability : tool \in tools}

\* Neither a capability nor a name is configured twice.
ToolsDiffer(d) ==
  \A i, j \in DOMAIN d.tools :
    i # j => /\ d.tools[i].capability # d.tools[j].capability
             /\ d.tools[i].name # d.tools[j].name

ModelOffered(d) ==
  d.gateway \in DOMAIN Selections /\ d.selection \in Selections[d.gateway]

Referenced(d) == d.declared \cup ToolCapabilities(Tools(d))

Required(d) ==
  d.declared \cup ToolCapabilities({tool \in Tools(d) : tool.required})

\* Where both lists are given the document's may not be the wider one, and
\* then is the one that counts.
Allowed(d) ==
  LET trusted == Policies[d.policy].allowed IN
  IF d.allowed = NoList THEN trusted
  ELSE IF trusted = NoList THEN d.allowed
  ELSE d.allowed \cap trusted

NotWidened(d) ==
  d.allowed # NoList /\ Policies[d.policy].allowed # NoList =>
    d.allowed \subseteq Policies[d.policy].allowed

\* Slip: what the trusted policy denies is forgotten.
DeniedSlip(d) == d.denied

Denied(d) == d.denied \cup Policies[d.policy].denied

ApprovalRequired(d) == d.approval \/ Policies[d.policy].approval

Permitted(d) ==
  /\ Referenced(d) \cap Denied(d) = {}
  /\ Allowed(d) # NoList => Referenced(d) \subseteq Allowed(d)

\* The document is valid.  The others raise WorkerConfigurationError.
Valid(d) ==
  /\ ModelOffered(d)
  /\ ToolsDiffer(d)
  /\ d.policy \in DOMAIN Policies
  /\ NotWidened(d)
  /\ Permitted(d)
  /\ Required(d) \subseteq Available

\* ValidatedWorkerConfiguration.
Validated(d) ==
  [capabilities |-> Referenced(d), tools |-> Tools(d),
   approval |-> ApprovalRequired(d), limits |-> d.limits]
=============================================================================
