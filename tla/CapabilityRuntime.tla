-------------------------- MODULE CapabilityRuntime -------------------------
(***************************************************************************)
(* invoke_capability (loom_ai/capability_runtime.py): what has to hold     *)
(* before a binding the runtime trusts is called for a configured Worker,  *)
(* and what becomes of its result.                                         *)
(***************************************************************************)
EXTENDS WorkerConfiguration

CONSTANTS
  Bindings,   \* the capabilities with a binding
  Validators, \* the schema references with a validator
  Authorizer  \* whether there is an approval_authorizer

ASSUME RuntimeAssumption ==
  /\ Bindings \subseteq Capability
  /\ Validators \subseteq Schema
  /\ Authorizer \in BOOLEAN

\* A binding's reply: its compact ASCII form and its UTF-8 form with spaces
\* both fit into max_output_bytes, only the first does, or there is no reply:
\* the binding raises, or what it returns has no JSON form or one too long.
Reply == {"fits", "spaced", "none"}

\* One call: whether its arguments have a JSON form, whether validator and
\* authorizer, should they be asked, say True, and what the binding replies.
Call ==
  [readable : BOOLEAN, accepted : BOOLEAN, approved : BOOLEAN, reply : Reply]

\* A schema the configuration names needs a validator, and its consent.
SchemaAccepts(configuration, capability, call) ==
  \A tool \in configuration.tools :
    tool.capability = capability /\ tool.schema # NoSchema =>
      tool.schema \in Validators /\ call.accepted

Approved(configuration, call) ==
  configuration.approval => Authorizer /\ call.approved

\* The binding is called.  The other calls raise CapabilityInvocationError
\* before anything has happened.
Admitted(configuration, capability, call) ==
  /\ capability \in configuration.capabilities
  /\ capability \in ToolCapabilities(configuration.tools)
  /\ call.readable
  /\ SchemaAccepts(configuration, capability, call)
  /\ Approved(configuration, call)
  /\ capability \in Bindings
=============================================================================
