-------------------------- MODULE ConfiguredWorker --------------------------
(***************************************************************************)
(* A model Worker made from a configuration document, and one execution of *)
(* it (loom_ai/configured_worker.py): attempts, each a loop of turns; a    *)
(* turn sends one request to the model provider and makes the tool calls   *)
(* its response asks for.                                                  *)
(*                                                                         *)
(* Meanwhile, in other threads, a canceller and the clock may raise the    *)
(* two controls of the context, and the clock may reach                    *)
(* max_duration_seconds.  They are looked at before an attempt, before a   *)
(* turn, after a response and after the loop of turns, each reading at a   *)
(* moment of its own, and never between the tool calls of a response.      *)
(***************************************************************************)
EXTENDS CapabilityRuntime

CONSTANTS
  Bound,    \* model_selections: the pairs of gateway and selection
  MaxCalls  \* bound on the tool calls of a response

ASSUME BoundsAssumption ==
  Bound \subseteq STRING \X STRING /\ MaxCalls \in Nat \ {0}

Control == {"cancelled", "deadline_exceeded"}

\* What an execution ends with: success, or a termination_cause.
Cause ==
  Control \cup
  {"success", "provider_failure", "duration_limit", "output_limit",
   "tool_call_budget", "unknown_tool_name", "tool_invocation_failed",
   "tool_output_limit", "turn_limit"}

Phase ==
  {"configuring", "refused", "attempt", "turn", "calling", "responded",
   "tools", "looped", "done"}

VARIABLES
  document,
  pc,
  read,     \* what the reading comes to: "control", "elapsed", "deadline"
  attempt,
  turn,
  used,     \* tool_calls_used
  calls,    \* tool calls of the response that are not made yet
  response, \* "final", "oversized" or "tools"
  ended,    \* what the loop of turns, and then the execution, ended with
  signals,  \* the controls that were raised, in their order
  overtime, \* max_duration_seconds have passed
  requests, \* those the provider got: whether a control had been raised
  effects,  \* the calls of bindings
  late      \* what came after a control: a "response", a tool's "reply"

vars == <<document, pc, read, attempt, turn, used, calls, response, ended,
          signals, overtime, requests, effects, late>>

configuration == Validated(document)
limit         == document.limits.max_attempts

\* A call of a binding: in which attempt, whether the authorizer would say
\* True, and whether the response that asked for it came after a control.
Effect ==
  [capability : Capability, approved : BOOLEAN, attempt : Nat, late : BOOLEAN]

TypeOK ==
  /\ document \in Document
  /\ pc \in Phase
  /\ read \in {"control", "elapsed", "deadline"}
  /\ attempt \in Nat /\ turn \in Nat /\ used \in Nat /\ calls \in Nat
  /\ response \in {"final", "oversized", "tools"}
  /\ ended \in Cause
  /\ signals \in Seq(Control)
  /\ overtime \in BOOLEAN
  /\ requests \in Seq(BOOLEAN)
  /\ effects \in Seq(Effect)
  /\ late \subseteq {"response", "reply"}

Init ==
  /\ document \in Document
  /\ pc = "configuring" /\ read = "control"
  /\ attempt = 1 /\ turn = 1
  /\ used = 0 /\ calls = 0
  /\ response = "final" /\ ended = "success"
  /\ signals = <<>> /\ overtime = FALSE
  /\ requests = <<>> /\ effects = <<>> /\ late = {}

-----------------------------------------------------------------------------
(* Validation and activation.                                              *)

\* validate_worker_configuration and activate_model_worker; execute begins.
Activate ==
  /\ pc = "configuring"
  /\ pc' = IF Valid(document) /\ <<document.gateway, document.selection>> \in Bound
           THEN "attempt" ELSE "refused"
  /\ UNCHANGED <<document, read, attempt, turn, used, calls, response, ended,
                 signals, overtime, requests, effects, late>>

-----------------------------------------------------------------------------
(* The controls and the clock.                                             *)

Running == pc \notin {"configuring", "refused", "done"}

Raised == {signals[i] : i \in DOMAIN signals}

Signal(control) ==
  /\ Running
  /\ control \notin Raised
  /\ signals' = Append(signals, control)
  /\ UNCHANGED <<document, pc, read, attempt, turn, used, calls, response,
                 ended, overtime, requests, effects, late>>

TimeRunsOut ==
  /\ Running
  /\ ~overtime
  /\ overtime' = TRUE
  /\ UNCHANGED <<document, pc, read, attempt, turn, used, calls, response,
                 ended, signals, requests, effects, late>>

\* Slip: the control that was raised last.
ObservesSlip(cause) ==
  /\ cause = IF signals = <<>> THEN "none" ELSE signals[Len(signals)]
  /\ UNCHANGED signals

\* WorkerContext.termination_cause; between its readings of the clock the
\* deadline may pass and then cancellation be requested, and it is the
\* request it reports.
Observes(cause) ==
  \/ /\ cause = IF signals = <<>> THEN "none" ELSE Head(signals)
     /\ UNCHANGED signals
  \/ /\ cause = "cancelled" /\ signals = <<>>
     /\ signals' = <<"deadline_exceeded", "cancelled">>

Ends(exit, cause) == pc' = exit /\ ended' = cause /\ read' = "control"

Proceeds == UNCHANGED <<pc, ended>>

\* Slip: the controls are left to the end of the attempt.
ObservesAtCheckSlip(cause) == cause = "none" /\ UNCHANGED signals

ObservesAtCheck(cause) == Observes(cause)

\* A reading at a check: one that ends the execution or the loop of turns
\* (exit), or that leads to the next reading.
Checked(exit, expired) ==
  \/ /\ read = "control"
     /\ \/ \E cause \in Control : ObservesAtCheck(cause) /\ Ends(exit, cause)
        \/ ObservesAtCheck("none") /\ read' = "elapsed" /\ Proceeds
  \/ /\ read = "elapsed"
     /\ IF overtime THEN Ends(exit, "duration_limit")
                    ELSE read' = "deadline" /\ Proceeds
     /\ UNCHANGED signals
  \/ /\ read = "deadline" /\ "deadline_exceeded" \in Raised
     /\ Ends(exit, expired)
     /\ UNCHANGED signals

\* The last reading finds time left.
Passes ==
  /\ read = "deadline" /\ "deadline_exceeded" \notin Raised
  /\ read' = "control"
  /\ UNCHANGED signals

-----------------------------------------------------------------------------
(* The loop of turns.                                                      *)

CheckAttempt ==
  /\ pc = "attempt"
  /\ Checked("done", "deadline_exceeded")
  /\ UNCHANGED <<document, attempt, turn, used, calls, response, overtime,
                 requests, effects, late>>

StartAttempt ==
  /\ pc = "attempt"
  /\ Passes
  /\ pc' = "turn" /\ turn' = 1
  /\ UNCHANGED <<document, attempt, used, calls, response, ended, overtime,
                 requests, effects, late>>

\* Without time left for the request the turn ends like one out of duration.
CheckTurn ==
  /\ pc = "turn"
  /\ Checked("looped", "duration_limit")
  /\ UNCHANGED <<document, attempt, turn, used, calls, response, overtime,
                 requests, effects, late>>

Request ==
  /\ pc = "turn"
  /\ Passes
  /\ pc' = "calling"
  /\ requests' = Append(requests, signals # <<>>)
  /\ UNCHANGED <<document, attempt, turn, used, calls, response, ended,
                 overtime, effects, late>>

After(what) == IF signals # <<>> THEN late \cup {what} ELSE late

\* The provider raises, or its response claims another origin.
ProviderFails ==
  /\ pc = "calling"
  /\ Ends("looped", "provider_failure")
  /\ late' = After("response")
  /\ UNCHANGED <<document, attempt, turn, used, calls, response, signals,
                 overtime, requests, effects>>

Respond(kind, n) ==
  /\ pc = "calling"
  /\ pc' = "responded" /\ response' = kind /\ calls' = n
  /\ late' = After("response")
  /\ UNCHANGED <<document, read, attempt, turn, used, ended, signals, overtime,
                 requests, effects>>

CheckResponse ==
  /\ pc = "responded"
  /\ Checked("looped", "deadline_exceeded")
  /\ UNCHANGED <<document, attempt, turn, used, calls, response, overtime,
                 requests, effects, late>>

\* Slip: a budget that is not used up suffices.
WithinBudgetSlip == used < limit

\* max_tool_calls, which is max_attempts, is for all attempts together.
WithinBudget == used + calls <= limit

TakeResponse ==
  /\ pc = "responded"
  /\ Passes
  /\ CASE response = "final"     -> pc' = "looped" /\ ended' = "success"
       [] response = "oversized" -> pc' = "looped" /\ ended' = "output_limit"
       [] response = "tools"     ->
            IF WithinBudget THEN pc' = "tools" /\ UNCHANGED ended
            ELSE pc' = "looped" /\ ended' = "tool_call_budget"
  /\ UNCHANGED <<document, attempt, turn, used, calls, response, overtime,
                 requests, effects, late>>

-----------------------------------------------------------------------------
(* Tool calls.                                                             *)

\* Slip: the next call is passed over, too.
CallsLeftSlip == calls - 2

CallsLeft == calls - 1

\* The next call names no tool, or the binding is not called.
RejectTool(name, call) ==
  /\ pc = "tools" /\ calls # 0
  /\ LET named == {tool \in configuration.tools : tool.name = name} IN
     \/ named = {} /\ Ends("looped", "unknown_tool_name")
     \/ \E tool \in named :
          /\ ~Admitted(configuration, tool.capability, call)
          /\ Ends("looped", "tool_invocation_failed")
  /\ UNCHANGED <<document, attempt, turn, used, calls, response, signals,
                 overtime, requests, effects, late>>

\* The binding is called, and replies or fails.  What it did is done in
\* either case; only a reply that fits is counted.
CallTool(name, call) ==
  /\ pc = "tools" /\ calls # 0
  /\ \E tool \in configuration.tools :
       /\ tool.name = name
       /\ Admitted(configuration, tool.capability, call)
       /\ effects' = Append(effects,
            [capability |-> tool.capability,
             approved |-> Authorizer /\ call.approved,
             attempt |-> attempt, late |-> "response" \in late])
  /\ late' = After("reply")
  /\ CASE call.reply = "fits"   ->
            used' = used + 1 /\ calls' = CallsLeft /\ UNCHANGED <<pc, read, ended>>
       [] call.reply = "spaced" ->
            Ends("looped", "tool_output_limit") /\ UNCHANGED <<used, calls>>
       [] call.reply = "none"   ->
            Ends("looped", "tool_invocation_failed") /\ UNCHANGED <<used, calls>>
  /\ UNCHANGED <<document, attempt, turn, response, signals, overtime, requests>>

\* All calls are made.
EndTurn ==
  /\ pc = "tools" /\ calls = 0
  /\ IF turn < limit
     THEN pc' = "turn" /\ turn' = turn + 1 /\ UNCHANGED ended
     ELSE pc' = "looped" /\ ended' = "turn_limit" /\ UNCHANGED turn
  /\ UNCHANGED <<document, read, attempt, used, calls, response, signals,
                 overtime, requests, effects, late>>

-----------------------------------------------------------------------------
(* After the loop of turns.                                                *)

\* Slip: whatever tools have done meanwhile.
TransientSlip == ended = "provider_failure"

\* A provider that failed before any tool call was counted is tried again.
Transient == ended = "provider_failure" /\ used = 0

Finish ==
  /\ pc = "looped"
  /\ \/ /\ \E cause \in Control : Observes(cause) /\ Ends("done", cause)
        /\ UNCHANGED attempt
     \/ /\ Observes("none")
        /\ IF overtime
           THEN Ends("done", "duration_limit") /\ UNCHANGED attempt
           ELSE IF Transient /\ attempt < limit
                THEN pc' = "attempt" /\ attempt' = attempt + 1 /\ UNCHANGED <<ended, read>>
                ELSE pc' = "done" /\ UNCHANGED <<ended, read, attempt>>
  /\ UNCHANGED <<document, turn, used, calls, response, overtime, requests,
                 effects, late>>

-----------------------------------------------------------------------------
Next ==
  \/ Activate
  \/ \E control \in Control : Signal(control)
  \/ TimeRunsOut
  \/ CheckAttempt \/ CheckTurn \/ CheckResponse
  \/ StartAttempt \/ Request
  \/ ProviderFails
  \/ Respond("final", 0) \/ Respond("oversized", 0)
  \/ \E n \in 1 .. MaxCalls : Respond("tools", n)
  \/ TakeResponse
  \/ \E name \in ToolName, call \in Call : RejectTool(name, call) \/ CallTool(name, call)
  \/ EndTurn
  \/ Finish

Spec == Init /\ [][Next]_vars

-----------------------------------------------------------------------------
(* Invariants.                                                             *)

\* No model response gets a capability past the two policies: a binding is
\* called for tools of the document only, for nothing that the document or the
\* policy it names denies or leaves out of its list, and not without the
\* authorizer's consent when either of the two asks for approval.
ToolsAreAuthorised ==
  \A i \in DOMAIN effects :
    LET effect == effects[i]
        policy == Policies[document.policy]
    IN
    /\ effect.capability \in ToolCapabilities(Tools(document)) \cap Bindings
    /\ effect.capability \notin document.denied \cup policy.denied
    /\ document.allowed # NoList => effect.capability \in document.allowed
    /\ policy.allowed # NoList => effect.capability \in policy.allowed
    /\ document.approval \/ policy.approval => effect.approved

\* max_attempts bounds the calls of bindings and the attempts, and as only the
\* first request of an attempt can fail and have another attempt follow, it
\* bounds the requests of all attempts to twice as many less one.
BudgetsKept ==
  /\ Len(effects) <= limit
  /\ attempt <= limit
  /\ Len(requests) <= 2 * limit - 1

\* "Only retry transient provider failures before any tool side effects": when
\* an attempt has begun no earlier one has called a binding, not even one whose
\* reply was lost.
RetryHasNoEffects == \A i \in DOMAIN effects : effects[i].attempt = attempt

\* Once a control is raised at most one request is still sent, and no tool is
\* called for a response that comes after it.
ControlStopsWork ==
  /\ \A i, j \in DOMAIN requests : requests[i] /\ requests[j] => i = j
  /\ \A i \in DOMAIN effects : ~effects[i].late

\* Neither a response nor a tool's reply that comes after a control, nor their
\* failing, hides it: it is what the execution is said to have ended with.
AnswerNamesTheControl ==
  pc = "done" /\ late # {} => ended = Head(signals)

=============================================================================
