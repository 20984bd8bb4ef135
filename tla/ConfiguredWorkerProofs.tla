----------------------- MODULE ConfiguredWorkerProofs -----------------------
(***************************************************************************)
(* Proofs about the configured Worker: what its invariants claim holds for *)
(* every document, policy registry, set of bindings and limit, and for any *)
(* number of tool calls a response may ask for.                            *)
(***************************************************************************)
EXTENDS ConfiguredWorker, SequenceTheorems, TLAPS

-----------------------------------------------------------------------------
(* The inductive invariant.                                                *)

\* Nothing runs for a document that was refused.
OnlyValid == pc \notin {"configuring", "refused"} => Valid(document)

\* The requests are those of the turns of this attempt and one of each before
\* it: an attempt whose tools were used is the last.
RequestsCounted ==
  /\ attempt \in 1 .. limit /\ turn \in 1 .. limit
  /\ turn > 1 => used > 0
  /\ pc \in {"configuring", "refused", "attempt"} => Len(requests) = attempt - 1
  /\ pc = "turn" => Len(requests) = attempt + turn - 2
  /\ pc \in {"calling", "responded", "tools"} => Len(requests) = attempt + turn - 1
  /\ Len(requests) <= attempt + turn - 1

\* Every call of a binding but one that ended the execution has been counted.
EffectsCounted ==
  /\ Len(effects) <= limit
  /\ pc \notin {"looped", "done"} => Len(effects) = used
  /\ pc = "looped" /\ ended = "provider_failure" =>
       Len(effects) = used /\ Len(requests) = attempt + turn - 1
  /\ pc = "tools" => used + calls \in 1 .. limit
  /\ pc = "responded" /\ response = "tools" => calls > 0

\* A check that is over, or has not begun, stands at its first reading.
ReadingsBegin == read # "control" => pc \in {"attempt", "turn", "responded"}

\* A request that was sent, or an answer that came, after a control leads to a
\* reading of the controls before anything else.
ControlAwaited ==
  LET unread == pc = "responded" /\ read = "control"
      sent   == \E i \in DOMAIN requests : requests[i]
  IN
  /\ late # {} \/ sent => signals # <<>>
  /\ late # {} => \/ pc \in {"tools", "looped", "done"} \/ unread
                  \/ pc = "turn" /\ read = "control"
  /\ "response" \in late => pc \in {"looped", "done"} \/ unread
  /\ sent => pc \in {"calling", "looped", "done"} \/ unread

IInv ==
  /\ TypeOK
  /\ OnlyValid
  /\ RequestsCounted
  /\ EffectsCounted
  /\ ReadingsBegin
  /\ ControlAwaited
  /\ ToolsAreAuthorised
  /\ RetryHasNoEffects
  /\ ControlStopsWork
  /\ AnswerNamesTheControl

-----------------------------------------------------------------------------
(* Documents and readings.                                                 *)

LEMMA LimitPositive == ASSUME TypeOK PROVE limit \in Nat /\ limit >= 1
BY RegistryAssumption DEF TypeOK, limit, Limits

LEMMA ObservesTyped ==
  ASSUME TypeOK, NEW cause, Observes(cause)
  PROVE  /\ signals' \in Seq(Control)
         /\ signals # <<>> => signals' = signals /\ cause = Head(signals)
         /\ signals' # signals => signals' # <<>>
<1>1. CASE UNCHANGED signals /\ cause = IF signals = <<>> THEN "none" ELSE Head(signals)
  BY <1>1 DEF TypeOK
<1>2. CASE signals = <<>> /\ signals' = <<"deadline_exceeded", "cancelled">>
  BY <1>2 DEF Control
<1> QED BY <1>1, <1>2 DEF Observes

LEMMA NothingObserved ==
  ASSUME TypeOK, Observes("none")
  PROVE  signals = <<>> /\ signals' = signals
<1>1. signals # <<>> => Head(signals) \in Control
  BY DEF TypeOK
<1> QED BY <1>1 DEF Observes, Control

\* A reading at a check ends it, or leads to the next reading.
CheckEnds(exit) ==
  /\ pc' = exit /\ ended' \in Cause \ {"provider_failure"} /\ read' = "control"

CheckGoesOn ==
  /\ pc' = pc /\ ended' = ended /\ read' \in {"elapsed", "deadline"}
  /\ signals' = signals
  /\ read = "control" => signals = <<>>

LEMMA CheckedSteps ==
  ASSUME TypeOK, NEW exit, NEW expired \in {"deadline_exceeded", "duration_limit"},
         Checked(exit, expired)
  PROVE  /\ signals' \in Seq(Control)
         /\ signals # <<>> => signals' = signals
         /\ CheckEnds(exit) \/ CheckGoesOn
<1>1. CASE /\ read = "control"
           /\ \E cause \in Control : ObservesAtCheck(cause) /\ Ends(exit, cause)
  BY <1>1, ObservesTyped DEF ObservesAtCheck, Ends, CheckEnds, Control, Cause
<1>2. CASE read = "control" /\ ObservesAtCheck("none") /\ read' = "elapsed" /\ Proceeds
  BY <1>2, ObservesTyped, NothingObserved DEF ObservesAtCheck, Proceeds, CheckGoesOn
<1>3. CASE /\ read # "control" /\ UNCHANGED signals
           /\ \/ Ends(exit, "duration_limit")
              \/ read' = "deadline" /\ Proceeds
              \/ Ends(exit, expired)
  BY <1>3 DEF TypeOK, Ends, Proceeds, CheckEnds, CheckGoesOn, Cause, Control
<1> QED BY <1>1, <1>2, <1>3 DEF Checked

-----------------------------------------------------------------------------
(* Every step keeps the invariant.                                         *)

LEMMA InitInv == Init => IInv
<1> SUFFICES ASSUME Init PROVE IInv
  OBVIOUS
<1>1. TypeOK
  <2>1. <<>> \in Seq(Control) /\ <<>> \in Seq(BOOLEAN) /\ <<>> \in Seq(Effect)
    OBVIOUS
  <2>2. pc \in Phase /\ ended \in Cause /\ late \subseteq {"response", "reply"}
    BY DEF Init, Phase, Cause
  <2> QED BY <2>1, <2>2 DEF Init, TypeOK
<1>2. limit \in Nat /\ limit >= 1
  BY <1>1, LimitPositive
<1>3. Len(requests) = 0 /\ Len(effects) = 0
  BY DEF Init
<1>4. OnlyValid /\ RequestsCounted /\ EffectsCounted /\ ReadingsBegin /\ ControlAwaited
  BY <1>2, <1>3 DEF Init, OnlyValid, RequestsCounted, EffectsCounted, ReadingsBegin,
                    ControlAwaited
<1>5. ToolsAreAuthorised /\ RetryHasNoEffects /\ ControlStopsWork /\ AnswerNamesTheControl
  BY DEF Init, ToolsAreAuthorised, RetryHasNoEffects, ControlStopsWork,
         AnswerNamesTheControl
<1> QED BY <1>1, <1>4, <1>5 DEF IInv

\* What a step keeps that neither sends a request nor calls a binding.
LEMMA SameRecord ==
  ASSUME IInv, UNCHANGED <<document, requests, effects>>
  PROVE  /\ ToolsAreAuthorised' /\ ControlStopsWork'
         /\ attempt' = attempt => RetryHasNoEffects'
         /\ limit' = limit
BY DEF IInv, ToolsAreAuthorised, ControlStopsWork, RetryHasNoEffects, limit

LEMMA ActivateInv == ASSUME IInv, Activate PROVE IInv'
<1>1. /\ UNCHANGED <<document, read, attempt, turn, used, calls, response, ended,
                     signals, overtime, requests, effects, late>>
      /\ pc = "configuring"
      /\ pc' = "refused" \/ (pc' = "attempt" /\ Valid(document))
  BY DEF Activate
<1>2. TypeOK'
  <2>1. pc' \in Phase
    BY <1>1 DEF Phase
  <2>2. TypeOK
    BY DEF IInv
  <2> QED BY <1>1, <2>1, <2>2 DEF TypeOK
<1>3. OnlyValid' /\ RequestsCounted' /\ EffectsCounted' /\ ReadingsBegin'
  BY <1>1, SameRecord DEF IInv, OnlyValid, RequestsCounted, EffectsCounted, ReadingsBegin,
     Valid, ModelOffered, ToolsDiffer, NotWidened, Permitted, Referenced, Required,
     Denied, Allowed
<1>4. ControlAwaited' /\ AnswerNamesTheControl'
  BY <1>1 DEF IInv, ControlAwaited, AnswerNamesTheControl
<1> QED BY <1>1, <1>2, <1>3, <1>4, SameRecord DEF IInv

LEMMA SignalInv == ASSUME IInv, NEW control \in Control, Signal(control) PROVE IInv'
<1>1. /\ UNCHANGED <<document, pc, read, attempt, turn, used, calls, response,
                     ended, overtime, requests, effects, late>>
      /\ signals' = Append(signals, control)
      /\ pc # "done"
  BY DEF Signal, Running
<1>2. TypeOK'
  BY <1>1 DEF IInv, TypeOK
<1>3. signals' # <<>>
  BY <1>1 DEF IInv, TypeOK
<1>4. OnlyValid' /\ RequestsCounted' /\ EffectsCounted' /\ ReadingsBegin'
  BY <1>1, SameRecord DEF IInv, OnlyValid, RequestsCounted, EffectsCounted, ReadingsBegin
<1>5. ControlAwaited' /\ AnswerNamesTheControl'
  BY <1>1, <1>3 DEF IInv, ControlAwaited, AnswerNamesTheControl
<1> QED BY <1>1, <1>2, <1>4, <1>5, SameRecord DEF IInv

LEMMA TimeRunsOutInv == ASSUME IInv, TimeRunsOut PROVE IInv'
<1>1. /\ UNCHANGED <<document, pc, read, attempt, turn, used, calls, response,
                     ended, signals, requests, effects, late>>
      /\ overtime' = TRUE
  BY DEF TimeRunsOut
<1>2. TypeOK'
  BY <1>1 DEF IInv, TypeOK
<1>3. OnlyValid' /\ RequestsCounted' /\ EffectsCounted' /\ ReadingsBegin'
  BY <1>1, SameRecord DEF IInv, OnlyValid, RequestsCounted, EffectsCounted, ReadingsBegin
<1>4. ControlAwaited' /\ AnswerNamesTheControl'
  BY <1>1 DEF IInv, ControlAwaited, AnswerNamesTheControl
<1> QED BY <1>1, <1>2, <1>3, <1>4, SameRecord DEF IInv

\* The three checks.  One that ends the execution does so before an attempt,
\* where nothing can have come after a control.
LEMMA CheckInv ==
  ASSUME IInv, NEW exit,
         \/ pc = "attempt" /\ exit = "done"
         \/ pc \in {"turn", "responded"} /\ exit = "looped",
         NEW expired \in {"deadline_exceeded", "duration_limit"},
         Checked(exit, expired),
         UNCHANGED <<document, attempt, turn, used, calls, response, overtime,
                     requests, effects, late>>
  PROVE  IInv'
<1>1. TypeOK
  BY DEF IInv
<1>2. /\ signals' \in Seq(Control)
      /\ signals # <<>> => signals' = signals
      /\ CheckEnds(exit) \/ CheckGoesOn
  BY <1>1, CheckedSteps
<1>3. /\ pc' \in Phase /\ ended' \in Cause
      /\ read' \in {"control", "elapsed", "deadline"}
  BY <1>1, <1>2 DEF CheckEnds, CheckGoesOn, TypeOK, Phase
<1>4. TypeOK'
  BY <1>1, <1>2, <1>3 DEF TypeOK
<1>5. /\ pc' # pc => pc' = exit /\ ended' # "provider_failure" /\ read' = "control"
      /\ pc' = pc => /\ read' \in {"elapsed", "deadline"} /\ signals' = signals
                     /\ ended' = ended
                     /\ read = "control" => signals = <<>>
  BY <1>2 DEF CheckEnds, CheckGoesOn
<1>6. Len(requests) \in Nat /\ Len(effects) \in Nat /\ limit' = limit
  BY <1>1, SameRecord DEF TypeOK
<1>7. OnlyValid' /\ ReadingsBegin'
  BY <1>5 DEF IInv, OnlyValid, ReadingsBegin
<1>8. RequestsCounted' /\ EffectsCounted'
  BY <1>1, <1>5, <1>6 DEF IInv, TypeOK, RequestsCounted, EffectsCounted
<1>9. ControlAwaited'
  BY <1>2, <1>5 DEF IInv, ControlAwaited
<1>10. AnswerNamesTheControl'
  BY <1>5 DEF IInv, ControlAwaited, AnswerNamesTheControl
<1> QED BY <1>4, <1>7, <1>8, <1>9, <1>10, SameRecord DEF IInv

LEMMA ChecksInv ==
  ASSUME IInv, CheckAttempt \/ CheckTurn \/ CheckResponse
  PROVE  IInv'
<1>1. CASE CheckAttempt
  BY <1>1, CheckInv DEF CheckAttempt
<1>2. CASE CheckTurn
  BY <1>2, CheckInv DEF CheckTurn
<1>3. CASE CheckResponse
  BY <1>3, CheckInv DEF CheckResponse
<1> QED BY <1>1, <1>2, <1>3

LEMMA StartAttemptInv == ASSUME IInv, StartAttempt PROVE IInv'
<1>1. /\ UNCHANGED <<document, attempt, used, calls, response, ended, overtime,
                     signals, requests, effects, late>>
      /\ pc = "attempt" /\ pc' = "turn" /\ turn' = 1 /\ read' = "control"
  BY DEF StartAttempt, Passes
<1>2. TypeOK
  BY DEF IInv
<1>3. TypeOK'
  BY <1>1, <1>2 DEF TypeOK, Phase
<1>4. limit \in Nat /\ limit >= 1 /\ limit' = limit
  BY <1>1, <1>2, LimitPositive, SameRecord
<1>5. OnlyValid' /\ RequestsCounted' /\ EffectsCounted' /\ ReadingsBegin'
  BY <1>1, <1>2, <1>4
     DEF IInv, TypeOK, OnlyValid, RequestsCounted, EffectsCounted, ReadingsBegin
<1>6. ControlAwaited' /\ AnswerNamesTheControl'
  BY <1>1 DEF IInv, ControlAwaited, AnswerNamesTheControl
<1> QED BY <1>1, <1>3, <1>5, <1>6, SameRecord DEF IInv

\* The one request that may follow a control is the last.
LEMMA RequestInv == ASSUME IInv, Request PROVE IInv'
<1> DEFINE n == Len(requests) + 1
<1>1. /\ UNCHANGED <<document, attempt, turn, used, calls, response, ended,
                     overtime, signals, effects, late>>
      /\ pc = "turn" /\ pc' = "calling" /\ read = "deadline" /\ read' = "control"
      /\ requests' = Append(requests, signals # <<>>)
  BY DEF Request, Passes
<1>2. TypeOK
  BY DEF IInv
<1>3. /\ requests' \in Seq(BOOLEAN)
      /\ Len(requests) \in Nat /\ Len(requests') = n
      /\ DOMAIN requests' = DOMAIN requests \cup {n}
      /\ \A i \in DOMAIN requests : requests'[i] = requests[i]
      /\ requests'[n] = (signals # <<>>)
  BY <1>1, <1>2 DEF TypeOK
<1>4. TypeOK'
  BY <1>1, <1>2, <1>3 DEF TypeOK, Phase
<1>5. limit' = limit
  BY <1>1 DEF limit
<1>6. OnlyValid' /\ RequestsCounted' /\ EffectsCounted' /\ ReadingsBegin'
  BY <1>1, <1>2, <1>3, <1>5
     DEF IInv, TypeOK, OnlyValid, RequestsCounted, EffectsCounted, ReadingsBegin
<1>7. late = {} /\ \A i \in DOMAIN requests : ~requests[i]
  BY <1>1 DEF IInv, ControlAwaited
<1>8. \A i \in DOMAIN requests' : requests'[i] => i = n /\ signals # <<>>
  BY <1>3, <1>7
<1>9. ControlAwaited'
  BY <1>1, <1>7, <1>8 DEF ControlAwaited
<1>10. ControlStopsWork'
  BY <1>1, <1>8 DEF IInv, ControlStopsWork
<1>11. ToolsAreAuthorised' /\ RetryHasNoEffects' /\ AnswerNamesTheControl'
  BY <1>1 DEF IInv, ToolsAreAuthorised, RetryHasNoEffects, AnswerNamesTheControl
<1> QED BY <1>4, <1>6, <1>9, <1>10, <1>11 DEF IInv

LEMMA AnswerInv ==
  ASSUME IInv, pc = "calling", late' = After("response"),
         \/ /\ Ends("looped", "provider_failure")
            /\ UNCHANGED <<response, calls>>
         \/ /\ pc' = "responded" /\ UNCHANGED <<read, ended>>
            /\ response' \in {"final", "oversized", "tools"} /\ calls' \in Nat
            /\ response' = "tools" => calls' > 0,
         UNCHANGED <<document, attempt, turn, used, signals, overtime, requests,
                     effects>>
  PROVE  IInv'
<1>1. TypeOK /\ read = "control" /\ late = {}
  BY DEF IInv, ReadingsBegin, ControlAwaited
<1>2. /\ pc' \in {"looped", "responded"} /\ read' = "control"
      /\ ended' \in {ended, "provider_failure"}
      /\ response' \in {"final", "oversized", "tools"} /\ calls' \in Nat
      /\ pc' = "responded" => (response' = "tools" => calls' > 0)
  BY <1>1 DEF Ends, TypeOK
<1>3. late' = IF signals # <<>> THEN {"response"} ELSE {}
  BY <1>1 DEF After
<1>4. TypeOK'
  <2>1. pc' \in Phase /\ ended' \in Cause /\ late' \subseteq {"response", "reply"}
    BY <1>1, <1>2, <1>3 DEF TypeOK, Phase, Cause
  <2> QED BY <1>1, <1>2, <2>1 DEF TypeOK
<1>5. Len(requests) \in Nat /\ Len(effects) \in Nat /\ limit' = limit
  BY <1>1 DEF TypeOK, limit
<1>6. OnlyValid' /\ RequestsCounted' /\ EffectsCounted' /\ ReadingsBegin'
  BY <1>1, <1>2, <1>5
     DEF IInv, TypeOK, OnlyValid, RequestsCounted, EffectsCounted, ReadingsBegin
<1>7. ControlAwaited' /\ AnswerNamesTheControl'
  BY <1>2, <1>3 DEF IInv, ControlAwaited, AnswerNamesTheControl
<1> QED BY <1>4, <1>6, <1>7, SameRecord DEF IInv

LEMMA AnswersInv ==
  ASSUME IInv,
         \/ ProviderFails
         \/ Respond("final", 0) \/ Respond("oversized", 0)
         \/ \E n \in 1 .. MaxCalls : Respond("tools", n)
  PROVE  IInv'
<1>1. CASE ProviderFails
  BY <1>1, AnswerInv DEF ProviderFails
<1>2. ASSUME NEW kind \in {"final", "oversized", "tools"}, NEW n \in Nat,
             kind = "tools" => n > 0, Respond(kind, n)
      PROVE  IInv'
  BY <1>2, AnswerInv DEF Respond
<1>3. \A n \in 1 .. MaxCalls : n \in Nat /\ n > 0
  BY BoundsAssumption
<1> QED BY <1>1, <1>2, <1>3

LEMMA TakeResponseInv == ASSUME IInv, TakeResponse PROVE IInv'
<1>1. /\ UNCHANGED <<document, attempt, turn, used, calls, response, overtime,
                     signals, requests, effects, late>>
      /\ pc = "responded" /\ read = "deadline" /\ read' = "control"
  BY DEF TakeResponse, Passes
<1>2. TypeOK
  BY DEF IInv
<1>3. \/ pc' = "looped" /\ ended' \in Cause \ {"provider_failure"}
      \/ /\ pc' = "tools" /\ ended' = ended
         /\ response = "tools" /\ used + calls <= limit
  BY <1>2 DEF TakeResponse, TypeOK, WithinBudget, Cause, Control
<1>4. TypeOK'
  BY <1>1, <1>2, <1>3 DEF TypeOK, Phase
<1>5. Len(requests) \in Nat /\ Len(effects) \in Nat /\ limit \in Nat /\ limit' = limit
  BY <1>1, <1>2, LimitPositive DEF TypeOK, limit
<1>6. OnlyValid' /\ RequestsCounted' /\ EffectsCounted' /\ ReadingsBegin'
  BY <1>1, <1>2, <1>3, <1>5
     DEF IInv, TypeOK, OnlyValid, RequestsCounted, EffectsCounted, ReadingsBegin
<1>7. ControlAwaited' /\ AnswerNamesTheControl'
  BY <1>1, <1>3 DEF IInv, ControlAwaited, AnswerNamesTheControl
<1> QED BY <1>1, <1>4, <1>6, <1>7, SameRecord DEF IInv

LEMMA RejectToolInv ==
  ASSUME IInv, NEW name, NEW call, RejectTool(name, call)
  PROVE  IInv'
<1>1. /\ UNCHANGED <<document, attempt, turn, used, calls, response, signals,
                     overtime, requests, effects, late>>
      /\ pc = "tools" /\ pc' = "looped" /\ read' = "control"
      /\ ended' \in {"unknown_tool_name", "tool_invocation_failed"}
  BY DEF RejectTool, Ends
<1>2. TypeOK
  BY DEF IInv
<1>3. TypeOK'
  BY <1>1, <1>2 DEF TypeOK, Phase, Cause
<1>4. Len(requests) \in Nat /\ Len(effects) \in Nat /\ limit' = limit
  BY <1>1, <1>2 DEF TypeOK, limit
<1>5. OnlyValid' /\ RequestsCounted' /\ EffectsCounted' /\ ReadingsBegin'
  BY <1>1, <1>2, <1>4
     DEF IInv, TypeOK, OnlyValid, RequestsCounted, EffectsCounted, ReadingsBegin
<1>6. ControlAwaited' /\ AnswerNamesTheControl'
  BY <1>1 DEF IInv, ControlAwaited, AnswerNamesTheControl
<1> QED BY <1>1, <1>3, <1>5, <1>6, SameRecord DEF IInv

LEMMA EndTurnInv == ASSUME IInv, EndTurn PROVE IInv'
<1>1. /\ UNCHANGED <<document, read, attempt, used, calls, response, signals,
                     overtime, requests, effects, late>>
      /\ pc = "tools" /\ calls = 0
      /\ \/ /\ turn < limit
            /\ pc' = "turn" /\ turn' = turn + 1 /\ ended' = ended
         \/ pc' = "looped" /\ turn' = turn /\ ended' = "turn_limit"
  BY DEF EndTurn
<1>2. TypeOK
  BY DEF IInv
<1>3. TypeOK'
  BY <1>1, <1>2 DEF TypeOK, Phase, Cause
<1>4. Len(requests) \in Nat /\ Len(effects) \in Nat /\ limit \in Nat /\ limit' = limit
  BY <1>1, <1>2, LimitPositive DEF TypeOK, limit
<1>5. OnlyValid' /\ RequestsCounted' /\ EffectsCounted' /\ ReadingsBegin'
  BY <1>1, <1>2, <1>4
     DEF IInv, TypeOK, OnlyValid, RequestsCounted, EffectsCounted, ReadingsBegin
<1>6. ControlAwaited' /\ AnswerNamesTheControl'
  BY <1>1 DEF IInv, ReadingsBegin, ControlAwaited, AnswerNamesTheControl
<1> QED BY <1>1, <1>3, <1>5, <1>6, SameRecord DEF IInv

-----------------------------------------------------------------------------
(* Authorisation.                                                          *)

\* What validation makes of the two policies binds every call that is admitted.
LEMMA AdmittedIsAuthorised ==
  ASSUME TypeOK, Valid(document), NEW tool \in configuration.tools, NEW call \in Call,
         Admitted(configuration, tool.capability, call)
  PROVE  LET policy == Policies[document.policy] IN
         /\ tool.capability \in Capability
         /\ tool.capability \in ToolCapabilities(Tools(document)) \cap Bindings
         /\ tool.capability \notin document.denied \cup policy.denied
         /\ document.allowed # NoList => tool.capability \in document.allowed
         /\ policy.allowed # NoList => tool.capability \in policy.allowed
         /\ document.approval \/ policy.approval => Authorizer /\ call.approved
<1> DEFINE c == tool.capability
           policy == Policies[document.policy]
<1>1. /\ configuration.tools = Tools(document)
      /\ configuration.capabilities = Referenced(document)
      /\ configuration.approval = ApprovalRequired(document)
  BY DEF configuration, Validated
<1>2. /\ document.tools \in Seq(Tool)
      /\ document.allowed \in CapabilityList
      /\ document.policy \in Policy
      /\ policy.allowed \in CapabilityList
  BY RegistryAssumption DEF TypeOK, Valid
<1>3. tool \in Tool
  BY <1>1, <1>2 DEF Tools
<1>4. c \in Capability /\ c \in ToolCapabilities(Tools(document)) /\ c \in Bindings
  BY <1>1, <1>3 DEF Tool, Admitted
<1>5. c \in Referenced(document)
  BY <1>1 DEF Admitted
<1>6. c \notin document.denied \cup policy.denied
  BY <1>5 DEF Valid, Permitted, Denied
<1>7. /\ document.allowed # NoList => c \in document.allowed
      /\ policy.allowed # NoList => c \in policy.allowed
  <2>1. CASE document.allowed = NoList
    BY <1>5, <2>1 DEF Valid, Permitted, Allowed
  <2>2. CASE document.allowed # NoList /\ policy.allowed = NoList
    BY <1>5, <2>2 DEF Valid, Permitted, Allowed
  <2>3. CASE document.allowed # NoList /\ policy.allowed # NoList
    <3>1. document.allowed \cap policy.allowed \in SUBSET Capability
      BY <1>2, <2>3 DEF CapabilityList
    <3>2. Allowed(document) = document.allowed \cap policy.allowed
      BY <2>3 DEF Allowed
    <3>3. Allowed(document) # NoList
      BY <3>1, <3>2, RegistryAssumption
    <3>4. c \in Allowed(document)
      BY <1>5, <3>3 DEF Valid, Permitted
    <3> QED BY <3>2, <3>4
  <2> QED BY <2>1, <2>2, <2>3
<1>8. document.approval \/ policy.approval => Authorizer /\ call.approved
  <2>1. configuration.approval => Authorizer /\ call.approved
    BY DEF Admitted, Approved
  <2> QED BY <1>1, <2>1, Zenon DEF ApprovalRequired
<1> QED BY <1>4, <1>6, <1>7, <1>8

LEMMA CallToolInv ==
  ASSUME IInv, NEW name, NEW call \in Call, CallTool(name, call)
  PROVE  IInv'
<1>1. PICK tool \in configuration.tools :
        /\ Admitted(configuration, tool.capability, call)
        /\ effects' = Append(effects,
             [capability |-> tool.capability,
              approved |-> Authorizer /\ call.approved,
              attempt |-> attempt, late |-> "response" \in late])
  BY DEF CallTool
<1> DEFINE effect == [capability |-> tool.capability,
                      approved |-> Authorizer /\ call.approved,
                      attempt |-> attempt, late |-> "response" \in late]
           n == Len(effects) + 1
<1>2. /\ UNCHANGED <<document, attempt, turn, response, signals, overtime, requests>>
      /\ pc = "tools" /\ calls # 0 /\ late' = After("reply")
      /\ \/ /\ used' = used + 1 /\ calls' = calls - 1
            /\ UNCHANGED <<pc, read, ended>>
         \/ /\ pc' = "looped" /\ read' = "control" /\ UNCHANGED <<used, calls>>
            /\ ended' \in {"tool_output_limit", "tool_invocation_failed"}
  BY DEF CallTool, Ends, CallsLeft, Call, Reply
<1>3. TypeOK /\ Valid(document)
  BY <1>2 DEF IInv, OnlyValid
<1>4. /\ read = "control" /\ "response" \notin late
      /\ Len(effects) = used /\ used + calls \in 1 .. limit
      /\ \A i \in DOMAIN requests : ~requests[i]
  BY <1>2 DEF IInv, ReadingsBegin, ControlAwaited, EffectsCounted
<1>5. /\ tool.capability \in Capability
      /\ effect.approved \in BOOLEAN
  BY <1>1, <1>3, AdmittedIsAuthorised
<1>6. effect \in Effect
  BY <1>3, <1>5 DEF TypeOK, Effect
<1>7. /\ effects' \in Seq(Effect) /\ Len(effects) \in Nat /\ Len(effects') = n
      /\ DOMAIN effects' = DOMAIN effects \cup {n}
      /\ \A i \in DOMAIN effects : effects'[i] = effects[i]
      /\ effects'[n] = effect
  <2> HIDE DEF effect
  <2> QED BY <1>1, <1>3, <1>6 DEF TypeOK, effect
<1>8. limit \in Nat /\ limit' = limit /\ Len(requests) \in Nat
  BY <1>2, <1>3, LimitPositive DEF limit, TypeOK
<1>9. late' = IF signals # <<>> THEN late \cup {"reply"} ELSE late
  BY <1>2 DEF After
<1>10. TypeOK'
  <2>1. /\ pc' \in Phase /\ ended' \in Cause /\ late' \subseteq {"response", "reply"}
        /\ read' \in {"control", "elapsed", "deadline"}
    BY <1>2, <1>3, <1>9 DEF TypeOK, Phase, Cause
  <2>2. used' \in Nat /\ calls' \in Nat
    BY <1>2, <1>3 DEF TypeOK
  <2> QED BY <1>2, <1>3, <1>7, <2>1, <2>2 DEF TypeOK
<1>11. OnlyValid' /\ RequestsCounted' /\ EffectsCounted' /\ ReadingsBegin'
  BY <1>2, <1>3, <1>4, <1>7, <1>8
     DEF IInv, TypeOK, OnlyValid, RequestsCounted, EffectsCounted, ReadingsBegin
<1>12. ControlAwaited' /\ AnswerNamesTheControl'
  BY <1>2, <1>4, <1>9 DEF IInv, ControlAwaited, AnswerNamesTheControl
<1>13. ToolsAreAuthorised'
  <2>1. document' = document
    BY <1>2
  <2>2. /\ effect.capability \in ToolCapabilities(Tools(document)) \cap Bindings
        /\ effect.capability \notin document.denied \cup Policies[document.policy].denied
        /\ document.allowed # NoList => effect.capability \in document.allowed
        /\ Policies[document.policy].allowed # NoList =>
             effect.capability \in Policies[document.policy].allowed
        /\ document.approval \/ Policies[document.policy].approval => effect.approved
    BY <1>1, <1>3, AdmittedIsAuthorised
  <2> HIDE DEF effect
  <2> QED BY <1>7, <2>1, <2>2, Zenon DEF IInv, ToolsAreAuthorised
<1>14. RetryHasNoEffects'
  BY <1>2, <1>7 DEF IInv, RetryHasNoEffects
<1>15. ControlStopsWork'
  <2>1. ~effect.late
    BY <1>4
  <2>2. UNCHANGED requests
    BY <1>2
  <2> HIDE DEF effect
  <2>3. \A i \in DOMAIN effects' : ~effects'[i].late
    BY <1>7, <2>1 DEF IInv, ControlStopsWork
  <2> QED BY <2>2, <2>3 DEF IInv, ControlStopsWork
<1> QED BY <1>10, <1>11, <1>12, <1>13, <1>14, <1>15 DEF IInv

-----------------------------------------------------------------------------
(* After the loop of turns.                                                *)

LEMMA FinishInv == ASSUME IInv, Finish PROVE IInv'
<1>1. /\ UNCHANGED <<document, turn, used, calls, response, overtime, requests,
                     effects, late>>
      /\ pc = "looped"
  BY DEF Finish
<1>2. TypeOK /\ read = "control"
  BY <1>1 DEF IInv, ReadingsBegin
<1>3. /\ limit \in Nat /\ limit >= 1 /\ limit' = limit
      /\ Len(requests) \in Nat /\ Len(effects) \in Nat
  BY <1>1, <1>2, LimitPositive DEF limit, TypeOK
<1>4. CASE pc' = "attempt"
  <2>1. /\ signals = <<>> /\ signals' = signals /\ UNCHANGED <<ended, read>>
        /\ ended = "provider_failure" /\ used = 0
        /\ attempt < limit /\ attempt' = attempt + 1
    BY <1>2, <1>4, NothingObserved DEF Finish, Ends, Transient
  <2>2. TypeOK'
    BY <1>1, <1>2, <1>4, <2>1 DEF TypeOK, Phase
  <2>3. Len(effects) = 0 /\ turn = 1 /\ Len(requests) = attempt
    BY <1>1, <1>2, <1>3, <2>1 DEF IInv, TypeOK, RequestsCounted, EffectsCounted
  <2>4. OnlyValid' /\ RequestsCounted' /\ EffectsCounted' /\ ReadingsBegin'
    BY <1>1, <1>2, <1>3, <1>4, <2>1, <2>3
       DEF IInv, TypeOK, OnlyValid, RequestsCounted, EffectsCounted, ReadingsBegin
  <2>5. late = {} /\ \A i \in DOMAIN requests : ~requests[i]
    BY <2>1 DEF IInv, ControlAwaited
  <2>6. ControlAwaited' /\ AnswerNamesTheControl'
    BY <1>1, <1>4, <2>5 DEF ControlAwaited, AnswerNamesTheControl
  <2>7. RetryHasNoEffects'
    BY <1>1, <1>2, <2>3 DEF TypeOK, RetryHasNoEffects
  <2> QED BY <1>1, <2>2, <2>4, <2>6, <2>7, SameRecord DEF IInv
<1>5. CASE pc' = "done"
  <2>1. /\ attempt' = attempt /\ read' = "control"
        /\ \/ \E cause \in Control : Observes(cause) /\ ended' = cause
           \/ Observes("none") /\ ended' \in {ended, "duration_limit"}
    BY <1>2, <1>5 DEF Finish, Ends
  <2>2. /\ signals' \in Seq(Control) /\ ended' \in Cause
        /\ signals # <<>> => signals' = signals /\ ended' = Head(signals)
    BY <1>2, <2>1, ObservesTyped, NothingObserved DEF TypeOK, Control, Cause
  <2>3. TypeOK'
    BY <1>1, <1>2, <1>5, <2>1, <2>2 DEF TypeOK, Phase
  <2>4. OnlyValid' /\ RequestsCounted' /\ EffectsCounted' /\ ReadingsBegin'
    BY <1>1, <1>2, <1>3, <1>5, <2>1
       DEF IInv, TypeOK, OnlyValid, RequestsCounted, EffectsCounted, ReadingsBegin
  <2>5. ControlAwaited' /\ AnswerNamesTheControl'
    BY <1>1, <1>5, <2>2 DEF IInv, ControlAwaited, AnswerNamesTheControl
  <2> QED BY <1>1, <2>1, <2>3, <2>4, <2>5, SameRecord DEF IInv
<1>6. pc' \in {"attempt", "done"}
  BY DEF Finish, Ends
<1> QED BY <1>4, <1>5, <1>6

-----------------------------------------------------------------------------
LEMMA NextInv == IInv /\ [Next]_vars => IInv'
<1> SUFFICES ASSUME IInv, [Next]_vars PROVE IInv'
  OBVIOUS
<1>1. CASE UNCHANGED vars
  <2>1. /\ UNCHANGED <<document, pc, read, attempt, turn, used, calls, response,
                       ended, signals, overtime>>
        /\ UNCHANGED <<requests, effects, late>>
    BY <1>1 DEF vars
  <2>2. TypeOK'
    BY <2>1 DEF IInv, TypeOK
  <2>3. OnlyValid' /\ RequestsCounted' /\ EffectsCounted' /\ ReadingsBegin'
    BY <2>1, SameRecord
       DEF IInv, OnlyValid, RequestsCounted, EffectsCounted, ReadingsBegin
  <2>4. ControlAwaited' /\ AnswerNamesTheControl'
    BY <2>1 DEF IInv, ControlAwaited, AnswerNamesTheControl
  <2> QED BY <2>1, <2>2, <2>3, <2>4, SameRecord DEF IInv
<1>2. CASE Next
  BY <1>2, ActivateInv, SignalInv, TimeRunsOutInv, ChecksInv, StartAttemptInv,
     RequestInv, AnswersInv, TakeResponseInv, RejectToolInv, CallToolInv,
     EndTurnInv, FinishInv DEF Next
<1> QED BY <1>1, <1>2

-----------------------------------------------------------------------------
(* The theorems.                                                           *)

\* The inductive invariant, of which the others are parts.
THEOREM Invariance == Spec => []IInv
<1> QED BY InitInv, NextInv, PTL DEF Spec

\* Every variable keeps its type; the counters do not go below nothing.
THEOREM TypeCorrect == Spec => []TypeOK
<1>1. IInv => TypeOK
  BY DEF IInv
<1> QED BY <1>1, Invariance, PTL

\* No binding is called that one of the two policies, or the lack of a consent
\* it asks for, withholds from the Worker.
THEOREM Authorised == Spec => []ToolsAreAuthorised
<1>1. IInv => ToolsAreAuthorised
  BY DEF IInv
<1> QED BY <1>1, Invariance, PTL

\* The limit bounds attempts, requests and effects of one execution together.
THEOREM Budgets == Spec => []BudgetsKept
<1>1. IInv => BudgetsKept
  BY LimitPositive DEF IInv, TypeOK, RequestsCounted, EffectsCounted, BudgetsKept
<1> QED BY <1>1, Invariance, PTL

\* No attempt follows one that called a binding.
THEOREM NoRepeatedEffects == Spec => []RetryHasNoEffects
<1>1. IInv => RetryHasNoEffects
  BY DEF IInv
<1> QED BY <1>1, Invariance, PTL

\* A control lets one more request through at most, and no response after it.
THEOREM ControlsStop == Spec => []ControlStopsWork
<1>1. IInv => ControlStopsWork
  BY DEF IInv
<1> QED BY <1>1, Invariance, PTL

\* What comes after a control does not hide it.
THEOREM ControlsNamed == Spec => []AnswerNamesTheControl
<1>1. IInv => AnswerNamesTheControl
  BY DEF IInv
<1> QED BY <1>1, Invariance, PTL
=============================================================================
