CONSTANTS
  Capability = {"read", "write", "admin"}
  ToolName = {"r", "w", "x"}
  Schema = {"checked", "unchecked"}
  Policy = {"open", "asking", "reading", "denying"}
  Gateway = {"gateway"}
  Document <- TheDocuments
  Selections <- TheSelections
  Available = {"read", "admin"}
  Policies <- ThePolicies
  NoList = {none}
  NoSchema = NoSchema
  Bindings = {"read", "write"}
  Validators = {"checked"}
  Authorizer = TRUE
  Bound <- TheBound
  MaxCalls = 2
SPECIFICATION Spec
INVARIANTS
  TypeOK
  ToolsAreAuthorised
  BudgetsKept
  RetryHasNoEffects
  ControlStopsWork
  AnswerNamesTheControl
CHECK_DEADLOCK FALSE
