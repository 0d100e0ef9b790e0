CONSTANTS
  Tokens <- MCTokens
  MaxTokens = 2
SPECIFICATION Spec
INVARIANTS
  TypeOK
  UsageTouchesNothing
  InjectedAgentShields
  ServedAsAsked
  ExitTellsTruth
