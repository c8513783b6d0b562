CONSTANTS
  Kms <- MCKms
  Calls <- MCCalls
SPECIFICATION Spec
INVARIANTS
  VersionsAgree
  RequestsArrive
  ResponsesArrive
  NoPrefixAccepted
PROPERTIES
  Negotiates
  SessionsStart
