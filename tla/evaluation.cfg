SPECIFICATION Spec
CONSTANTS
  Process <- MCProcess
  Call <- MCCall
  Root <- MCRoot
  Caller <- MCCaller
  Forks <- MCForks
  Stubborn = {"codex", "helper"}
  NoMetadata = NoMetadata
  Gate = {"static", "compile"}
  Path = {"src"}
  Requests <- MCRequests
  Finals <- MCFinals
  Leftovers <- MCLeftovers
INVARIANTS TypeOK CompletedIsEarned InfrastructureUnobserved
PROPERTIES EvidenceSettled ImplementsContract
CHECK_DEADLOCK FALSE
