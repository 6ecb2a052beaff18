SPECIFICATION Spec
CONSTANTS
  Process <- MCProcess
  Call <- MCCall
  Root <- MCRoot
  Caller <- MCCaller
  Forks <- MCForks
  Stubborn = {}
  NoMetadata = NoMetadata
  Gate = {"static", "compile"}
  Path = {"src"}
  Requests <- OneRequest
  Finals <- OneFinal
  Leftovers <- MCLeftovers
INVARIANT OutputWholeAndNew
CHECK_DEADLOCK FALSE
