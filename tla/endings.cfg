\* One evaluation of one request; or three calls of the memory controller, each
\* repeated until it is answered, of which two are killed.
SPECIFICATION EndingsSpec
CONSTANTS
  Process <- MCProcess
  Call <- MCCall
  Root <- MCRoot
  Caller <- MCCaller
  Forks <- MCForks
  Stubborn = {"codex", "helper"}
  NoMetadata = NoMetadata
  Gate = {"static", "compile"}
  Path = {}
  Requests <- OneRequest
  Finals <- OneFinal
  Leftovers <- Fresh
  NoFile = NoFile  NoRequest = NoRequest  NoRecord = NoRecord
PROPERTIES EvaluationEnds AdapterReturns RetriesSucceed
CHECK_DEADLOCK FALSE
