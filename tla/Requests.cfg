CONSTANTS
  Cases <- MCCases
  MethodName <- Methods
  StackName <- StackNames
  Kind <- MCKind
  DefaultPageSize = 3
  MaxPageSize = 4
  MaxPages = 3
  InitTable <- MCTable
  Column <- MCColumn
  ActorColumn = "updatedBy"
  Actor = 7
  MaxParameters = 10
SPECIFICATION Spec
INVARIANT TypeOK
INVARIANT ServedByMostSpecific
INVARIANT GuardedByNearestStack
INVARIANT SessionWins
INVARIANT OneScope
INVARIANT ListStaysInScope
INVARIANT PagesPartition
INVARIANT CallDoesWhatWasAsked
INVARIANT NoAccidentalAllRows
CHECK_DEADLOCK FALSE
