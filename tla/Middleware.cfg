SPECIFICATION Spec
CONSTANT Stacks <- MCStacks
INVARIANTS
  TypeOK
  AnsweredOnce
  PanicsAreRecovered
  AuditedAfterAnswer
  IdIsKnown
  FailureIsTold
CHECK_DEADLOCK FALSE
