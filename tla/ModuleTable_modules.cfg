SPECIFICATION ModuleTableSpec
CONSTANTS
  Modules = {"a", "b"}
  MaxCalls = 3
  MaxWorkers = 5
INVARIANTS
  AnsweredByItsOwn
  NoWorkerLeft
PROPERTY EveryCallAnswered
CHECK_DEADLOCK FALSE
