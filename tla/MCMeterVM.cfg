SPECIFICATION Spec
CONSTANTS
  MaxCalls = 3
INVARIANTS
  TypeOK
  EveryCallMeteredOnce
CHECK_DEADLOCK FALSE
