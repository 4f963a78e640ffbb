SPECIFICATION ExecSpec
CONSTANTS
  MaxTyped = 1
  MaxSignals = 1
  MaxWrites = 1
  SocketSize = 1
  PtySize = 1
  MaxChunks = 2
  PipeSize = 2
  Limit = 1
CHECK_DEADLOCK FALSE
INVARIANTS OutputBeforeStatus FailuresHaveReasons CleanIsClean AnswerIsComplete
PROPERTIES LogoutEndsSession HostTakesShellAlong EndIsAnswered NeverHeldUp
