SPECIFICATION Spec
CONSTANTS
  Stranger = {s1, s2}
  Target = target
  Nobody = nobody
  Pidfd = TRUE
INVARIANTS OnlyTargetSignalled AnswerIsTrue
CHECK_DEADLOCK FALSE
