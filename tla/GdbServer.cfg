CONSTANTS
  Commands <- MCCommands
  RoughCommands <- MCRoughCommands
  HaltReasons = {"swbreak", "done", "semihost"}
  Attempts = 5
  MaxNoise = 1
SPECIFICATION FairSpec
INVARIANTS InStep AnswersMatch ExecutedOnce CoreAtRest StopRepliesTrue
PROPERTY CommandAnswered
CHECK_DEADLOCK FALSE
