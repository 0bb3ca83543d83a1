SPECIFICATION Spec
CONSTANTS
  None = None
  Urls = 2
  OptionSets <- MCOptionSets
  Statuses = {"ok", "gone", "busy", "interim"}
  Flaws <- MCFlaws
  Errors = {"unsupported", "connect"}
  Durations = {0, 1}
  RetryAfters = {None, 4}
INVARIANTS TypeOK WrittenOnceInOrder FileHoldsLastOnly StdoutHasEveryReply
INVARIANTS AttemptsWithinBudget FailureIsReported
PROPERTY Ends
CHECK_DEADLOCK FALSE
