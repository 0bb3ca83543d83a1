SPECIFICATION Spec
CONSTANTS
  None = None
  Urls = 1
  OptionSets <- MCOptionSets
  Statuses = {"ok", "gone", "busy", "interim"}
  Flaws <- MCFlaws
  Errors = {"unsupported", "connect"}
  Durations = {0, 1}
  RetryAfters = {None, 4}
INVARIANT NothingWrittenTwice
CHECK_DEADLOCK FALSE
