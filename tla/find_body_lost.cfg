SPECIFICATION Spec
CONSTANTS
  None = None
  Blank = Blank
  Malformed = Malformed
  Refused = Refused
  A = A
  B = B
  Origins = {A, B}
  FirstUrls <- MCUrls
  OptionSets <- BodyOptions
  Replies <- MCReplies
INVARIANT EveryBodyArrives
CHECK_DEADLOCK FALSE
