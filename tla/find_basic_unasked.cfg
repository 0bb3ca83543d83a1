SPECIFICATION Spec
CONSTANTS
  None = None
  Blank = Blank
  Malformed = Malformed
  Refused = Refused
  A = A
  B = B
  Origins = {A, B}
  FirstUrls <- MCUrls
  OptionSets <- DigestOptions
  Replies <- MCReplies
INVARIANT BasicOnlyIfOffered
CHECK_DEADLOCK FALSE
