SPECIFICATION Spec
CONSTANTS
  None = None
  Blank = Blank
  Malformed = Malformed
  Refused = Refused
  A = A
  B = B
  Origins = {A, B}
  FirstUrls <- MCUrls
  OptionSets <- MCOptions
  Replies <- MCReplies
INVARIANTS TypeOK EveryHeadOnce CredentialsStayHome AnyauthAsksFirst BodyArrives
PROPERTIES NonceCountsGrow Returns
CHECK_DEADLOCK FALSE
