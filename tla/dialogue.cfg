SPECIFICATION Spec
CONSTANTS
  None = None
  OptionSets <- MCOptions
  ProxyReplies <- MCProxyReplies
  Answers <- MCAnswers
  Growth <- MCGrowth
INVARIANTS DialogueTypeOK DigestKeepsItsPlace WaitsOnlyForNtlm
  NamesReachTheProxy CleanIsComplete BodyWithinCap HeadsInOrder
  MutualWaitOnlyAfterHint BodyOmittedOnlyByAnswer AnswerLostOnlyWith100
  FullAnswerSuffices
PROPERTIES CallEnds
CHECK_DEADLOCK FALSE
