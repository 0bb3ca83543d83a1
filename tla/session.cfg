SPECIFICATION Spec
CONSTANTS
  None = None
  MaxPerDomain = 2
  FileMax = 2
  MaxRedirs = 1
  OptionSets <- MCOptions
  Urls <- MCUrls
  Replies <- MCReplies
INVARIANTS SessionTypeOK CookiesStayInTheirDomain DeletedStaysDeleted
  RememberedAcrossUrls CachesHold
PROPERTIES PlainNeverOverridesSecure
CHECK_DEADLOCK FALSE
