SPECIFICATION FairSpec
CONSTANTS
  Chars <- Letters
  Requests <- AnyRequest
  Tree <- SmallTree
  Protected <- Fixed
  Creatable <- Shared
  MaxLinks = 2
  MaxDirs = 3
  MaxRequests = 3
  MaxChanges = 2
INVARIANTS
  UrlMeant
  RepliesMeant
PROPERTIES
  WithinAsked
  HeadersMeant
  Answered
CHECK_DEADLOCK FALSE
