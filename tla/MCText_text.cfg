CONSTANTS
  Components = {"search", "json", "binary", "tree"}
  noText = noText
  NoValue = NoValue
SPECIFICATION FairSpec
INVARIANTS SearchFindsWhatIsThere JsonPassesAgree JsonAcceptsOnlyJson RoundTrip
PROPERTY JsonParserEnds
CHECK_DEADLOCK FALSE
