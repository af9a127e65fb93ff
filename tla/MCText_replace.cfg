CONSTANTS
  Components = {"search"}
  noText = noText
  NoValue = NoValue
SPECIFICATION RewriteSpec
INVARIANT ReplacesEveryInstance
CHECK_DEADLOCK FALSE
