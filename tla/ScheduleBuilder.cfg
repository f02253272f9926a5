SPECIFICATION Spec
CONSTANTS
  MaxSecond = 1
  MaxMinute = 1
  MaxHour = 2
  MaxDay = 2
  MaxMonth = 2
  Command = {"report"}
  Name = {"report", "typo"}
  RawExpr <- MCRawExpr
  MaxEvents = 1
  None = None
CHECK_DEADLOCK FALSE
INVARIANT RestrictsOpenFields
INVARIANT FirstErrorSurfaces
INVARIANT ValidMeansDue
