SPECIFICATION FairSpec
CONSTANTS
  Disputes = {d1}
  Requests = {r1, r2}
  ResponseDays = 2
  Retention = 2
  None = None
PROPERTIES
  EscalationNeverUndone
