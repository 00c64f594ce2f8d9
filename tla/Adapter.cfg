SPECIFICATION Spec
CONSTANTS
  Us <- MCUs
  Hosts <- MCHosts
  Elsewhere <- MCElsewhere
  Segments <- MCSegments
  Templates <- MCTemplates
  Change = {1, 255}
INVARIANTS DeliversOnlySent IntactArrives HeaderDamageReported
PROPERTY BoundForGood
CHECK_DEADLOCK FALSE
