SPECIFICATION VLSpec
CONSTANTS
  Name <- MCName
  WellNamed <- MCWellNamed
  Inputs <- MCInputs
  Lower <- MCLower
  Token <- MCToken
INVARIANTS
  VLTypeOK
  AcceptedCanBoot
  RejectedIsInvalid
PROPERTIES
  SearchGetsOn
CHECK_DEADLOCK FALSE
