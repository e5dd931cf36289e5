SPECIFICATION SerialSpec
CONSTANTS
  r1 = r1  r2 = r2  p = p  q = q  none = none
  None = none
  Requests <- OneRequest
  Formulas <- Statements
  Seeds <- Proofs
  Operations <- Edits
  MaxLines = 4
  MaxIndent = 1
PROPERTIES CitationsFollow StandingKept ScopesKept
CHECK_DEADLOCK FALSE
