SPECIFICATION SerialSpec
CONSTANTS
  a = a  b = b  c = c  thm = thm  x = x  y = y
  Proofs = {a, b, c}
  Labels = {thm}
  Statements = {x, y}
  Texts <- MCTexts
  Class <- MCClass
  Concludes <- MCConcludes
  LemmaCitations <- MCLemmaCitations
  TheoremCitations <- MCTheoremCitations
  Operations <- SerialOperations
  Requests = {r1, r2}
  NoRequest = NoRequest
  NoLines = NoLines
  NoEntry = NoEntry
  Idle = Idle
  NoText = NoText
  NoClaim = NoClaim
INVARIANTS
  LinesMatchSource
  ValidIsReproducible
  PublishedClosed
  Acyclic
  CitationsStand
PROPERTIES
  ImplementsContract
SYMMETRY Symmetric
CHECK_DEADLOCK FALSE
