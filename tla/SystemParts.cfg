SPECIFICATION Spec
CONSTANTS
  r1 = r1  r2 = r2  a = a  b = b  m = m  n = n  x = x  y = y  e = e  v = v  none = none
  None = none
  Requests <- TwoRequests
  Symbols <- TwoSymbols
  Names <- TwoNames
  Parts <- TwoParts
  Entries <- OneEntry
  Vars <- OneVar
  MaxPosition = 2
  Operations <- AllParts
INVARIANTS CollectionsDistinct PartsWellFormed
PROPERTIES OnlyEntriesUnbound LiveDefinitionsStay
SYMMETRY Symmetric
