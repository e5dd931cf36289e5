SPECIFICATION ScenarioSpec
CONSTANTS
  base = base  mid = mid  top = top  side = side  apart = apart
  l = l  m = m  n = n  o = o
  axiom = axiom  direct = direct  weak = weak  echo = echo  late = late  user = user
  remark = remark  guest = guest  host = host
  Systems = {base, mid, top, apart}
  Labels = {l, m, n, o}
  Proofs = {axiom, direct, weak, echo, late, user}
  Statements <- MCStatements
  Parent <- MCParent
  Id <- MCId
  Rules <- MCRules
  Home <- MCHome
  Concludes <- MCConcludes
  Citations <- MCCitations
  Lemmas <- MCLemmas
  Scenarios <- MCOverlap
  Operations <- MCOperations
  Requests = {r1, r2}
  MaxPosition = 2
  NoSystem = NoSystem
  NoRequest = NoRequest
  NoLines = NoLines
  NoEntry = NoEntry
  Asserted = Asserted
  Primitive = Primitive
  Lapsed = Lapsed
INVARIANTS
  DebtsNameAssumptions
  NoCircularWait
PROPERTIES
  EveryRequestEnds
CHECK_DEADLOCK FALSE
