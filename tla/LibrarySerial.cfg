SPECIFICATION ScenarioSpec
CONSTANTS
  base = base  mid = mid  top = top  side = side  apart = apart
  l = l  m = m  n = n  o = o
  axiom = axiom  direct = direct  weak = weak  echo = echo  late = late  user = user
  remark = remark  guest = guest  host = host
  Systems = {base, mid, top, apart}
  Labels = {l, m, n, o}
  Proofs = {axiom, direct, weak, echo, late, user, remark, guest, host}
  Statements <- MCStatements
  Parent <- MCParent
  Id <- MCId
  Rules <- MCRules
  Home <- MCHome
  Concludes <- MCConcludes
  Citations <- MCCitations
  Lemmas <- MCLemmas
  Scenarios <- MCSerial
  Operations <- MCOperations
  Requests = {r1}
  MaxPosition = 2
  NoSystem = NoSystem
  NoRequest = NoRequest
  NoLines = NoLines
  NoEntry = NoEntry
  Asserted = Asserted
  Primitive = Primitive
  Lapsed = Lapsed

  
PROPERTIES
  DischargeKeepsDebts
  DischargeClosesNoCircle
CHECK_DEADLOCK FALSE
