SPECIFICATION Spec
CONSTANTS
  Formulas <- MCFormulas
  Variables = {"x"}
  Free <- MCFree
  Axioms = {"Self"}
  OrdinaryRules = {"MP", "R", "UI"}
  Arity <- MCArity
  Instances <- MCInstances
  TakesExtra = {"R"}
  DischargeRules = {"CP", "UG"}
  Discharges <- MCDischarges
  Definitions <- MCDefinitions
  Definition = "Def"
  Theorem = "Thm"
  Hole = "Hole"
  NoFormula = "none"
  Indents = {0, 1, 2}
  MaxCited = 2
  Given <- MCGiven
  MaxLines = 4
  MaxFailing = 1
  Hypothesised = {"P", "Q"}
  MaxLemma = 1
  MaxTheorems = 1
  Models <- MCModels
  Extension <- MCExtension
INVARIANTS LinesFollow TheoremsFollow
CHECK_DEADLOCK FALSE
