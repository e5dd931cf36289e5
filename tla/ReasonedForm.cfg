SPECIFICATION Spec
CONSTANTS
    Con <- MCCon
    Members <- MCMembers
    Productions <- MCProductions
    Declarations <- IndirectDeclarations
    BuiltRules <- MCBuiltRules
    LateRules <- IndirectRules
    Premises <- MCPremises
    Goals <- MCGoals
    Axioms = {}
    TheoremLabels = {}
    Candidates = 0
    Limit = 1
    Leaves <- MCLeaves
    Nominations = {}
    MaxDefinitions = 2
    MaxTheorems = 0
    MaxLines = 3
PROPERTY RulesKeepMeaning
CHECK_DEADLOCK FALSE
