SPECIFICATION ScenarioSpec
CONSTANTS
    Con <- MCCon
    Members <- MCMembers
    Productions <- MCProductions
    Declarations <- MCDeclarations
    BuiltRules <- MCBuiltRules
    LateRules <- MCLateRules
    Premises <- MCPremises
    Goals <- MCGoals
    Axioms <- MCAxioms
    TheoremLabels = {"thm", "lem"}
    Candidates = 1
    Limit = 2
    Leaves <- MCLeaves
    Nominations <- MCNominations
    MaxDefinitions = 2
    MaxLines = 3
    MaxTheorems = 2
INVARIANTS
    UnfoldingEnds
    FreshNamesUnfold
    SearchFindsWhatApplies
    InstancesFollow
PROPERTIES
    StepsKeepMeaning
    RulesKeepMeaning
CHECK_DEADLOCK FALSE
