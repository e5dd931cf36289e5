CONSTANTS
    Draft = "T"
    Chain <- MCChain
    Published <- MCPublished
    Grammars <- MCGrammars
    LineSorts <- MCLineSorts
    Library <- MCLibrary
    Statements <- MCStatements
    Pairs <- MCPairs
    Contents <- MCContents
    Cited <- MCCited
    NoEdge = NoEdge
    NoVerdict = NoVerdict
    NoDigest = NoDigest
    Constants = TRUE
SPECIFICATION Spec
INVARIANTS
    CitedIsWhatWasProved
