SPECIFICATION Spec
CONSTANTS
    g1 = g1
    g2 = g2
    g3 = g3
    NoProfile = NoProfile
    NoAnswer = NoAnswer
    Goroutines <- ThreeGoroutines
    Plans <- AllPlans
    Types <- ThreeTypes
    Trimmed <- Trims
    Lowered <- Lowers
    Matching <- Matches
    Folder <- Folders
INVARIANTS
    TypeOK
    ConfigWhole
PROPERTIES
    KeepsRegistry
