SPECIFICATION Spec
CONSTANTS
    c1 = c1
    c2 = c2
    Chain = {c1, c2}
    Known = {1, 3}
    MaxSaves = 3
    MaxMain = 3
SYMMETRY Symmetry
INVARIANTS
    TypeOK
    CoreOpensOwnPair
    RunsRequestedConfig
    KeepsProfile
    
    FailureShown
PROPERTY
    ImplementsConfig
\* The app may rest: nothing is under way and the user saves no more.
CHECK_DEADLOCK FALSE
