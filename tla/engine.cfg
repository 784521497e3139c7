SPECIFICATION Spec
CONSTANTS
    Region = {east, west, south}
    Freshness = 2
    Stability = 2
    MaxSkew = 1
    MaxLag = 1
SYMMETRY Symmetry
INVARIANTS
    TypeOK
    CandidateDisagrees
PROPERTIES
    CommitsOnlyAfterStability
