CONSTANTS
    m1 = m1
    m2 = m2
    m3 = m3
    NumSumcheckVariables = 2
    Fr <- MCFr
    P = 5
    Mles = {m1, m2, m3}
    MleData <- MCMleDataPrefix
    MleId <- MCMleIdPrefix
    Mults = {1, 3}
    MaxTerms = 2
    MaxCalls = 2
SPECIFICATION Spec
PROPERTY BuilderRefinement
CHECK_DEADLOCK FALSE
