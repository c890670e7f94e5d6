CONSTANTS
    m1 = m1
    m2 = m2
    m3 = m3
    NumSumcheckVariables = 2
    Fr <- MCFr
    P = 5
    Mles = {m1, m2, m3}
    MleData <- MCMleData
    MleId <- MCMleId
    Mults = {1, 3}
    MaxTerms = 2
    MaxCalls = 2
SPECIFICATION Spec
INVARIANT TypeOK
INVARIANT MaterialisedOnce
PROPERTY BuilderRefinement
CHECK_DEADLOCK FALSE
