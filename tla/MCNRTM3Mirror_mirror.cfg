SPECIFICATION FairSpec
CONSTANTS
    None = None
    Objects = {o1, o2}
    Texts = {t1}
    Ignored = {o2}
    Scenarios <- MCScenarios
    MaxSerial = 3
    MaxFailures = 1
    MaxForces = 1
 
PROPERTIES CatchesUp
