SPECIFICATION FairSpec
CONSTANTS
    A = A
    B = B
    a1 = a1
    b1 = b1
    None = None
    Objects = {a1, b1}
    Texts = {t1}
    Sources <- MCSources
    SourceOf <- MCSourceOf
    StreamMaxLen = 2
    Setup <- MCSetup
 
PROPERTIES StreamCatchesUp
CHECK_DEADLOCK FALSE
