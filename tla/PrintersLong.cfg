\* A file of 65 declarations.
SPECIFICATION SpecP
CONSTANTS
    Schema    <- Recs
    Types     <- ChainTypes
    Roots     <- Unit
    Followed  <- ChainFields
    WalkFlags <- AroundFlags
    Budget    = 65
    Limit     = 256
    MaxMargin = 256
    BufSize   = 128
    Lengths   <- TextLengths
    None      = None
INVARIANTS NeverAborts
CHECK_DEADLOCK FALSE
