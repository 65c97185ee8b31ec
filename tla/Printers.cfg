\* The printed declarations of trees of up to eight nodes.
SPECIFICATION SpecP
CONSTANTS
    Schema    <- Recs
    Types     <- DeclarationTypes
    Roots     <- Unit
    Followed  <- DeclarationFields
    WalkFlags <- AroundFlags
    Budget    = 8
    Limit     = 256
    MaxMargin = 256
    BufSize   = 128
    Lengths   <- TextLengths
    None      = None
INVARIANTS IndentIsDepth MarginIsDepth TextWhole
CHECK_DEADLOCK FALSE
