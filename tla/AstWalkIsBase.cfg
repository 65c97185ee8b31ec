\* Which callbacks are marked as those of a base.
SPECIFICATION Spec
CONSTANTS
    Schema    <- Recs
    Types     <- NodeTypes
    Roots     <- NodeTypes
    Followed  <- Fields
    WalkFlags <- AllFlags
    Budget    = 3
    None      = None
INVARIANT BaseOfParent
CHECK_DEADLOCK FALSE
