\* How far the data of an ID is from its callback.
SPECIFICATION Spec
CONSTANTS
    Schema    <- Recs
    Types     <- NodeTypes
    Roots     <- NodeTypes
    Followed  <- Fields
    WalkFlags <- AllFlags
    Budget    = 3
    None      = None
INVARIANT IdReadable
CHECK_DEADLOCK FALSE
