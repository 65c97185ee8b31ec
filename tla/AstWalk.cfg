\* A node of any type, with up to two more in declarations below it.
SPECIFICATION Spec
CONSTANTS
    Schema    <- Recs
    Types     <- NodeTypes
    Roots     <- NodeTypes
    Followed  <- Fields
    WalkFlags <- AllFlags
    Budget    = 3
    None      = None
INVARIANTS TypeOK NamesFollowFrames WalkedInPlace FlagsMark
PROPERTIES VisitsEachOnce Returns
CHECK_DEADLOCK FALSE
