\* Sources of up to three lines; realloc moves what it is given.  The printers' limit is 40
\* and not 256, so that three plain declarations reach it.
SPECIFICATION Spec
CONSTANTS
    Addr        <- Memory
    Schema      <- Recs
    Place       <- Places
    Texts       <- AllTexts
    NoText      = NoText
    Unset       = Unset
    Free        = Free
    None        = None
    Productions <- DeclarationGrammar
    Shifts      <- DeclarationShifts
    IdField     = "declarator_id"
    LeftField   = "list_left"
    FieldOrder  <- GrammarFields
    Lines       <- SourceLines
    MaxLines    = 3
    Realloc     = {"moves"}
    MaxIndent   = 40
    Typedef     = "typedef"
    Other       = "other"
INVARIANTS TypeOK NoDangling OneOwner OneStringOneObject ValuesTyped FitsSchema
    ClassesAsDeclared TreeIsSource CrashCauses OnlyPointersLost
PROPERTIES Terminates LongNotPrinted
CHECK_DEADLOCK FALSE
