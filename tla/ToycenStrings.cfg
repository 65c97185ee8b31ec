\* Sources of one line.
SPECIFICATION Spec
CONSTANTS
    Addr        <- Memory
    Schema      <- Recs
    Place       <- Places
    Texts       <- AllTexts
    NoText      = NoText
    Unset       = Unset
    Free        = Free
    None        = None
    Productions <- DeclarationGrammar
    Shifts      <- DeclarationShifts
    IdField     = "declarator_id"
    LeftField   = "list_left"
    FieldOrder  <- GrammarFields
    Lines       <- SourceLines
    MaxLines    = 1
    Realloc     = {"moves"}
    MaxIndent   = 256
    Typedef     = "typedef"
    Other       = "other"
INVARIANTS NodesTyped
CHECK_DEADLOCK FALSE
