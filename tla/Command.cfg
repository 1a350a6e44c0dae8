CONSTANTS
    a = a  b = b
    Chars = {a, b}
    Scripts <- MCScripts
    UsesExpect = TRUE
    Timed = TRUE
    MaxOutput = 5
SPECIFICATION FairSpec
INVARIANTS
    TypeOK
    RepliesAnswerPrompts
    PromptsNoticed
    OkayIsEarned
PROPERTIES
    SilenceEndsDialog
    RunEnds
CHECK_DEADLOCK FALSE
