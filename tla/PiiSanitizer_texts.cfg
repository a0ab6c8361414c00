\* Texts of five cells hold a name inside a name and two names that cross; payloads of
\* three levels hold every order of two containers below the top.
CONSTANTS
    Letters <- MCLetters
    MaxLength = 5
    CardLengths <- MCCardLengths
    MaxItems = 2
    MaxDepth = 3
SPECIFICATION SanitizerSpec
INVARIANTS
    LuhnIsStandard
    EntitiesRedacted
    PayloadSanitized
\* Every behaviour is one call.
CHECK_DEADLOCK FALSE
