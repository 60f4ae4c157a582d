SPECIFICATION Spec
CONSTANTS
    Byte <- MCByte
    Scripts <- MCScripts
    Messages <- MCGrammar
    BuffSize = 22
    Increment = 4
    NULL = NULL
INVARIANTS SameAsDirect
