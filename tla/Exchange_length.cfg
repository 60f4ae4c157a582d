SPECIFICATION Spec
CONSTANTS
    Byte <- MCByte
    Scripts <- EmptyReason
    Messages <- MCGrammar
    BuffSize = 22
    Increment = 4
    NULL = NULL
INVARIANTS LengthChecked
