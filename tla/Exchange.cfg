SPECIFICATION FairSpec
CONSTANTS
    Byte <- MCByte
    Scripts <- MCScripts
    Messages <- MCGrammar
    BuffSize = 22
    Increment = 4
    NULL = NULL
INVARIANTS ForwardedIsWhole AnsweredInOrder KeptIsWhole KeptWasSent SendsSomething ParsersRight
PROPERTIES AnsweredEnds
