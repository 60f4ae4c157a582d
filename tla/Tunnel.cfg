SPECIFICATION FairSpec
CONSTANTS
    Byte <- MCByte
    Scripts <- MCScripts
    BuffSize = 2
    Increment = 2
INVARIANTS TunnelTypeOK Conserved LastBytesRelayed
PROPERTIES TunnelIsPipes TunnelEnds EverythingArrives
