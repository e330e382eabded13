SPECIFICATION ReviewSpec
CONSTANTS
    Sizes <- MCSizes
    OtherLens <- MCOtherLens
    Numbers <- MCNumbers
    SizeRange <- MCSizeRange
    MAX_TRANSACTION_PACKETS = 106
CHECK_DEADLOCK FALSE
INVARIANT
    FooterFollowsPayload
