SPECIFICATION StringSpec
CONSTANTS
    DigitBits = 2
    Width = 5
    MaxBytes = 5
    Buffers <- MCBuffers
    OutSizes <- MCOutSizes
    MAX_SEQUENCE_LENGTH <- MCMaxSequenceLength
CHECK_DEADLOCK FALSE
INVARIANTS
    AcceptedIsCanonical
    RefusedIsNoNumber
    StringTypeOK
    StringIsConverted
    RefusedIsNoString
    BytesAreCopied
