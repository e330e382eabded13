SPECIFICATION FairSpec
CONSTANTS
    Width = 11
    MAX_AMOUNT_STR_LEN = 5
    Decimals <- MCDecimals
    AptDecimals = 2
    TooLong = TooLong
    NoCoin = NoCoin
    MalformedCoin = MalformedCoin
    Point = Point
CHECK_DEADLOCK FALSE
PROPERTY CallReturns
