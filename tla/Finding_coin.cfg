SPECIFICATION LibrarySpec
CONSTANTS
    U64 = 4
    ADDRESS_LEN = 2
    Byte = {0, 1}
    APT = APT
    USDC = USDC
    Tickers <- MCTickers
    Printable <- MCPrintable
    Decimals = {2, 9}
    AptDecimals = 2
    Garbage <- MCGarbage
    Null = Null
    Malformed = Malformed
    TooLong = TooLong
    Width = 11
    MAX_AMOUNT_STR_LEN = 5
    AmountDecimals <- MCAmountDecimals
    Point = Point
    Elements = {44, 637, 0}
    Purpose = 44
    CoinType = 637
    MaxPath = 3
    OnStack <- MCOnStack
CHECK_DEADLOCK FALSE
INVARIANT
    SignedCoinIsAgreed
