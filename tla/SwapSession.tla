---------------------------- MODULE SwapSession -----------------------------
(***************************************************************************)
(* A swap, as the app sees it: the Exchange app calls the app as a library *)
(* with what the user has agreed to (swap_copy_transaction_parameters),    *)
(* and the transaction that then comes in by SIGN_TX is signed without a   *)
(* review if swap_check_validity finds it to be what was agreed.           *)
(*                                                                         *)
(* The request itself, its chunks and its one answer, is in AptosApp; here *)
(* is what decides between a signature and SW_SWAP_CHECKING_FAIL.          *)
(***************************************************************************)
EXTENDS Integers, Sequences

CONSTANTS
    U64,          \* 2^64: amounts, prices and fees are counted modulo U64
    ADDRESS_LEN,  \* the bytes of an address
    Byte,         \* the values of a byte
    Tickers,      \* the coins, known to the Exchange app by their tickers
    APT,          \* the coin of the chain
    Printable,    \* the amounts print_amount can print, with the decimals
    Decimals,     \* the decimals of a coin
    AptDecimals,  \* APT_DECIMAL_PRECISION
    Garbage,      \* what G_swap_validated may hold when the app is called
    Null,         \* a parameter that is a null pointer
    Malformed,    \* a coin configuration that cannot be parsed
    TooLong       \* a number of more than eight bytes

Amounts == 0 .. U64 - 1
Addresses == [1 .. ADDRESS_LEN -> Byte]
ZeroAddress == [i \in 1 .. ADDRESS_LEN |-> 0]

\* A destination is a text; `parsed' of the bytes of its address can be read,
\* all of them if it is well formed.
Destinations == [address : Addresses, parsed : 0 .. ADDRESS_LEN]
WellFormed(destination) == destination.parsed = ADDRESS_LEN

Coins == [ticker : Tickers, decimals : Decimals]

Parameters ==
    [extra_id : {"null", "empty", "given"},
     destination_address : Destinations \union {Null},
     amount : Amounts \union {Null, TooLong},
     fee_amount : Amounts \union {TooLong},
     coin_configuration : Coins \union {Null, Malformed}]

\* swap_validated_t
Validated ==
    [initialized : BOOLEAN, ticker : Tickers \union {Null}, decimals : Decimals,
     amount : Amounts, fee : Amounts, recipient : Addresses]

ASSUME SwapAssumption ==
    /\ U64 \in Nat \ {0}
    /\ ADDRESS_LEN \in Nat
    /\ 0 \in Byte
    /\ APT \in Tickers
    /\ AptDecimals \in Decimals
    /\ Printable \subseteq Amounts \X Decimals
    /\ Garbage \subseteq Validated
    /\ {Null, Malformed, TooLong} \intersect Amounts = {}

TransferTypes ==
    {"FUNC_APTOS_ACCOUNT_TRANSFER", "FUNC_COIN_TRANSFER", "FUNC_APTOS_ACCOUNT_TRANSFER_COINS"}

\* What the parser may have made of the request: the calls the check reads,
\* and everything else, whose fields it does not look at.  The coin that
\* aptos_account::transfer moves is APT.
Transactions ==
    {t \in [tx_variant : {"TX_RAW"}, payload_variant : {"PAYLOAD_ENTRY_FUNCTION"},
            known_type : TransferTypes, amount : Amounts, receiver : Addresses,
            gas_unit_price : Amounts, max_gas_amount : Amounts, coin : Tickers] :
        t.known_type = "FUNC_APTOS_ACCOUNT_TRANSFER" => t.coin = APT}
OtherRequests ==
    {[tx_variant |-> kind[1], payload_variant |-> kind[2], known_type |-> kind[3],
      amount |-> 0, receiver |-> ZeroAddress, gas_unit_price |-> 0, max_gas_amount |-> 0,
      coin |-> APT] :
        kind \in
            {<<"TX_RAW", "PAYLOAD_ENTRY_FUNCTION", "FUNC_FUNGIBLE_STORE_TRANSFER">>,
             <<"TX_RAW", "PAYLOAD_ENTRY_FUNCTION", "FUNC_UNKNOWN">>,
             <<"TX_RAW", "PAYLOAD_SCRIPT", "FUNC_APTOS_ACCOUNT_TRANSFER">>,
             <<"TX_MESSAGE", "PAYLOAD_ENTRY_FUNCTION", "FUNC_APTOS_ACCOUNT_TRANSFER">>}}

VARIABLES
    params,            \* what the Exchange app passes, and the user has agreed to
    G_swap_validated,  \* the copy of it in the app
    stage,             \* "called", "copied" or "returned"
    outcome,           \* what became of the transaction
    transaction        \* the transaction that came in, <<>> before

vars == <<params, G_swap_validated, stage, outcome, transaction>>

-----------------------------------------------------------------------------
(* swap_copy_transaction_parameters *)

\* The early returns, in front of the copy.
Refused ==
    \/ params.extra_id # "empty"
    \/ params.destination_address = Null
    \/ params.amount \in {Null, TooLong}
    \/ params.fee_amount = TooLong
    \/ params.coin_configuration = Malformed

\* A loop that stops one byte early.
RecipientCutShort(destination) ==
    [i \in 1 .. ADDRESS_LEN |-> IF i < destination.parsed THEN destination.address[i] ELSE 0]

\* hex_str_to_u8 writes the bytes it can parse and stops at the first that it
\* cannot; the caller logs the failure and goes on with the zeros behind them.
Recipient(destination) ==
    [i \in 1 .. ADDRESS_LEN |-> IF i <= destination.parsed THEN destination.address[i] ELSE 0]

Copy ==
    LET coin == IF params.coin_configuration = Null
                THEN [ticker |-> APT, decimals |-> AptDecimals]
                ELSE params.coin_configuration
    IN  [initialized |-> TRUE, ticker |-> coin.ticker, decimals |-> coin.decimals,
         amount |-> params.amount, fee |-> params.fee_amount,
         recipient |-> Recipient(params.destination_address)]

\* The globals are zeroed after the copy is put in its place, not before.
ZeroedLast ==
    [initialized |-> FALSE, ticker |-> Null, decimals |-> AptDecimals,
     amount |-> 0, fee |-> 0, recipient |-> ZeroAddress]

\* The globals are zeroed, then the copy is committed.
Committed == Copy

RefuseParameters ==
    /\ stage = "called"
    /\ Refused
    /\ stage' = "returned"
    /\ outcome' = "refused"
    /\ UNCHANGED <<params, G_swap_validated, transaction>>

CopyParameters ==
    /\ stage = "called"
    /\ ~Refused
    /\ G_swap_validated' = Committed
    /\ stage' = "copied"
    /\ UNCHANGED <<params, outcome, transaction>>

-----------------------------------------------------------------------------
(* swap_check_validity *)

\* print_amount does not return for the largest amounts (PrintableAmount); here
\* such an amount is one that cannot be printed, so the check fails where the
\* device hangs.  Neither signs.
ValidAmount(amount) ==
    /\ amount = G_swap_validated.amount
    /\ <<amount, G_swap_validated.decimals>> \in Printable

GasFee(t) == (t.gas_unit_price * t.max_gas_amount) % U64

\* The check of the recipient forgotten.
ValidButForRecipient(t) ==
    /\ G_swap_validated.initialized
    /\ t.tx_variant = "TX_RAW"
    /\ t.payload_variant = "PAYLOAD_ENTRY_FUNCTION"
    /\ t.known_type \in TransferTypes
    /\ ValidAmount(t.amount)
    /\ GasFee(t) = G_swap_validated.fee

Valid(t) ==
    /\ G_swap_validated.initialized
    /\ t.tx_variant = "TX_RAW"
    /\ t.payload_variant = "PAYLOAD_ENTRY_FUNCTION"
    /\ t.known_type \in TransferTypes
    /\ ValidAmount(t.amount)
    /\ GasFee(t) = G_swap_validated.fee
    /\ t.receiver = G_swap_validated.recipient

Return(result) ==
    /\ stage' = "returned"
    /\ outcome' = result
    /\ UNCHANGED <<params, G_swap_validated>>

SignTransaction ==
    /\ stage = "copied"
    /\ \E t \in Transactions \union OtherRequests :
        /\ Valid(t)
        /\ transaction' = t
    /\ Return("signed")

RejectTransaction ==
    /\ stage = "copied"
    /\ \E t \in Transactions \union OtherRequests :
        /\ ~Valid(t)
        /\ transaction' = t
    /\ Return("SW_SWAP_CHECKING_FAIL")

Init ==
    /\ params \in Parameters
    /\ G_swap_validated \in Garbage
    /\ stage = "called"
    /\ outcome = "none"
    /\ transaction = << >>

Next == RefuseParameters \/ CopyParameters \/ SignTransaction \/ RejectTransaction

Spec == Init /\ [][Next]_vars

-----------------------------------------------------------------------------
(* Properties *)

Agreed == params
Signed == outcome = "signed"

\* A session keeps its types; what is taken over is marked as initialized, so
\* garbage that the Exchange app left in the memory is never checked against.
TypeOK ==
    /\ params \in Parameters
    /\ G_swap_validated \in Validated
    /\ stage \in {"called", "copied", "returned"}
    /\ outcome \in {"none", "refused", "signed", "SW_SWAP_CHECKING_FAIL"}
    /\ stage = "copied" => G_swap_validated.initialized

\* What is signed in a swap is a transfer of the agreed amount, its fee is the
\* agreed one in 64 bits, and it goes to the agreed destination.  A
\* destination that can only be read in part is only logged
\* (handle_swap_sign_transaction.c:91): the coins then go to the bytes that
\* were read, followed by zeros, and never to anything else.
SignedIsAgreed ==
    Signed =>
        /\ transaction.known_type \in TransferTypes
        /\ transaction.amount = Agreed.amount
        /\ GasFee(transaction) = Agreed.fee_amount
        /\ LET destination == Agreed.destination_address
           IN  IF WellFormed(destination)
               THEN transaction.receiver = destination.address
               ELSE \A i \in 1 .. ADDRESS_LEN :
                        transaction.receiver[i] =
                            IF i <= destination.parsed THEN destination.address[i] ELSE 0

\* The transaction the user has agreed to is not refused: a refusal means
\* that something differs, that the amount cannot be printed, or that the
\* destination was not an address.
AgreedIsNotRejected ==
    outcome = "SW_SWAP_CHECKING_FAIL" =>
        \/ transaction \in OtherRequests
        \/ transaction.amount # Agreed.amount
        \/ GasFee(transaction) # Agreed.fee_amount
        \/ transaction.receiver # Agreed.destination_address.address
        \/ ~WellFormed(Agreed.destination_address)
        \/ <<transaction.amount, G_swap_validated.decimals>> \notin Printable

\* swap_check_validity, "Validates that the transaction parameters saved in
\* the app memory are the same as the ones in ... G_context": the ticker, too,
\* is a saved parameter, so what is signed moves the agreed coin.
SignedCoinIsAgreed ==
    Signed => transaction.coin = G_swap_validated.ticker
=============================================================================
