------------------------------- MODULE Review -------------------------------
(***************************************************************************)
(* The review of a transaction: what ui_prepare_transaction and the        *)
(* functions below it write into the text buffers, and which of the buffers*)
(* the page then shows, on the Nano and on the touch screens.              *)
(*                                                                         *)
(* The module continues TxParser: what the parser leaves in the transaction*)
(* is what is formatted.  A text is not put together character by          *)
(* character: it is the fields of the request it was made from, the coin it*)
(* names to the reader if it names one, and the greatest length it can     *)
(* have.  The buffers are globals and keep their texts between requests.   *)
(*                                                                         *)
(* Messages have no texts of this kind; their pages are in AptosApp, and so*)
(* is what the gate, the callbacks and the user make of a page.            *)
(***************************************************************************)
EXTENDS TxParser

-----------------------------------------------------------------------------
(* Coins *)

Coin(address, module_name, name) ==
    [address |-> address, module_name |-> module_name, name |-> name]

\* A fungible asset is named by its address alone.
Asset(address) == Coin(address, NoName, NoName)

AptosCoin == Coin("0x1", AptosCoinModule, AptosCoinName)
NoCoin == Asset("none")

\* TOKEN_MAPPING: the coins with a ticker.  One of those that are listed, and
\* one asset, stand for all.
ListedName == Name("other", 4)
TOKEN_MAPPING == {AptosCoin, Coin("listed", ListedName, ListedName), Asset("listed")}

\* Tickers of the coins: "APT", and "APARTMENT", the longest of the table.
TickerLen(coin) == IF coin = AptosCoin THEN 3 ELSE 9

\* The ticker is looked up by the account that has published the coin.
TokenInfoOfAccount(coin) == {entry \in TOKEN_MAPPING : entry.address = coin.address}

\* toupper of every letter.
Upper(name) == [name EXCEPT !.text = IF @ = "other" THEN "OTHER" ELSE @]

\* _strcasecmp of two texts: addresses are digits, and names have a case.
SameInAnyCase(coin, entry) ==
    /\ coin.address = entry.address
    /\ Upper(coin.module_name) = Upper(entry.module_name)
    /\ Upper(coin.name) = Upper(entry.name)

\* get_token_info compares the texts of coins.  The text of a coin at 0x1 other
\* than AptosCoin begins with 0x01 and is in no entry; every entry is shorter
\* than g_struct, so a text that was cut is none of them.
TokenInfo(coin) == {entry \in TOKEN_MAPPING : SameInAnyCase(coin, entry)}

\* memcmp with the length of the name itself: a name that `full' begins with is
\* taken for it.  The empty name stands for those that are shorter than `full'.
Begins(name, full) == name = full \/ name.len = 0

is_coin_type_aptos(coin) ==
    /\ Begins(coin.name, AptosCoinName)
    /\ Begins(coin.module_name, AptosCoinModule)

-----------------------------------------------------------------------------
(* Texts *)

Buffers == {"g_tx_type", "g_function", "g_struct", "g_address", "g_amount", "g_gas_fee"}

\* g_function as long as a coin type was before tickers: too short.
RoomOfMapping ==
    [g_tx_type |-> 60, g_function |-> 100, g_struct |-> 120, g_address |-> 67,
     g_amount |-> 30, g_gas_fee |-> 30]

\* The sizes of the buffers; a text needs one byte more than its length.
Room ==
    [g_tx_type |-> 60, g_function |-> 120, g_struct |-> 120, g_address |-> 67,
     g_amount |-> 30, g_gas_fee |-> 30]

TextOf(fields, coin, len) == [of |-> fields, coin |-> coin, len |-> len]

\* What another request has left in a buffer.
Leftover == TextOf({"another request"}, NoCoin, 0)

Decimals == 8
\* The longest text format_fpu64 makes of 64 bits: 184467440737.09551615.  With
\* 30 bytes to write to it does not fail, nor does format_prefixed_hex with 67,
\* so the errors that the prepare functions answer do not occur.
NumberLen == 12 + 1 + Decimals

\* "0x" and two digits a byte: the bytes of 0x1 that are shown are one.
HexLen(bytes) == 2 + 2 * bytes
AddressTextLen(address) == HexLen(IF address = "0x1" THEN 1 ELSE ADDRESS_LEN)
PathLen(address_len, name, other) == address_len + 2 + name.len + 2 + other.len

-----------------------------------------------------------------------------
(* The prepare functions: what each writes *)

CoinFields == {"ty.address", "ty.module_name", "ty.name"}
ModuleFields == {"module_id.address", "module_id.name", "function_name"}

GasFee == TextOf({"max_gas_amount", "gas_unit_price"}, NoCoin, 4 + NumberLen)

TxType(fields, len) == TextOf(fields, NoCoin, len)

Function ==
    TextOf(ModuleFields, NoCoin,
           PathLen(HexLen(ADDRESS_LEN), tx.module_name, tx.function_name))

Receiver == TextOf({"receiver"}, NoCoin, HexLen(ADDRESS_LEN))

\* An amount in APT, whatever the call.
AmountOfApt == TextOf({"amount"}, AptosCoin, 4 + NumberLen)

\* An amount behind the ticker of its coin, if the coin has one.
AmountOf(coin, coin_fields) ==
    IF TokenInfo(coin) = {}
    THEN TextOf({"amount"}, NoCoin, NumberLen)
    ELSE LET entry == CHOOSE entry \in TokenInfo(coin) : TRUE IN
         TextOf({"amount"} \union coin_fields, entry, TickerLen(entry) + 1 + NumberLen)

\* The coin type as it is written out.
CoinText ==
    IF is_coin_type_aptos(tx.coin) THEN AptosCoin ELSE tx.coin
CoinType ==
    TextOf(CoinFields, CoinText,
           IF CoinText = AptosCoin THEN 26
           ELSE PathLen(AddressTextLen(tx.coin.address), tx.coin.module_name, tx.coin.name))

AccountTransferTexts ==
    [g_tx_type |-> TxType({"function_name"}, 12), g_function |-> Function,
     g_address |-> Receiver, g_amount |-> AmountOfApt]

CoinTransferTexts ==
    [g_tx_type |-> TxType({"function_name"}, 13), g_function |-> Function,
     g_struct |-> CoinType, g_address |-> Receiver,
     g_amount |-> AmountOf(CoinText, CoinFields)]

\* The asset itself forgotten: only its ticker is prepared.
TickerOfFungible ==
    [g_tx_type |-> TxType({"function_name"}, 23), g_function |-> Function,
     g_address |-> Receiver,
     g_amount |-> AmountOf(Asset(tx.fungible_asset), {"fungible_asset.address"})]

FungibleTransferTexts ==
    [g_tx_type |-> TxType({"function_name"}, 23), g_function |-> Function,
     g_struct |-> TextOf({"fungible_asset.address"}, Asset(tx.fungible_asset),
                         AddressTextLen(tx.fungible_asset)),
     g_address |-> Receiver,
     g_amount |-> AmountOf(Asset(tx.fungible_asset), {"fungible_asset.address"})]

\* The pool is the receiver's field, and the stake is in APT.
DelegationTexts ==
    [g_tx_type |-> TxType({"function_name"}, 24), g_function |-> Function,
     g_address |-> Receiver, g_amount |-> AmountOfApt]

-----------------------------------------------------------------------------
(* The pages *)

\* A page: whether it is behind the blind signing gate, what its title says,
\* and the buffers it shows in their order.
Page(gated, title, shows) == [gated |-> gated, title |-> title, shows |-> shows]
NoPage == Page(TRUE, {}, << >>)

\* The touch screens have the name of the delegation in the title.
Pages(ui) ==
    [transaction |-> Page(TRUE, {}, << "g_tx_type", "g_gas_fee" >>),
     entry_function |-> Page(TRUE, {}, << "g_tx_type", "g_function", "g_gas_fee" >>),
     account_transfer |->
        Page(FALSE, {}, << "g_tx_type", "g_function", "g_address", "g_amount", "g_gas_fee" >>),
     listed_transfer |->
        Page(FALSE, {}, << "g_tx_type", "g_function", "g_amount", "g_address", "g_gas_fee" >>),
     unlisted_transfer |->
        Page(FALSE, {}, << "g_tx_type", "g_function", "g_struct", "g_amount", "g_address",
                           "g_gas_fee" >>),
     delegation |->
        IF ui = "bagl"
        THEN Page(FALSE, {}, << "g_tx_type", "g_function", "g_amount", "g_address",
                                "g_gas_fee" >>)
        ELSE Page(FALSE, {"module_id.name", "function_name"},
                  << "g_amount", "g_address", "g_gas_fee" >>)]

\* The list is taken to be complete.
ListedAlways(coin) == "listed_transfer"

\* g_is_token_listed, which is written with the amount and read right after.
TransferPage(coin) == IF TokenInfo(coin) = {} THEN "unlisted_transfer" ELSE "listed_transfer"

VARIABLES
    texts,  \* the buffers
    page    \* what is shown

reviewVars == <<texts, page>>

\* The state the handler leaves when the parser has failed is reviewed too.
Ended == stage = "done" /\ page = NoPage

\* sign_tx reviews what has been parsed; messages go another way.
Parsed == stage = "done" /\ status = "PARSING_OK" /\ page = NoPage

\* Every review writes the gas fee and its own texts; the others stay.
Show(name, prepared) ==
    /\ texts' = [b \in Buffers |->
                    IF b = "g_gas_fee" THEN GasFee
                    ELSE IF b \in DOMAIN prepared THEN prepared[b] ELSE texts[b]]
    /\ page' \in {Pages(ui)[name] : ui \in {"bagl", "nbgl"}}
    /\ UNCHANGED vars

Calls(types) ==
    /\ Parsed
    /\ tx.tx_variant = "TX_RAW"
    /\ tx.payload_variant = PAYLOAD_ENTRY_FUNCTION
    /\ tx.known_type \in types

\* A script or a multisig payload.
DisplayPayload ==
    /\ Parsed
    /\ tx.tx_variant = "TX_RAW"
    /\ tx.payload_variant # PAYLOAD_ENTRY_FUNCTION
    /\ Show("transaction", [g_tx_type |-> TxType({"payload_variant"}, 42)])

DisplayWithData ==
    /\ Parsed
    /\ tx.tx_variant = "TX_RAW_WITH_DATA"
    /\ Show("transaction", [g_tx_type |-> TxType({"prefix"}, 29)])

DisplayEntryFunction ==
    /\ Calls({"FUNC_UNKNOWN"})
    /\ Show("entry_function",
            [g_tx_type |-> TxType({"payload_variant"}, 13), g_function |-> Function])

DisplayAccountTransfer ==
    /\ Calls({"FUNC_APTOS_ACCOUNT_TRANSFER"})
    /\ Show("account_transfer", AccountTransferTexts)

DisplayCoinTransfer ==
    /\ Calls(CoinTypes)
    /\ Show(TransferPage(CoinText), CoinTransferTexts)

DisplayFungibleTransfer ==
    /\ Calls({"FUNC_FUNGIBLE_STORE_TRANSFER"})
    /\ Show(TransferPage(Asset(tx.fungible_asset)), FungibleTransferTexts)

DisplayDelegation ==
    /\ Calls(StakeTypes)
    /\ Show("delegation", DelegationTexts)

ReviewInit ==
    /\ Init
    /\ texts = [b \in Buffers |-> Leftover]
    /\ page = NoPage

ReviewNext ==
    \/ Next /\ UNCHANGED reviewVars
    \/ DisplayPayload \/ DisplayWithData \/ DisplayEntryFunction
    \/ DisplayAccountTransfer \/ DisplayCoinTransfer \/ DisplayFungibleTransfer
    \/ DisplayDelegation

ReviewSpec == ReviewInit /\ [][ReviewNext]_<<vars, reviewVars>>

-----------------------------------------------------------------------------
(* Properties *)

Shown == {page.shows[k] : k \in DOMAIN page.shows}
FieldsShown == page.title \union UNION {texts[b].of : b \in Shown}
CoinsNamed == {texts[b].coin : b \in Shown} \ {NoCoin}

\* A page that asks for a signature without the gate.
Clear == page # NoPage /\ ~page.gated

\* What a call carries: the bytes and the names that its grammar reads, without
\* the lengths.
ArgumentFields(type) ==
    {Arguments(type)[k].field :
        k \in {j \in DOMAIN Arguments(type) : Arguments(type)[j].kind # "number"}}

\* The coin that a call moves.
CoinMoved ==
    CASE tx.known_type \in CoinTypes -> tx.coin
      [] tx.known_type = "FUNC_FUNGIBLE_STORE_TRANSFER" -> Asset(tx.fungible_asset)
      [] OTHER -> AptosCoin

\* The buffers keep their types, and a page comes up only for a request that
\* the parser has accepted.
ReviewTypeOK ==
    /\ TypeOK
    /\ DOMAIN texts = Buffers
    /\ \A b \in Buffers : texts[b].len \in Nat
    /\ Shown \subseteq Buffers
    /\ page # NoPage => Accepted

\* A page shows this request and nothing else.  Six buffers are shared by seven
\* kinds of review on two kinds of screen, and the union of the arguments is
\* not cleared: a text left over from another request, or a field no parser
\* function has read, would look like any other.  A transaction with data is
\* not read at all; its review shows the fee of the zeroed structure.
ShownIsOfThisRequest ==
    page # NoPage =>
        FieldsShown \subseteq
            FieldsRead \union
            IF tx.tx_variant = "TX_RAW_WITH_DATA"
            THEN {"max_gas_amount", "gas_unit_price"} ELSE {}

\* Without the gate there is nothing to sign that is not shown: the call is one
\* that the app knows, and its page has everything the parser has read of its
\* arguments, the function and the fee.  Two things are left out on purpose:
\* the type argument of a fungible asset's transfer, and on the touch screens
\* the address of the module that a delegation calls.
ClearShowsArguments ==
    Clear =>
        /\ tx.known_type # "FUNC_UNKNOWN"
        /\ (ArgumentFields(tx.known_type) \union ModuleFields
                \union {"max_gas_amount", "gas_unit_price"})
             \ (CASE tx.known_type = "FUNC_FUNGIBLE_STORE_TRANSFER" -> CoinFields
                  [] tx.known_type \in StakeTypes -> {"module_id.address"}
                  [] OTHER -> {})
           \subseteq FieldsShown

\* snprintf cuts off silently.  Without the gate no text is cut, but for the
\* coin type, whose names may be of any length; and of an amount behind a long
\* ticker only decimals may go.
ClearTextIsWhole ==
    Clear =>
        \A b \in Shown \ {"g_struct"} :
            texts[b].len - (IF b = "g_amount" THEN Decimals ELSE 0) < Room[b]

\* A page without the gate names what is moved, but for what the code does not
\* compare.  A coin that has a ticker or is written out is the coin of the call
\* in any case of its letters, as the lookup has it, or is AptosCoin in a call of
\* a coin whose names begin its names: coins of one account are told apart, a
\* coin of other letters than an entry is unlisted, and an asset is no coin.
\* Where there is no ticker the coin is the one moved, to the letter.
NamedCoinIsMoved ==
    Clear =>
        /\ CoinsNamed # {}
        /\ \A coin \in CoinsNamed :
               \/ SameInAnyCase(coin, CoinMoved)
               \/ /\ coin = AptosCoin
                  /\ tx.known_type \in CoinTypes
                  /\ is_coin_type_aptos(tx.coin)
        /\ "g_struct" \in Shown => CoinsNamed = {CoinMoved}

\* common_display.c:436-437, "If the coin type is AptosCoin we ought specify
\* snprintf, as the coin address can have an arbitrary number of leading
\* zeros": the text of AptosCoin stands for AptosCoin.  The code does not look
\* at the address of the coin, and of its names only at as much as they have.
AptosCoinIsMoved == Clear /\ AptosCoin \in CoinsNamed => CoinMoved = AptosCoin
=============================================================================
