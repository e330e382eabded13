---------------------------- MODULE ReviewProofs ----------------------------
(***************************************************************************)
(* The review does not disturb the parser below it, so what TxParserProofs *)
(* has of the parser holds while pages come up; and the pages without the  *)
(* blind signing gate are those of known calls.                            *)
(***************************************************************************)
EXTENDS Review, TxParserProofs

-----------------------------------------------------------------------------
(* The parser below *)

\* A review writes its texts and its page and nothing of the parser.
LEMMA ReviewStepIsParserStep == [ReviewNext]_<<vars, reviewVars>> => [Next]_vars
BY DEF ReviewNext, DisplayPayload, DisplayWithData, DisplayEntryFunction,
       DisplayAccountTransfer, DisplayCoinTransfer, DisplayFungibleTransfer,
       DisplayDelegation, Show

\* What is reviewed is read by the parser: the review implements it.
THEOREM ReviewImplementsParser == ReviewSpec => Spec
BY ReviewStepIsParserStep, PTL DEF ReviewSpec, ReviewInit, Spec

\* What is shown comes from inside the request, a text from before its end, the
\* fee from behind the sender and the sequence number, and the simplest transfer
\* is read to the byte.
THEOREM ReviewReadsInside ==
    ReviewSpec => [](/\ ReadsInsideBuffer /\ TextIsTerminated
                     /\ HeaderApartFromFooter /\ TransferIsReadWhole)
BY ReviewImplementsParser, ParserReadsInside, ParserTerminatesTexts, ParserKeepsFooterApart,
   ParserReadsTransferWhole, PTL

-----------------------------------------------------------------------------
(* The page *)

KnownCall ==
    /\ tx.tx_variant = "TX_RAW"
    /\ tx.payload_variant = PAYLOAD_ENTRY_FUNCTION
    /\ tx.known_type # "FUNC_UNKNOWN"

CallOf(types) ==
    /\ tx.tx_variant = "TX_RAW"
    /\ tx.payload_variant = PAYLOAD_ENTRY_FUNCTION
    /\ tx.known_type \in types

PayloadTexts == [g_tx_type |-> TxType({"payload_variant"}, 42)]
WithDataTexts == [g_tx_type |-> TxType({"prefix"}, 29)]
EntryFunctionTexts ==
    [g_tx_type |-> TxType({"payload_variant"}, 13), g_function |-> Function]

\* A page of this kind with these texts, as they were prepared.
Made(p, t, name, prepared) ==
    /\ p \in {Pages(ui)[name] : ui \in {"bagl", "nbgl"}}
    /\ t["g_gas_fee"] = GasFee
    /\ \A b \in DOMAIN prepared : t[b] = prepared[b]
Up(name, prepared) == Made(page, texts, name, prepared)

\* What is up belongs to the request.
PageOfRequest ==
    \/ /\ tx.tx_variant = "TX_RAW" /\ tx.payload_variant # PAYLOAD_ENTRY_FUNCTION
       /\ Up("transaction", PayloadTexts)
    \/ tx.tx_variant = "TX_RAW_WITH_DATA" /\ Up("transaction", WithDataTexts)
    \/ CallOf({"FUNC_UNKNOWN"}) /\ Up("entry_function", EntryFunctionTexts)
    \/ CallOf({"FUNC_APTOS_ACCOUNT_TRANSFER"}) /\ Up("account_transfer", AccountTransferTexts)
    \/ CallOf(CoinTypes) /\ Up(TransferPage(CoinText), CoinTransferTexts)
    \/ /\ CallOf({"FUNC_FUNGIBLE_STORE_TRANSFER"})
       /\ Up(TransferPage(Asset(tx.fungible_asset)), FungibleTransferTexts)
    \/ CallOf(StakeTypes) /\ Up("delegation", DelegationTexts)

TextsType == DOMAIN texts = Buffers /\ \A b \in Buffers : texts[b].len \in Nat

\* When a page comes up the parser has nothing left to do, so the transaction
\* stays the one that the page was made from.
PageStays ==
    /\ TextsType
    /\ page # NoPage =>
         stage = "done" /\ pending = << >> /\ Accepted /\ PageOfRequest

LEMMA NoStepAfterDone == stage = "done" /\ pending = << >> => ~Next
BY DEF Next, TooLong, TakeWhole, BeginTransaction, ReadBytes, ReadNumber, UnexpectedNumber,
       ReadNameLength, BytesMissing, NumberMalformed, Reading, EndHeader, EndFunction,
       EndArguments

\* The texts are made from the transaction and from nothing else that changes.
LEMMA SameTexts ==
    ASSUME tx' = tx
    PROVE  /\ EntryFunctionTexts' = EntryFunctionTexts
           /\ AccountTransferTexts' = AccountTransferTexts
           /\ CoinTransferTexts' = CoinTransferTexts
           /\ FungibleTransferTexts' = FungibleTransferTexts
           /\ DelegationTexts' = DelegationTexts
           /\ CoinText' = CoinText
BY DEF EntryFunctionTexts, AccountTransferTexts, CoinTransferTexts, FungibleTransferTexts,
       DelegationTexts, Function, CoinType, CoinText

\* Texts of buffers other than that of the fee, each with a length.
Prepared(prepared) ==
    /\ DOMAIN prepared \subseteq Buffers \ {"g_gas_fee"}
    /\ \A b \in DOMAIN prepared : prepared[b].len \in Nat

LEMMA LengthsType ==
    /\ NumberLen \in Nat /\ NumberLen = 21
    /\ \A n \in Nat : HexLen(n) \in Nat
    /\ HexLen(ADDRESS_LEN) = 66
    /\ \A address : AddressTextLen(address) \in Nat
    /\ \A n \in Nat, name \in Names, other \in Names : PathLen(n, name, other) \in Nat
    /\ GasFee.len \in Nat
    /\ AmountOfApt.len \in Nat
    /\ Receiver.len \in Nat
    /\ \A coin, fields : AmountOf(coin, fields).len \in Nat
<1>1. NumberLen = 21
  BY DEF NumberLen, Decimals
<1>2. \A n \in Nat : HexLen(n) \in Nat
  BY DEF HexLen
<1>3. HexLen(ADDRESS_LEN) = 66
  BY DEF HexLen, ADDRESS_LEN
<1>4. \A address : AddressTextLen(address) \in Nat
  BY DEF AddressTextLen, HexLen, ADDRESS_LEN
<1>5. \A n \in Nat, name \in Names, other \in Names : PathLen(n, name, other) \in Nat
  BY DEF PathLen, Names
<1>6. GasFee.len \in Nat /\ AmountOfApt.len \in Nat /\ Receiver.len \in Nat
  BY <1>1, <1>3 DEF GasFee, AmountOfApt, Receiver, TextOf
<1>7. \A coin, fields : AmountOf(coin, fields).len \in Nat
  <2> TAKE coin, fields
  <2>1. \A entry : TickerLen(entry) \in Nat
    BY DEF TickerLen
  <2> QED
    BY <1>1, <2>1 DEF AmountOf, TextOf
<1> QED
  BY <1>1, <1>2, <1>3, <1>4, <1>5, <1>6, <1>7

LEMMA PreparedTexts ==
    ASSUME tx \in TxRecord
    PROVE  /\ Prepared(PayloadTexts)
           /\ Prepared(WithDataTexts)
           /\ Prepared(EntryFunctionTexts)
           /\ Prepared(AccountTransferTexts)
           /\ Prepared(CoinTransferTexts)
           /\ Prepared(FungibleTransferTexts)
           /\ Prepared(DelegationTexts)
<1>1. Function.len \in Nat
  <2>1. tx.module_name \in Names /\ tx.function_name \in Names
    BY DEF TxRecord
  <2> QED
    BY <2>1, LengthsType DEF Function, TextOf
<1>2. CoinType.len \in Nat
  <2>1. tx.coin.module_name \in Names /\ tx.coin.name \in Names
    BY DEF TxRecord
  <2> QED
    BY <2>1, LengthsType DEF CoinType, TextOf
<1>3. \A fields, len : TxType(fields, len).len = len
  BY DEF TxType, TextOf
<1>4. \A fields, coin, len : TextOf(fields, coin, len).len = len
  BY DEF TextOf
<1>5. Prepared(PayloadTexts) /\ Prepared(WithDataTexts)
  BY <1>3 DEF Prepared, PayloadTexts, WithDataTexts, Buffers
<1>6. Prepared(EntryFunctionTexts)
  BY <1>1, <1>3 DEF Prepared, EntryFunctionTexts, Buffers
<1>7. Prepared(AccountTransferTexts) /\ Prepared(DelegationTexts)
  BY <1>1, <1>3, LengthsType DEF Prepared, AccountTransferTexts, DelegationTexts, Buffers
<1>8. Prepared(CoinTransferTexts)
  BY <1>1, <1>2, <1>3, LengthsType DEF Prepared, CoinTransferTexts, Buffers
<1>9. Prepared(FungibleTransferTexts)
  BY <1>1, <1>3, <1>4, LengthsType DEF Prepared, FungibleTransferTexts, Buffers
<1> QED
  BY <1>5, <1>6, <1>7, <1>8, <1>9

LEMMA InitPageStays == ReviewInit => PageStays
<1> SUFFICES ASSUME ReviewInit PROVE PageStays
  OBVIOUS
<1>1. Leftover.len \in Nat
  BY DEF Leftover, TextOf
<1> QED
  BY <1>1 DEF ReviewInit, PageStays, TextsType

\* Whatever is prepared, what comes up is typed and the parser rests.
LEMMA ShowStays ==
    ASSUME IInv, PageStays, NEW name, NEW prepared, Prepared(prepared),
           Parsed, Show(name, prepared)
    PROVE  /\ TextsType' /\ Made(page', texts', name, prepared)
           /\ stage' = "done" /\ pending' = << >> /\ Accepted'
           /\ tx' = tx
<1>1. /\ DOMAIN texts' = Buffers
      /\ \A b \in Buffers :
            texts'[b] = IF b = "g_gas_fee" THEN GasFee
                        ELSE IF b \in DOMAIN prepared THEN prepared[b] ELSE texts[b]
      /\ page' \in {Pages(ui)[name] : ui \in {"bagl", "nbgl"}}
      /\ UNCHANGED <<tx, stage, pending, status>>
  BY DEF Show, vars
<1>2. TextsType'
  BY <1>1, LengthsType DEF TextsType, PageStays, Prepared
<1>3. Made(page', texts', name, prepared)
  BY <1>1 DEF Made, Prepared, Buffers
<1>4. stage' = "done" /\ pending' = << >> /\ Accepted'
  BY <1>1 DEF Parsed, IInv, PendingOfStage, Accepted
<1> QED
  BY <1>1, <1>2, <1>3, <1>4

LEMMA NextPageStays ==
    IInv /\ PageStays /\ [ReviewNext]_<<vars, reviewVars>> => PageStays'
<1> SUFFICES ASSUME IInv, PageStays, [ReviewNext]_<<vars, reviewVars>> PROVE PageStays'
  OBVIOUS
<1>1. CASE Next /\ UNCHANGED reviewVars
  BY <1>1, NoStepAfterDone DEF PageStays, TextsType, reviewVars
<1>2. tx \in TxRecord
  BY DEF IInv, TransactionOfStage
<1>3. CASE DisplayPayload
  <2>1. /\ Show("transaction", PayloadTexts) /\ Parsed
        /\ tx.tx_variant = "TX_RAW" /\ tx.payload_variant # PAYLOAD_ENTRY_FUNCTION
    BY <1>3 DEF DisplayPayload, PayloadTexts
  <2> QED
    BY <1>2, <2>1, PreparedTexts, ShowStays DEF PageStays, PageOfRequest, Up, PayloadTexts
<1>4. CASE DisplayWithData
  <2>1. Show("transaction", WithDataTexts) /\ Parsed /\ tx.tx_variant = "TX_RAW_WITH_DATA"
    BY <1>4 DEF DisplayWithData, WithDataTexts
  <2> QED
    BY <1>2, <2>1, PreparedTexts, ShowStays DEF PageStays, PageOfRequest, Up, WithDataTexts
<1>5. CASE DisplayEntryFunction
  <2>1. Show("entry_function", EntryFunctionTexts) /\ Parsed /\ CallOf({"FUNC_UNKNOWN"})
    BY <1>5 DEF DisplayEntryFunction, Calls, CallOf, EntryFunctionTexts
  <2>2. /\ TextsType' /\ Made(page', texts', "entry_function", EntryFunctionTexts)
        /\ stage' = "done" /\ pending' = << >> /\ Accepted' /\ tx' = tx
    BY <1>2, <2>1, PreparedTexts, ShowStays
  <2>3. CallOf({"FUNC_UNKNOWN"})' /\ Up("entry_function", EntryFunctionTexts)'
    BY <2>1, <2>2, SameTexts DEF CallOf, Up
  <2> QED
    BY <2>2, <2>3 DEF PageStays, PageOfRequest
<1>6. CASE DisplayAccountTransfer
  <2>1. Show("account_transfer", AccountTransferTexts) /\ Parsed /\ CallOf({"FUNC_APTOS_ACCOUNT_TRANSFER"})
    BY <1>6 DEF DisplayAccountTransfer, Calls, CallOf
  <2>2. /\ TextsType' /\ Made(page', texts', "account_transfer", AccountTransferTexts)
        /\ stage' = "done" /\ pending' = << >> /\ Accepted' /\ tx' = tx
    BY <1>2, <2>1, PreparedTexts, ShowStays
  <2>3. CallOf({"FUNC_APTOS_ACCOUNT_TRANSFER"})' /\ Up("account_transfer", AccountTransferTexts)'
    BY <2>1, <2>2, SameTexts DEF CallOf, Up
  <2> QED
    BY <2>2, <2>3 DEF PageStays, PageOfRequest
<1>7. CASE DisplayCoinTransfer
  <2>1. Show(TransferPage(CoinText), CoinTransferTexts) /\ Parsed /\ CallOf(CoinTypes)
    BY <1>7 DEF DisplayCoinTransfer, Calls, CallOf
  <2>2. /\ TextsType' /\ Made(page', texts', TransferPage(CoinText), CoinTransferTexts)
        /\ stage' = "done" /\ pending' = << >> /\ Accepted' /\ tx' = tx
    BY <1>2, <2>1, PreparedTexts, ShowStays
  <2>3. CallOf(CoinTypes)' /\ Up(TransferPage(CoinText), CoinTransferTexts)'
    BY <2>1, <2>2, SameTexts DEF CallOf, Up
  <2> QED
    BY <2>2, <2>3 DEF PageStays, PageOfRequest
<1>8. CASE DisplayFungibleTransfer
  <2>1. Show(TransferPage(Asset(tx.fungible_asset)), FungibleTransferTexts) /\ Parsed /\ CallOf({"FUNC_FUNGIBLE_STORE_TRANSFER"})
    BY <1>8 DEF DisplayFungibleTransfer, Calls, CallOf
  <2>2. /\ TextsType' /\ Made(page', texts', TransferPage(Asset(tx.fungible_asset)), FungibleTransferTexts)
        /\ stage' = "done" /\ pending' = << >> /\ Accepted' /\ tx' = tx
    BY <1>2, <2>1, PreparedTexts, ShowStays
  <2>3. CallOf({"FUNC_FUNGIBLE_STORE_TRANSFER"})' /\ Up(TransferPage(Asset(tx.fungible_asset)), FungibleTransferTexts)'
    BY <2>1, <2>2, SameTexts DEF CallOf, Up
  <2> QED
    BY <2>2, <2>3 DEF PageStays, PageOfRequest
<1>9. CASE DisplayDelegation
  <2>1. Show("delegation", DelegationTexts) /\ Parsed /\ CallOf(StakeTypes)
    BY <1>9 DEF DisplayDelegation, Calls, CallOf
  <2>2. /\ TextsType' /\ Made(page', texts', "delegation", DelegationTexts)
        /\ stage' = "done" /\ pending' = << >> /\ Accepted' /\ tx' = tx
    BY <1>2, <2>1, PreparedTexts, ShowStays
  <2>3. CallOf(StakeTypes)' /\ Up("delegation", DelegationTexts)'
    BY <2>1, <2>2, SameTexts DEF CallOf, Up
  <2> QED
    BY <2>2, <2>3 DEF PageStays, PageOfRequest
<1>10. CASE UNCHANGED <<vars, reviewVars>>
  BY <1>10, SameTexts DEF vars, reviewVars, PageStays, TextsType, PageOfRequest, Up, CallOf,
     PayloadTexts, WithDataTexts, Accepted
<1> QED
  BY <1>1, <1>3, <1>4, <1>5, <1>6, <1>7, <1>8, <1>9, <1>10 DEF ReviewNext

-----------------------------------------------------------------------------
(* What the pages show *)

ShownBy(p) == {p.shows[k] : k \in DOMAIN p.shows}

LEMMA PagesShow ==
    ASSUME NEW ui
    PROVE  /\ Pages(ui)["transaction"].gated = TRUE
           /\ Pages(ui)["transaction"].title = {}
           /\ ShownBy(Pages(ui)["transaction"]) = {"g_tx_type", "g_gas_fee"}
           /\ Pages(ui)["entry_function"].gated = TRUE
           /\ Pages(ui)["entry_function"].title = {}
           /\ ShownBy(Pages(ui)["entry_function"]) = {"g_tx_type", "g_function", "g_gas_fee"}
           /\ \A name \in {"account_transfer", "listed_transfer", "unlisted_transfer"} :
                Pages(ui)[name].title = {} /\ Pages(ui)[name].gated = FALSE
           /\ ShownBy(Pages(ui)["account_transfer"]) =
                {"g_tx_type", "g_function", "g_amount", "g_address", "g_gas_fee"}
           /\ ShownBy(Pages(ui)["listed_transfer"]) =
                {"g_tx_type", "g_function", "g_amount", "g_address", "g_gas_fee"}
           /\ ShownBy(Pages(ui)["unlisted_transfer"]) =
                {"g_tx_type", "g_function", "g_struct", "g_amount", "g_address", "g_gas_fee"}
           /\ Pages(ui)["delegation"].gated = FALSE
           /\ \/ /\ Pages(ui)["delegation"].title = {}
                 /\ ShownBy(Pages(ui)["delegation"]) =
                      {"g_tx_type", "g_function", "g_amount", "g_address", "g_gas_fee"}
              \/ /\ Pages(ui)["delegation"].title = {"module_id.name", "function_name"}
                 /\ ShownBy(Pages(ui)["delegation"]) = {"g_amount", "g_address", "g_gas_fee"}
<1>1. \A p, a, b : p.shows = << a, b >> => ShownBy(p) = {a, b}
  BY DEF ShownBy
<1>2. \A p, a, b, c : p.shows = << a, b, c >> => ShownBy(p) = {a, b, c}
  BY DEF ShownBy
<1>3. \A p, a, b, c, d, e : p.shows = << a, b, c, d, e >> => ShownBy(p) = {a, b, c, d, e}
  BY DEF ShownBy
<1>4. \A p, a, b, c, d, e, f :
         p.shows = << a, b, c, d, e, f >> => ShownBy(p) = {a, b, c, d, e, f}
  BY DEF ShownBy
<1>5. /\ Pages(ui)["transaction"].gated = TRUE
      /\ Pages(ui)["transaction"].title = {}
      /\ Pages(ui)["transaction"].shows = << "g_tx_type", "g_gas_fee" >>
  BY DEF Pages, Page
<1>6. /\ Pages(ui)["entry_function"].gated = TRUE
      /\ Pages(ui)["entry_function"].title = {}
      /\ Pages(ui)["entry_function"].shows = << "g_tx_type", "g_function", "g_gas_fee" >>
  BY DEF Pages, Page
<1>7. \A name \in {"account_transfer", "listed_transfer", "unlisted_transfer"} :
          Pages(ui)[name].title = {} /\ Pages(ui)[name].gated = FALSE
  BY DEF Pages, Page
<1>8. /\ Pages(ui)["account_transfer"].shows =
            << "g_tx_type", "g_function", "g_address", "g_amount", "g_gas_fee" >>
      /\ Pages(ui)["listed_transfer"].shows =
            << "g_tx_type", "g_function", "g_amount", "g_address", "g_gas_fee" >>
      /\ Pages(ui)["unlisted_transfer"].shows =
            << "g_tx_type", "g_function", "g_struct", "g_amount", "g_address", "g_gas_fee" >>
  BY DEF Pages, Page
<1>9. /\ Pages(ui)["delegation"].gated = FALSE
      /\ \/ /\ Pages(ui)["delegation"].title = {}
            /\ Pages(ui)["delegation"].shows =
                 << "g_tx_type", "g_function", "g_amount", "g_address", "g_gas_fee" >>
         \/ /\ Pages(ui)["delegation"].title = {"module_id.name", "function_name"}
            /\ Pages(ui)["delegation"].shows = << "g_amount", "g_address", "g_gas_fee" >>
  BY DEF Pages, Page
<1>10. /\ ShownBy(Pages(ui)["transaction"]) = {"g_tx_type", "g_gas_fee"}
       /\ ShownBy(Pages(ui)["entry_function"]) = {"g_tx_type", "g_function", "g_gas_fee"}
  BY <1>1, <1>2, <1>5, <1>6
<1>11. /\ ShownBy(Pages(ui)["account_transfer"]) =
            {"g_tx_type", "g_function", "g_amount", "g_address", "g_gas_fee"}
       /\ ShownBy(Pages(ui)["listed_transfer"]) =
            {"g_tx_type", "g_function", "g_amount", "g_address", "g_gas_fee"}
       /\ ShownBy(Pages(ui)["unlisted_transfer"]) =
            {"g_tx_type", "g_function", "g_struct", "g_amount", "g_address", "g_gas_fee"}
  BY <1>3, <1>4, <1>8
<1>12. \/ /\ Pages(ui)["delegation"].title = {}
          /\ ShownBy(Pages(ui)["delegation"]) =
               {"g_tx_type", "g_function", "g_amount", "g_address", "g_gas_fee"}
       \/ /\ Pages(ui)["delegation"].title = {"module_id.name", "function_name"}
          /\ ShownBy(Pages(ui)["delegation"]) = {"g_amount", "g_address", "g_gas_fee"}
  BY <1>2, <1>3, <1>9
<1> QED
  BY <1>5, <1>6, <1>7, <1>9, <1>10, <1>11, <1>12

\* A coin is the same as itself, in any order of asking, and no other coin that
\* is listed is AptosCoin.
LEMMA CoinsInAnyCase ==
    /\ \A a : SameInAnyCase(a, a)
    /\ \A a, b : SameInAnyCase(a, b) => SameInAnyCase(b, a)
    /\ \A entry \in TOKEN_MAPPING : SameInAnyCase(AptosCoin, entry) => entry = AptosCoin
    /\ TokenInfo(AptosCoin) # {}
<1>1. \A a : SameInAnyCase(a, a)
  BY DEF SameInAnyCase
<1>2. \A a, b : SameInAnyCase(a, b) => SameInAnyCase(b, a)
  BY DEF SameInAnyCase
<1>3. AptosCoin.address = "0x1" /\ AptosCoin \in TOKEN_MAPPING
  BY DEF AptosCoin, Coin, TOKEN_MAPPING
<1>4. \A entry \in TOKEN_MAPPING : entry.address = "0x1" => entry = AptosCoin
  BY DEF TOKEN_MAPPING, Asset, Coin
<1>5. \A entry \in TOKEN_MAPPING : SameInAnyCase(AptosCoin, entry) => entry = AptosCoin
  BY <1>3, <1>4 DEF SameInAnyCase
<1>6. AptosCoin \in TokenInfo(AptosCoin)
  BY <1>1, <1>3 DEF TokenInfo
<1> QED
  BY <1>1, <1>2, <1>5, <1>6

\* The amount stands behind the ticker of an entry that is the coin, if the case
\* of letters is ignored.
LEMMA AmountOfCoin ==
    ASSUME NEW coin, NEW fields
    PROVE  /\ TokenInfo(coin) = {} =>
                AmountOf(coin, fields) = TextOf({"amount"}, NoCoin, NumberLen)
           /\ TokenInfo(coin) # {} =>
                \E entry \in TOKEN_MAPPING :
                    /\ SameInAnyCase(coin, entry)
                    /\ AmountOf(coin, fields) =
                         TextOf({"amount"} \union fields, entry, TickerLen(entry) + 1 + NumberLen)
<1>1. TokenInfo(coin) = {} =>
          AmountOf(coin, fields) = TextOf({"amount"}, NoCoin, NumberLen)
  BY DEF AmountOf
<1>2. ASSUME TokenInfo(coin) # {}
      PROVE  \E entry \in TOKEN_MAPPING :
                    /\ SameInAnyCase(coin, entry)
                    /\ AmountOf(coin, fields) =
                         TextOf({"amount"} \union fields, entry, TickerLen(entry) + 1 + NumberLen)
  <2> DEFINE found == CHOOSE entry \in TokenInfo(coin) : TRUE
  <2>1. found \in TokenInfo(coin)
    BY <1>2
  <2>2. AmountOf(coin, fields) =
            TextOf({"amount"} \union fields, found, TickerLen(found) + 1 + NumberLen)
    BY <1>2, Zenon DEF AmountOf
  <2>3. found \in TOKEN_MAPPING /\ SameInAnyCase(coin, found)
    BY <2>1 DEF TokenInfo
  <2> HIDE DEF found
  <2> QED
    BY <2>2, <2>3
<1> QED
  BY <1>1, <1>2

\* A coin at an address that has been read, and one with a ticker, has a name.
LEMMA CoinsHaveNames ==
    /\ \A coin \in TOKEN_MAPPING : coin # NoCoin
    /\ \A coin : coin.address \in CoinAddresses => coin # NoCoin
    /\ \A address \in CoinAddresses : Asset(address) # NoCoin
    /\ AptosCoin # NoCoin
<1>1. NoCoin.address = "none" /\ \A address : Asset(address).address = address
  BY DEF NoCoin, Asset, Coin
<1>2. \A coin \in TOKEN_MAPPING : coin.address \in CoinAddresses
  BY DEF TOKEN_MAPPING, AptosCoin, Coin, Asset, CoinAddresses
<1>3. \A address \in CoinAddresses : address # "none"
  BY DEF CoinAddresses
<1>4. AptosCoin \in TOKEN_MAPPING
  BY DEF TOKEN_MAPPING
<1> QED
  BY <1>1, <1>2, <1>3, <1>4

\* The names of a call that the app knows are no longer than "delegation_pool"
\* and "reactivate_stake".
LEMMA KnownNames ==
    ASSUME NEW t, KnownType(t) # "FUNC_UNKNOWN"
    PROVE  t.module_name.len + t.function_name.len \in 0 .. 31
<1>1. \/ t.module_name = Name("aptos_account", 13) /\ t.function_name = Name("transfer", 8)
      \/ t.module_name = Name("coin", 4) /\ t.function_name = Name("transfer", 8)
      \/ t.module_name = Name("aptos_account", 13) /\ t.function_name = Name("transfer_coins", 14)
      \/ /\ t.module_name = Name("primary_fungible_store", 22)
         /\ t.function_name = Name("transfer", 8)
      \/ t.module_name = Name("delegation_pool", 15) /\ t.function_name = Name("add_stake", 9)
      \/ t.module_name = Name("delegation_pool", 15) /\ t.function_name = Name("unlock", 6)
      \/ /\ t.module_name = Name("delegation_pool", 15)
         /\ t.function_name = Name("reactivate_stake", 16)
      \/ t.module_name = Name("delegation_pool", 15) /\ t.function_name = Name("withdraw", 8)
  BY Zenon DEF KnownType
<1>2. \A text, len : Name(text, len).len = len
  BY DEF Name
<1>3. \/ t.module_name.len = 13 /\ t.function_name.len = 8
      \/ t.module_name.len = 4 /\ t.function_name.len = 8
      \/ t.module_name.len = 13 /\ t.function_name.len = 14
      \/ t.module_name.len = 22 /\ t.function_name.len = 8
      \/ t.module_name.len = 15 /\ t.function_name.len \in {9, 6, 16, 8}
  BY <1>1, <1>2
<1> QED
  BY <1>3

\* What a page of so many buffers shows and names.
LEMMA ShownMembers ==
    /\ \A x : x \in FieldsShown <=> x \in page.title \/ \E n \in Shown : x \in texts[n].of
    /\ \A x : x \in CoinsNamed <=> x # NoCoin /\ \E n \in Shown : x = texts[n].coin
BY DEF FieldsShown, CoinsNamed

FeeFields == {"max_gas_amount", "gas_unit_price"}

\* No text that is shown is cut, but for the coin type.
Whole ==
    \A b \in Shown \ {"g_struct"} :
        texts[b].len - (IF b = "g_amount" THEN Decimals ELSE 0) < Room[b]

\* The texts of every known call.
LEMMA CommonTexts ==
    ASSUME IInv, Covered, Accepted, KnownCall
    PROVE  /\ GasFee = TextOf(FeeFields, NoCoin, 25)
           /\ Function.of = FunctionFields /\ Function.coin = NoCoin
           /\ Function.len \in 0 .. 119
           /\ Receiver = TextOf({"receiver"}, NoCoin, 66)
           /\ AmountOfApt = TextOf({"amount"}, AptosCoin, 25)
           /\ \A fields, coin, len :
                /\ TextOf(fields, coin, len).of = fields
                /\ TextOf(fields, coin, len).coin = coin
                /\ TextOf(fields, coin, len).len = len
           /\ \A fields, len : TxType(fields, len) = TextOf(fields, NoCoin, len)
<1>1. NumberLen = 21 /\ HexLen(ADDRESS_LEN) = 66
  BY LengthsType
<1>2. tx.known_type = KnownType(tx) /\ tx.known_type # "FUNC_UNKNOWN"
  BY DEF Covered, KnownCall
<1>3. /\ tx.module_name.len + tx.function_name.len \in 0 .. 31
      /\ tx.module_name.len \in Nat /\ tx.function_name.len \in Nat
  BY <1>2, KnownNames DEF IInv, TransactionOfStage, TxRecord, Names
<1>4. PathLen(HexLen(ADDRESS_LEN), tx.module_name, tx.function_name) \in 0 .. 119
  BY <1>1, <1>3 DEF PathLen
<1>5. GasFee = TextOf(FeeFields, NoCoin, 25) /\ AmountOfApt = TextOf({"amount"}, AptosCoin, 25)
  BY <1>1 DEF GasFee, FeeFields, AmountOfApt
<1>6. \A fields, coin, len :
          /\ TextOf(fields, coin, len).of = fields
          /\ TextOf(fields, coin, len).coin = coin
          /\ TextOf(fields, coin, len).len = len
  BY DEF TextOf
<1>7. /\ Function.of = FunctionFields /\ Function.coin = NoCoin
      /\ Function.len \in 0 .. 119
  BY <1>4, <1>6 DEF Function, ModuleFields, FunctionFields
<1>8. Receiver = TextOf({"receiver"}, NoCoin, 66)
  BY <1>1 DEF Receiver
<1> QED
  BY <1>5, <1>6, <1>7, <1>8 DEF TxType

LEMMA AccountTransferPage ==
    ASSUME IInv, Covered, Accepted, KnownCall, Up("account_transfer", AccountTransferTexts)
    PROVE  /\ Shown \subseteq Buffers
           /\ FieldsShown = FunctionFields \union {"receiver", "amount"} \union FeeFields
           /\ Whole
           /\ CoinsNamed = {AptosCoin} /\ "g_struct" \notin Shown
<1>1. /\ page.title = {}
      /\ Shown = {"g_tx_type", "g_function", "g_amount", "g_address", "g_gas_fee"}
  <2>1. PICK ui : page = Pages(ui)["account_transfer"]
    BY DEF Up, Made
  <2>2. Shown = ShownBy(page)
    BY DEF Shown, ShownBy
  <2> QED
    BY <2>1, <2>2, PagesShow
<1>2. /\ texts["g_tx_type"] = TxType({"function_name"}, 12)
      /\ texts["g_function"] = Function
      /\ texts["g_amount"] = AmountOfApt
      /\ texts["g_address"] = Receiver
      /\ texts["g_gas_fee"] = GasFee
  BY DEF Up, Made, AccountTransferTexts
<1>3. /\ FieldsShown = page.title \union texts["g_tx_type"].of \union texts["g_function"].of
                          \union texts["g_amount"].of \union texts["g_address"].of
                          \union texts["g_gas_fee"].of
      /\ CoinsNamed = {texts["g_tx_type"].coin, texts["g_function"].coin, texts["g_amount"].coin,
                       texts["g_address"].coin, texts["g_gas_fee"].coin} \ {NoCoin}
  BY <1>1, ShownMembers
<1> HIDE DEF FieldsShown, CoinsNamed, Shown
<1>4. FieldsShown = FunctionFields \union {"receiver", "amount"} \union FeeFields
  BY <1>1, <1>2, <1>3, CommonTexts DEF FunctionFields
<1>5. CoinsNamed = {AptosCoin}
  BY <1>2, <1>3, CommonTexts, CoinsHaveNames
<1>6. Whole
  BY <1>1, <1>2, CommonTexts DEF Whole, Room, Decimals
<1> QED
  BY <1>1, <1>4, <1>5, <1>6 DEF Buffers

\* The page of a transfer names the coin, by its ticker if it is listed and else
\* by what it is called.
LEMMA PageOfTransfer ==
    ASSUME NEW coin, Up(TransferPage(coin), << >>)
    PROVE  /\ page.title = {} /\ page.gated = FALSE
           /\ TokenInfo(coin) = {} =>
                Shown = {"g_tx_type", "g_function", "g_struct", "g_amount", "g_address",
                         "g_gas_fee"}
           /\ TokenInfo(coin) # {} =>
                Shown = {"g_tx_type", "g_function", "g_amount", "g_address", "g_gas_fee"}
<1>1. PICK ui : page = Pages(ui)[TransferPage(coin)]
  BY DEF Up, Made
<1>2. Shown = ShownBy(page)
  BY DEF Shown, ShownBy
<1> QED
  BY <1>1, <1>2, PagesShow DEF TransferPage

\* The texts of a transfer of a coin or of an asset: `fields' say which it is.
LEMMA TransferPages ==
    ASSUME IInv, Covered, Accepted, KnownCall, NEW coin, NEW fields, NEW name, NEW len,
           coin # NoCoin, len \in Nat,
           Up(TransferPage(coin),
              [g_tx_type |-> TxType({"function_name"}, len), g_function |-> Function,
               g_struct |-> TextOf(fields, coin, name), g_address |-> Receiver,
               g_amount |-> AmountOf(coin, fields)]),
           len < 60
    PROVE  /\ Shown \subseteq Buffers
           /\ FieldsShown = FunctionFields \union {"receiver", "amount"} \union fields
                               \union FeeFields
           /\ Whole
           /\ TokenInfo(coin) = {} => CoinsNamed = {coin}
           /\ TokenInfo(coin) # {} =>
                /\ "g_struct" \notin Shown
                /\ \E entry \in TOKEN_MAPPING :
                      SameInAnyCase(coin, entry) /\ CoinsNamed = {entry}
<1>1. /\ page.title = {}
      /\ TokenInfo(coin) = {} =>
            Shown = {"g_tx_type", "g_function", "g_struct", "g_amount", "g_address", "g_gas_fee"}
      /\ TokenInfo(coin) # {} =>
            Shown = {"g_tx_type", "g_function", "g_amount", "g_address", "g_gas_fee"}
  <2>1. Up(TransferPage(coin), << >>)
    BY DEF Up, Made
  <2> QED
    BY <2>1, PageOfTransfer
<1>2. /\ texts["g_tx_type"] = TxType({"function_name"}, len)
      /\ texts["g_function"] = Function
      /\ texts["g_struct"] = TextOf(fields, coin, name)
      /\ texts["g_amount"] = AmountOf(coin, fields)
      /\ texts["g_address"] = Receiver
      /\ texts["g_gas_fee"] = GasFee
  BY DEF Up, Made
<1>3. NumberLen = 21 /\ \A entry : TickerLen(entry) \in 3 .. 9
  BY LengthsType DEF TickerLen
<1> HIDE DEF FieldsShown, CoinsNamed, Shown
<1>4. CASE TokenInfo(coin) = {}
  <2>1. texts["g_amount"] = TextOf({"amount"}, NoCoin, 21)
    BY <1>2, <1>3, <1>4, AmountOfCoin
  <2>2. /\ FieldsShown = page.title \union texts["g_tx_type"].of
                            \union texts["g_function"].of
                            \union texts["g_struct"].of
                            \union texts["g_amount"].of
                            \union texts["g_address"].of
                            \union texts["g_gas_fee"].of
        /\ CoinsNamed = {texts["g_tx_type"].coin,
                         texts["g_function"].coin,
                         texts["g_struct"].coin,
                         texts["g_amount"].coin,
                         texts["g_address"].coin,
                         texts["g_gas_fee"].coin} \ {NoCoin}
    BY <1>1, <1>4, ShownMembers
  <2>3. FieldsShown = FunctionFields \union {"receiver", "amount"} \union fields
                        \union FeeFields
    BY <1>1, <1>2, <2>1, <2>2, CommonTexts DEF FunctionFields
  <2>4. CoinsNamed = {coin}
    BY <1>2, <2>1, <2>2, CommonTexts
  <2>5. Whole
    BY <1>1, <1>2, <1>4, <2>1, CommonTexts DEF Whole, Room, Decimals
  <2> QED
    BY <1>1, <1>4, <2>3, <2>4, <2>5 DEF Buffers
<1>5. CASE TokenInfo(coin) # {}
  <2>1. PICK entry \in TOKEN_MAPPING :
          /\ SameInAnyCase(coin, entry)
          /\ texts["g_amount"] =
                TextOf({"amount"} \union fields, entry, TickerLen(entry) + 1 + 21)
    BY <1>2, <1>3, <1>5, AmountOfCoin
  <2>2. /\ FieldsShown = page.title \union texts["g_tx_type"].of
                            \union texts["g_function"].of
                            \union texts["g_amount"].of
                            \union texts["g_address"].of
                            \union texts["g_gas_fee"].of
        /\ CoinsNamed = {texts["g_tx_type"].coin,
                         texts["g_function"].coin,
                         texts["g_amount"].coin,
                         texts["g_address"].coin,
                         texts["g_gas_fee"].coin} \ {NoCoin}
    BY <1>1, <1>5, ShownMembers
  <2>3. FieldsShown = FunctionFields \union {"receiver", "amount"} \union fields
                        \union FeeFields
    BY <1>1, <1>2, <2>1, <2>2, CommonTexts DEF FunctionFields
  <2>4. CoinsNamed = {entry}
    BY <1>2, <2>1, <2>2, CommonTexts, CoinsHaveNames
  <2>5. Whole
    BY <1>1, <1>2, <1>3, <1>5, <2>1, CommonTexts DEF Whole, Room, Decimals
  <2>6. \E e \in TOKEN_MAPPING : SameInAnyCase(coin, e) /\ CoinsNamed = {e}
    BY <2>1, <2>4
  <2>7. Shown \subseteq Buffers /\ "g_struct" \notin Shown
    BY <1>1, <1>5 DEF Buffers
  <2> QED
    BY <1>5, <2>3, <2>5, <2>6, <2>7
<1> QED
  BY <1>4, <1>5

LEMMA DelegationPage ==
    ASSUME IInv, Covered, Accepted, KnownCall, Up("delegation", DelegationTexts)
    PROVE  /\ Shown \subseteq Buffers
           /\ {"module_id.name", "function_name", "receiver", "amount"} \union FeeFields
                \subseteq FieldsShown
           /\ FieldsShown \subseteq FunctionFields \union {"receiver", "amount"} \union FeeFields
           /\ Whole
           /\ CoinsNamed = {AptosCoin} /\ "g_struct" \notin Shown
<1>1. \/ /\ page.title = {}
         /\ Shown = {"g_tx_type", "g_function", "g_amount", "g_address", "g_gas_fee"}
      \/ /\ page.title = {"module_id.name", "function_name"}
         /\ Shown = {"g_amount", "g_address", "g_gas_fee"}
  <2>1. PICK ui : page = Pages(ui)["delegation"]
    BY DEF Up, Made
  <2>2. Shown = ShownBy(page)
    BY DEF Shown, ShownBy
  <2> QED
    BY <2>1, <2>2, PagesShow
<1>2. /\ texts["g_tx_type"] = TxType({"function_name"}, 24)
      /\ texts["g_function"] = Function
      /\ texts["g_amount"] = AmountOfApt
      /\ texts["g_address"] = Receiver
      /\ texts["g_gas_fee"] = GasFee
  BY DEF Up, Made, DelegationTexts
<1> HIDE DEF FieldsShown, CoinsNamed, Shown
<1>3. CASE /\ page.title = {}
           /\ Shown = {"g_tx_type", "g_function", "g_amount", "g_address", "g_gas_fee"}
  <2>1. /\ FieldsShown = page.title \union texts["g_tx_type"].of
                            \union texts["g_function"].of
                            \union texts["g_amount"].of
                            \union texts["g_address"].of
                            \union texts["g_gas_fee"].of
        /\ CoinsNamed = {texts["g_tx_type"].coin,
                         texts["g_function"].coin,
                         texts["g_amount"].coin,
                         texts["g_address"].coin,
                         texts["g_gas_fee"].coin} \ {NoCoin}
    BY <1>3, ShownMembers
  <2>2. FieldsShown = FunctionFields \union {"receiver", "amount"} \union FeeFields
    BY <1>2, <1>3, <2>1, CommonTexts DEF FunctionFields
  <2>3. CoinsNamed = {AptosCoin}
    BY <1>2, <2>1, CommonTexts, CoinsHaveNames
  <2> QED
    BY <1>2, <1>3, <2>2, <2>3, CommonTexts DEF Whole, Room, Decimals, Buffers, FunctionFields
<1>4. CASE /\ page.title = {"module_id.name", "function_name"}
           /\ Shown = {"g_amount", "g_address", "g_gas_fee"}
  <2>1. /\ FieldsShown = page.title \union texts["g_amount"].of
                            \union texts["g_address"].of
                            \union texts["g_gas_fee"].of
        /\ CoinsNamed = {texts["g_amount"].coin,
                         texts["g_address"].coin,
                         texts["g_gas_fee"].coin} \ {NoCoin}
    BY <1>4, ShownMembers
  <2>2. FieldsShown = {"module_id.name", "function_name", "receiver", "amount"} \union FeeFields
    BY <1>2, <1>4, <2>1, CommonTexts
  <2>3. CoinsNamed = {AptosCoin}
    BY <1>2, <2>1, CommonTexts, CoinsHaveNames
  <2> QED
    BY <1>2, <1>4, <2>2, <2>3, CommonTexts DEF Whole, Room, Decimals, Buffers, FunctionFields
<1> QED
  BY <1>1, <1>3, <1>4

\* Behind the gate there is the kind of the request, and the function if it
\* calls one.
LEMMA GatedPage ==
    ASSUME page # NoPage, PageOfRequest, ~KnownCall
    PROVE  /\ page.gated = TRUE
           /\ Shown \subseteq Buffers
           /\ \/ /\ tx.tx_variant = "TX_RAW"
                 /\ FieldsShown = {"payload_variant"} \union FeeFields
              \/ /\ tx.tx_variant = "TX_RAW_WITH_DATA"
                 /\ FieldsShown = {"prefix"} \union FeeFields
              \/ /\ CallOf({"FUNC_UNKNOWN"})
                 /\ FieldsShown = {"payload_variant"} \union FunctionFields \union FeeFields
<1>1. \/ /\ tx.tx_variant = "TX_RAW"
         /\ Up("transaction", PayloadTexts)
      \/ tx.tx_variant = "TX_RAW_WITH_DATA" /\ Up("transaction", WithDataTexts)
      \/ CallOf({"FUNC_UNKNOWN"}) /\ Up("entry_function", EntryFunctionTexts)
  BY DEF PageOfRequest, CallOf, KnownCall, CoinTypes, StakeTypes
<1>2. /\ GasFee.of = FeeFields /\ Function.of = FunctionFields
      /\ \A fields, len : TxType(fields, len).of = fields
  BY DEF GasFee, FeeFields, Function, ModuleFields, FunctionFields, TxType, TextOf
<1>3. Shown = ShownBy(page)
  BY DEF Shown, ShownBy
<1> HIDE DEF FieldsShown, Shown
<1>4. ASSUME NEW prepared, Up("transaction", prepared)
      PROVE  /\ page.gated = TRUE /\ page.title = {}
             /\ Shown = {"g_tx_type", "g_gas_fee"}
  <2>1. PICK ui : page = Pages(ui)["transaction"]
    BY <1>4 DEF Up, Made
  <2> QED
    BY <1>3, <2>1, PagesShow
<1>5. ASSUME NEW fields, NEW len, Up("transaction", [g_tx_type |-> TxType(fields, len)])
      PROVE  FieldsShown = fields \union FeeFields
  <2>1. texts["g_tx_type"].of = fields /\ texts["g_gas_fee"].of = FeeFields
    BY <1>2, <1>5 DEF Up, Made
  <2> QED
    BY <1>4, <1>5, <2>1, ShownMembers
<1>6. CASE CallOf({"FUNC_UNKNOWN"}) /\ Up("entry_function", EntryFunctionTexts)
  <2>1. PICK ui : page = Pages(ui)["entry_function"]
    BY <1>6 DEF Up, Made
  <2>2. /\ page.gated = TRUE /\ page.title = {}
        /\ Shown = {"g_tx_type", "g_function", "g_gas_fee"}
    BY <1>3, <2>1, PagesShow
  <2>3. /\ texts["g_tx_type"].of = {"payload_variant"}
        /\ texts["g_function"].of = FunctionFields
        /\ texts["g_gas_fee"].of = FeeFields
    BY <1>2, <1>6 DEF Up, Made, EntryFunctionTexts
  <2>4. FieldsShown = {"payload_variant"} \union FunctionFields \union FeeFields
    BY <2>2, <2>3, ShownMembers
  <2> QED
    BY <1>6, <2>2, <2>4 DEF Buffers
<1> QED
  BY <1>1, <1>4, <1>5, <1>6 DEF PayloadTexts, WithDataTexts, Buffers

\* A coin that a page may name.
NamesMoved(coin) ==
    \/ SameInAnyCase(coin, CoinMoved)
    \/ coin = AptosCoin /\ tx.known_type \in CoinTypes /\ is_coin_type_aptos(tx.coin)

\* What is on the page of a known call, whichever it is.
LEMMA KnownPage ==
    ASSUME IInv, Covered, Accepted, PageOfRequest, KnownCall
    PROVE  /\ Shown \subseteq Buffers
           /\ Whole
           /\ CoinsNamed # {}
           /\ \A coin \in CoinsNamed : NamesMoved(coin)
           /\ "g_struct" \in Shown => CoinsNamed = {CoinMoved}
           /\ FieldsShown \subseteq FunctionFields \union Carried(tx.known_type) \union FeeFields
           /\ FunctionFields \union Carried(tx.known_type) \union FeeFields
                \subseteq FieldsShown
                    \union (IF tx.known_type = "FUNC_FUNGIBLE_STORE_TRANSFER"
                            THEN CoinFields ELSE {})
                    \union (IF tx.known_type \in StakeTypes
                            THEN {"module_id.address"} ELSE {})
<1> DEFINE asset == Asset(tx.fungible_asset)
<1>1. \/ /\ tx.known_type = "FUNC_APTOS_ACCOUNT_TRANSFER"
         /\ Up("account_transfer", AccountTransferTexts)
      \/ tx.known_type \in CoinTypes /\ Up(TransferPage(CoinText), CoinTransferTexts)
      \/ /\ tx.known_type = "FUNC_FUNGIBLE_STORE_TRANSFER"
         /\ Up(TransferPage(asset), FungibleTransferTexts)
      \/ tx.known_type \in StakeTypes /\ Up("delegation", DelegationTexts)
  BY DEF PageOfRequest, KnownCall, CallOf
<1>2. /\ FieldsOf(Arguments(tx.known_type)) \subseteq FieldsRead
      /\ Carried(tx.known_type) \subseteq FieldsOf(Arguments(tx.known_type))
  <2>1. tx.known_type \in KnownTypes \ {"FUNC_UNKNOWN"}
    BY DEF KnownCall, IInv, TransactionOfStage, TxRecord
  <2> QED
    BY <2>1, FieldsOfArguments DEF Covered, KnownCall
<1>2a. ASSUME CoinMoved = AptosCoin, CoinsNamed = {AptosCoin}
       PROVE  CoinsNamed # {} /\ \A coin \in CoinsNamed : NamesMoved(coin)
  BY <1>2a, CoinsInAnyCase DEF NamesMoved
<1>3. CASE /\ tx.known_type = "FUNC_APTOS_ACCOUNT_TRANSFER"
           /\ Up("account_transfer", AccountTransferTexts)
  <2>1. Carried(tx.known_type) = {"receiver", "amount"}
    BY <1>3 DEF Carried, CoinTypes
  <2>2. CoinMoved = AptosCoin
    BY <1>3 DEF CoinMoved, CoinTypes
  <2> QED
    BY <1>2a, <1>3, <2>1, <2>2, AccountTransferPage
<1>4. CASE tx.known_type \in CoinTypes /\ Up(TransferPage(CoinText), CoinTransferTexts)
  <2>1. Carried(tx.known_type) = {"receiver", "amount"} \union CoinFields
    BY <1>4 DEF Carried, CoinTypes, CoinFields
  <2>2. tx.coin.address \in CoinAddresses
    BY <1>2, <2>1 DEF Covered, CoinFields
  <2>3. CoinText \in {AptosCoin, tx.coin} /\ CoinText # NoCoin
    BY <2>2, CoinsHaveNames DEF CoinText
  <2>4. CoinMoved = tx.coin
    <3>1. tx.known_type # "FUNC_FUNGIBLE_STORE_TRANSFER"
      BY <1>4 DEF CoinTypes
    <3> QED
      BY <1>4, <3>1, Zenon DEF CoinMoved
  <2>5. PICK name :
          CoinTransferTexts =
               [g_tx_type |-> TxType({"function_name"}, 13), g_function |-> Function,
                g_struct |-> TextOf(CoinFields, CoinText, name), g_address |-> Receiver,
                g_amount |-> AmountOf(CoinText, CoinFields)]
    <3>1. PICK name : CoinType = TextOf(CoinFields, CoinText, name)
      BY DEF CoinType
    <3> QED
      BY <3>1 DEF CoinTransferTexts
  <2>6. /\ Shown \subseteq Buffers /\ Whole
        /\ FieldsShown = FunctionFields \union {"receiver", "amount"} \union CoinFields
                           \union FeeFields
        /\ TokenInfo(CoinText) = {} => CoinsNamed = {CoinText}
        /\ TokenInfo(CoinText) # {} =>
             /\ "g_struct" \notin Shown
             /\ \E entry \in TOKEN_MAPPING :
                   SameInAnyCase(CoinText, entry) /\ CoinsNamed = {entry}
    BY <1>4, <2>3, <2>5, TransferPages
  <2>7. /\ CoinsNamed # {}
        /\ \A c \in CoinsNamed : NamesMoved(c)
        /\ "g_struct" \in Shown => CoinsNamed = {CoinMoved}
    <3>1. CASE TokenInfo(CoinText) = {}
      <4>1. CoinText = CoinMoved
        BY <2>3, <2>4, <3>1, CoinsInAnyCase
      <4> QED
        BY <2>6, <3>1, <4>1, CoinsInAnyCase DEF NamesMoved
    <3>2. CASE TokenInfo(CoinText) # {}
      <4>1. PICK entry \in TOKEN_MAPPING :
              SameInAnyCase(CoinText, entry) /\ CoinsNamed = {entry}
        BY <2>6, <3>2
      <4>2. NamesMoved(entry)
        <5>1. CASE is_coin_type_aptos(tx.coin)
          <6>1. entry = AptosCoin
            BY <4>1, <5>1, CoinsInAnyCase DEF CoinText
          <6> QED
            BY <1>4, <5>1, <6>1 DEF NamesMoved
        <5>2. CASE ~is_coin_type_aptos(tx.coin)
          <6>1. SameInAnyCase(entry, CoinMoved)
            BY <2>4, <4>1, <5>2, CoinsInAnyCase DEF CoinText
          <6> QED
            BY <6>1 DEF NamesMoved
        <5> QED
          BY <5>1, <5>2
      <4> QED
        BY <2>6, <3>2, <4>1, <4>2
    <3> QED
      BY <3>1, <3>2
  <2> QED
    BY <2>1, <2>6, <2>7
<1>5. CASE /\ tx.known_type = "FUNC_FUNGIBLE_STORE_TRANSFER"
           /\ Up(TransferPage(asset), FungibleTransferTexts)
  <2>1. Carried(tx.known_type) =
            {"receiver", "amount", "fungible_asset.address"} \union CoinFields
    BY <1>5 DEF Carried, CoinFields
  <2>2. tx.fungible_asset \in CoinAddresses
    BY <1>2, <2>1 DEF Covered
  <2>3. asset # NoCoin
    BY <2>2, CoinsHaveNames
  <2>4. CoinMoved = asset
    <3>1. tx.known_type \notin CoinTypes
      BY <1>5 DEF CoinTypes
    <3> QED
      BY <1>5, <3>1, Zenon DEF CoinMoved
  <2>5. PICK name :
          FungibleTransferTexts =
               [g_tx_type |-> TxType({"function_name"}, 23), g_function |-> Function,
                g_struct |-> TextOf({"fungible_asset.address"}, asset, name),
                g_address |-> Receiver,
                g_amount |-> AmountOf(asset, {"fungible_asset.address"})]
    BY DEF FungibleTransferTexts
  <2> HIDE DEF asset
  <2>6. /\ Shown \subseteq Buffers /\ Whole
        /\ FieldsShown = FunctionFields \union {"receiver", "amount"}
                           \union {"fungible_asset.address"} \union FeeFields
        /\ TokenInfo(asset) = {} => CoinsNamed = {asset}
        /\ TokenInfo(asset) # {} =>
             /\ "g_struct" \notin Shown
             /\ \E entry \in TOKEN_MAPPING :
                   SameInAnyCase(asset, entry) /\ CoinsNamed = {entry}
    BY <1>5, <2>3, <2>5, TransferPages
  <2>7. /\ CoinsNamed # {}
        /\ \A c \in CoinsNamed : NamesMoved(c)
        /\ "g_struct" \in Shown => CoinsNamed = {CoinMoved}
    BY <2>4, <2>6, CoinsInAnyCase DEF NamesMoved
  <2> QED
    BY <1>5, <2>1, <2>6, <2>7
<1>6. CASE tx.known_type \in StakeTypes /\ Up("delegation", DelegationTexts)
  <2>1. Carried(tx.known_type) = {"receiver", "amount"}
    BY <1>6 DEF Carried, CoinTypes, StakeTypes
  <2>2. CoinMoved = AptosCoin
    BY <1>6 DEF CoinMoved, CoinTypes, StakeTypes
  <2> QED
    BY <1>2a, <1>6, <2>1, <2>2, DelegationPage DEF FunctionFields
<1> QED
  BY <1>1, <1>3, <1>4, <1>5, <1>6

-----------------------------------------------------------------------------
(* Theorems *)

ReviewInv == IInv /\ Covered /\ PageStays

\* The review keeps the parser's invariants and its own.
LEMMA ReviewInvariance == ReviewSpec => []ReviewInv
<1>1. ReviewInit => ReviewInv
  BY InitIInv, InitCovered, InitPageStays DEF ReviewInit, ReviewInv
<1>2. ReviewInv /\ [ReviewNext]_<<vars, reviewVars>> => ReviewInv'
  BY ReviewStepIsParserStep, NextIInv, NextCovered, NextPageStays DEF ReviewInv
<1> QED
  BY <1>1, <1>2, PTL DEF ReviewSpec

\* The page that is up belongs to the request that the parser has read.
LEMMA PageUp ==
    ASSUME ReviewInv, page # NoPage
    PROVE  /\ IInv /\ Covered /\ Accepted /\ PageOfRequest
           /\ ~page.gated => KnownCall
BY GatedPage DEF ReviewInv, PageStays

\* The buffers keep their types, and a page comes up only for a request that
\* the parser has accepted.
THEOREM ReviewTypeCorrect == ReviewSpec => []ReviewTypeOK
<1>1. ReviewInv => Shown \subseteq Buffers
  <2> SUFFICES ASSUME ReviewInv PROVE Shown \subseteq Buffers
    OBVIOUS
  <2>1. CASE page = NoPage
    BY <2>1 DEF Shown, NoPage, Page
  <2>2. CASE page # NoPage
    BY <2>2, PageUp, GatedPage, KnownPage
  <2> QED
    BY <2>1, <2>2
<1>2. ReviewInv => (TypeOK => ReviewTypeOK)
  BY <1>1 DEF ReviewInv, PageStays, TextsType, ReviewTypeOK
<1> QED
  BY <1>2, ReviewInvariance, ReviewImplementsParser, ParserTypeCorrect, PTL

\* A page without the gate is the review of an accepted call that the app knows.
THEOREM ClearOnlyForKnownCalls == ReviewSpec => [](Clear => Accepted /\ KnownCall)
<1>1. ReviewInv => (Clear => Accepted /\ KnownCall)
  BY PageUp DEF Clear
<1> QED
  BY <1>1, ReviewInvariance, PTL

\* A page shows this request and nothing else: every text on it has been made
\* from fields that the parser has read, but for the fee of a transaction with
\* data.
THEOREM ReviewShowsThisRequest == ReviewSpec => []ShownIsOfThisRequest
<1>1. ReviewInv => ShownIsOfThisRequest
  <2> SUFFICES ASSUME ReviewInv, page # NoPage PROVE ShownIsOfThisRequest
    BY DEF ShownIsOfThisRequest
  <2>1. IInv /\ Covered /\ Accepted /\ PageOfRequest
    BY PageUp
  <2>2. tx.tx_variant = "TX_RAW" => {"payload_variant"} \union FeeFields \subseteq FieldsRead
    BY <2>1, FieldsOfParts DEF Covered, HeaderFields, FooterFields, FeeFields
  <2>3. tx.tx_variant = "TX_RAW" /\ tx.payload_variant = PAYLOAD_ENTRY_FUNCTION =>
          /\ FunctionFields \subseteq FieldsRead
          /\ FieldsOf(Arguments(tx.known_type)) \subseteq FieldsRead
    BY <2>1, FieldsOfParts DEF Covered
  <2>4. CASE ~KnownCall
    <3>1. "prefix" \in FieldsRead \/ tx.tx_variant # "TX_RAW_WITH_DATA"
      BY <2>1 DEF Covered
    <3>2. \/ /\ tx.tx_variant = "TX_RAW"
             /\ FieldsShown = {"payload_variant"} \union FeeFields
          \/ /\ tx.tx_variant = "TX_RAW_WITH_DATA"
             /\ FieldsShown = {"prefix"} \union FeeFields
          \/ /\ CallOf({"FUNC_UNKNOWN"})
             /\ FieldsShown = {"payload_variant"} \union FunctionFields \union FeeFields
      BY <2>1, <2>4, GatedPage
    <3> QED
      BY <2>2, <2>3, <3>1, <3>2 DEF ShownIsOfThisRequest, CallOf, FeeFields
  <2>5. CASE KnownCall
    <3>1. Carried(tx.known_type) \subseteq FieldsOf(Arguments(tx.known_type))
      BY <2>1, <2>5, FieldsOfArguments DEF KnownCall, IInv, TransactionOfStage, TxRecord
    <3>2. FieldsShown \subseteq FunctionFields \union Carried(tx.known_type) \union FeeFields
      BY <2>1, <2>5, KnownPage
    <3> QED
      BY <2>2, <2>3, <2>5, <3>1, <3>2 DEF ShownIsOfThisRequest, KnownCall
  <2> QED
    BY <2>4, <2>5
<1> QED
  BY <1>1, ReviewInvariance, PTL

\* What a call carries is what its grammar reads besides numbers.
LEMMA ArgumentsCarried ==
    ASSUME NEW type \in KnownTypes \ {"FUNC_UNKNOWN"}
    PROVE  ArgumentFields(type) \subseteq Carried(type)
<1> DEFINE arguments == Arguments(type)
<1>1. arguments \in Seq(CallReads)
  BY ArgumentsType
<1>2. FieldsOf(arguments) \subseteq Carried(type) \union NumberFields
  BY FieldsOfArguments
<1> HIDE DEF arguments
<1>3. ASSUME NEW k \in DOMAIN arguments, arguments[k].kind # "number"
      PROVE  arguments[k].field \in Carried(type)
  <2>1. arguments[k] \in CallReads
    BY <1>1, InSequence
  <2>2. arguments[k].field \in CallFields
    BY <1>3, <2>1 DEF CallReads, ByteReads, NumberReads, TextReads, CallFields
  <2>3. arguments[k].field \in FieldsOf(arguments)
    BY DEF FieldsOf
  <2> QED
    BY <1>2, <2>2, <2>3 DEF CallFields, NameFields, NumberFields
<1> QED
  BY <1>3 DEF ArgumentFields, arguments

\* Without the gate there is nothing to sign that is not shown.
THEOREM ClearPagesShowArguments == ReviewSpec => []ClearShowsArguments
<1>1. ReviewInv => ClearShowsArguments
  <2> SUFFICES ASSUME ReviewInv, Clear PROVE ClearShowsArguments
    BY DEF ClearShowsArguments
  <2>1. IInv /\ Covered /\ Accepted /\ PageOfRequest /\ KnownCall
    BY PageUp DEF Clear
  <2>2. tx.known_type \in KnownTypes \ {"FUNC_UNKNOWN"}
    BY <2>1 DEF KnownCall, IInv, TransactionOfStage, TxRecord
  <2>3. /\ ArgumentFields(tx.known_type) \subseteq Carried(tx.known_type)
        /\ ModuleFields = FunctionFields
    BY <2>2, ArgumentsCarried DEF ModuleFields, FunctionFields
  <2> DEFINE wanted == ArgumentFields(tx.known_type) \union ModuleFields
                          \union {"max_gas_amount", "gas_unit_price"}
             apart == CASE tx.known_type = "FUNC_FUNGIBLE_STORE_TRANSFER" -> CoinFields
                        [] tx.known_type \in StakeTypes -> {"module_id.address"}
                        [] OTHER -> {}
  <2>4. wanted \subseteq FieldsShown
            \union (IF tx.known_type = "FUNC_FUNGIBLE_STORE_TRANSFER" THEN CoinFields ELSE {})
            \union (IF tx.known_type \in StakeTypes THEN {"module_id.address"} ELSE {})
    <3>1. wanted \subseteq FunctionFields \union Carried(tx.known_type) \union FeeFields
      BY <2>3 DEF FeeFields
    <3> HIDE DEF wanted
    <3> QED
      BY <2>1, <3>1, KnownPage
  <2>5. apart = (IF tx.known_type = "FUNC_FUNGIBLE_STORE_TRANSFER" THEN CoinFields ELSE {})
            \union (IF tx.known_type \in StakeTypes THEN {"module_id.address"} ELSE {})
    <3>1. CASE tx.known_type = "FUNC_FUNGIBLE_STORE_TRANSFER"
      <4>1. tx.known_type \notin StakeTypes
        BY <3>1 DEF StakeTypes
      <4>2. apart = CoinFields
        BY <3>1, <4>1, Zenon
      <4> HIDE DEF apart
      <4> QED
        BY <3>1, <4>1, <4>2
    <3>2. CASE tx.known_type \in StakeTypes
      <4>1. tx.known_type # "FUNC_FUNGIBLE_STORE_TRANSFER"
        BY <3>2 DEF StakeTypes
      <4>2. apart = {"module_id.address"}
        BY <3>2, <4>1, Zenon
      <4> HIDE DEF apart
      <4> QED
        BY <3>2, <4>1, <4>2
    <3>3. CASE /\ tx.known_type # "FUNC_FUNGIBLE_STORE_TRANSFER"
               /\ tx.known_type \notin StakeTypes
      <4>1. apart = {}
        BY <3>3, Zenon
      <4> HIDE DEF apart
      <4> QED
        BY <3>3, <4>1
    <3> QED
      BY <3>1, <3>2, <3>3
  <2> HIDE DEF wanted, apart
  <2>6. wanted \ apart \subseteq FieldsShown
    BY <2>4, <2>5
  <2> QED
    BY <2>2, <2>6 DEF ClearShowsArguments, wanted, apart
<1> QED
  BY <1>1, ReviewInvariance, PTL

\* Without the gate no text is cut, but for the coin type.
THEOREM ClearTextsAreWhole == ReviewSpec => []ClearTextIsWhole
<1>1. ReviewInv => ClearTextIsWhole
  BY PageUp, KnownPage DEF Clear, ClearTextIsWhole, Whole
<1> QED
  BY <1>1, ReviewInvariance, PTL

\* A page without the gate names the coin of the call, in any case of its letters
\* if it is listed and to the letter if it is not; or AptosCoin in a call of a coin
\* whose names begin its names.
THEOREM ClearPagesNameCoin == ReviewSpec => []NamedCoinIsMoved
<1>1. ReviewInv => NamedCoinIsMoved
  BY PageUp, KnownPage DEF Clear, NamedCoinIsMoved, NamesMoved
<1> QED
  BY <1>1, ReviewInvariance, PTL
=============================================================================
