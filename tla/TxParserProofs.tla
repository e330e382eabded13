---------------------------- MODULE TxParserProofs ----------------------------
(***************************************************************************)
(* What the parser promises for requests of any size, whatever lengths and *)
(* numbers they carry, and for any width of size_t that can count a        *)
(* request.                                                                *)
(***************************************************************************)
EXTENDS TxParser, FiniteSetTheorems, TLAPS

-----------------------------------------------------------------------------
(* The reads *)

Texts ==
    {"", "other", "OTHER", "aptos_account", "coin", "primary_fungible_store", "delegation_pool",
     "aptos_coin", "AptosCoin", "transfer", "transfer_coins", "add_stake", "unlock",
     "reactivate_stake", "withdraw"}
Names == [text : Texts, len : Nat]

\* The statuses of reads that fail.
Errors ==
    {"SENDER_READ_ERROR", "SEQUENCE_READ_ERROR", "MAX_GAS_READ_ERROR",
     "GAS_UNIT_PRICE_READ_ERROR", "EXPIRATION_READ_ERROR", "CHAIN_ID_READ_ERROR",
     "PAYLOAD_VARIANT_READ_ERROR", "PAYLOAD_UNDEFINED_ERROR", "MODULE_ID_ADDR_READ_ERROR",
     "MODULE_ID_NAME_LEN_READ_ERROR", "MODULE_ID_NAME_BYTES_READ_ERROR",
     "FUNCTION_NAME_LEN_READ_ERROR", "FUNCTION_NAME_BYTES_READ_ERROR",
     "TYPE_ARGS_SIZE_READ_ERROR", "TYPE_ARGS_SIZE_UNEXPECTED_ERROR",
     "ARGS_SIZE_READ_ERROR", "ARGS_SIZE_UNEXPECTED_ERROR", "TYPE_TAG_READ_ERROR",
     "TYPE_TAG_UNEXPECTED_ERROR", "STRUCT_ADDRESS_READ_ERROR",
     "STRUCT_MODULE_LEN_READ_ERROR", "STRUCT_MODULE_BYTES_READ_ERROR",
     "STRUCT_NAME_LEN_READ_ERROR", "STRUCT_NAME_BYTES_READ_ERROR",
     "STRUCT_TYPE_ARGS_SIZE_READ_ERROR", "STRUCT_TYPE_ARGS_SIZE_UNEXPECTED_ERROR",
     "RECEIVER_ADDR_LEN_READ_ERROR", "RECEIVER_ADDR_READ_ERROR",
     "WRONG_ADDRESS_LEN_ERROR", "AMOUNT_LEN_READ_ERROR", "AMOUNT_READ_ERROR",
     "WRONG_AMOUNT_LEN_ERROR"}

Variants == {PAYLOAD_SCRIPT, PAYLOAD_ENTRY_FUNCTION, PAYLOAD_MULTISIG}
NameFields == {"module_id.name", "function_name", "ty.module_name", "ty.name"}
HeaderFields == {"sender", "sequence"} \union FooterFields
CallFields ==
    {"module_id.address", "ty.address", "fungible_asset.address", "receiver", "amount"}
        \union NameFields
NumberFields ==
    {"ty_size", "args_size", "receiver_len", "fa_store_addr_len", "amount_len",
     "ty_arg_variant", "ty.type_args_size"}

\* The footer is read through its own cursor and the rest through `buf'.
CursorOf(field) == IF field \in FooterFields THEN "footer" ELSE "buf"

ByteReads(fields) ==
    {read \in [kind : {"bytes"}, field : fields, cursor : Cursors, len : Nat, error : Errors] :
        read.cursor = CursorOf(read.field)}
NumberReads ==
    [kind : {"number"}, field : NumberFields, expected : SUBSET Nat,
     error : Errors, unexpected : Errors]
VariantReads ==
    [kind : {"number"}, field : {"payload_variant"}, expected : {Variants},
     error : Errors, unexpected : Errors]
TextReads ==
    [kind : {"text"}, field : NameFields, names : SUBSET Names,
     error : Errors, bytes_error : Errors]

\* The payload variant is read in the header and nowhere else.
CallReads == ByteReads(CallFields) \union NumberReads \union TextReads
HeaderReads == ByteReads(HeaderFields) \union VariantReads
ReadsOf(s) == IF s = "header" THEN HeaderReads ELSE CallReads

\* Every name that the parser may find has a length.
LEMMA NamesType ==
    /\ OtherNames \in SUBSET Names
    /\ ModuleNames \in SUBSET Names
    /\ FunctionNames \in SUBSET Names
    /\ CoinNames \union {AptosCoinModule} \in SUBSET Names
    /\ CoinNames \union {AptosCoinName} \in SUBSET Names
    /\ NoName \in Names
<1>1. \A text \in Texts, len \in Nat : Name(text, len) \in Names
  BY DEF Name, Names
<1>2. \A n \in OtherNames : n \in Names
  BY <1>1, NumbersAssumption DEF OtherNames, Texts
<1>2a. \A n \in CoinNames : n \in Names
  BY <1>1, <1>2, NumbersAssumption DEF CoinNames, Texts
<1>3. /\ AptosCoinModule \in Names
      /\ AptosCoinName \in Names
      /\ NoName \in Names
  BY <1>1 DEF AptosCoinModule, AptosCoinName, NoName, Texts
<1>4. \A n \in ModuleNames : n \in Names
  BY <1>1, <1>2 DEF ModuleNames, Texts
<1>5. \A n \in FunctionNames : n \in Names
  BY <1>1, <1>2 DEF FunctionNames, Texts
<1> QED
  BY <1>2, <1>2a, <1>3, <1>4, <1>5

LEMMA HeaderType == Header \in Seq(HeaderReads)
<1>1. /\ ADDRESS_LEN \in Nat
      /\ U64_LEN \in Nat
      /\ {"buf", "footer"} = Cursors
  BY DEF ADDRESS_LEN, U64_LEN, Cursors
<1>2. /\ Bytes("sender", "buf", ADDRESS_LEN, "SENDER_READ_ERROR") \in HeaderReads
      /\ Bytes("sequence", "buf", U64_LEN, "SEQUENCE_READ_ERROR") \in HeaderReads
      /\ Bytes("max_gas_amount", "footer", U64_LEN, "MAX_GAS_READ_ERROR") \in HeaderReads
      /\ Bytes("gas_unit_price", "footer", U64_LEN, "GAS_UNIT_PRICE_READ_ERROR") \in HeaderReads
      /\ Bytes("expiration_timestamp_secs", "footer", U64_LEN, "EXPIRATION_READ_ERROR")
            \in HeaderReads
      /\ Bytes("chain_id", "footer", 1, "CHAIN_ID_READ_ERROR") \in HeaderReads
  BY <1>1 DEF Bytes, ByteReads, CursorOf, HeaderReads, HeaderFields, FooterFields, Errors
<1>3. Number("payload_variant", {PAYLOAD_SCRIPT, PAYLOAD_ENTRY_FUNCTION, PAYLOAD_MULTISIG},
             "PAYLOAD_VARIANT_READ_ERROR", "PAYLOAD_UNDEFINED_ERROR") \in HeaderReads
  BY DEF Number, VariantReads, Variants, HeaderReads, Errors
<1> QED
  BY <1>2, <1>3 DEF Header

LEMMA EntryFunctionType == EntryFunction \in Seq(CallReads)
<1>1. Bytes("module_id.address", "buf", ADDRESS_LEN, "MODULE_ID_ADDR_READ_ERROR") \in CallReads
  BY DEF Bytes, ByteReads, CursorOf, FooterFields, ADDRESS_LEN, Cursors, CallReads, CallFields, Errors
<1>2. /\ Text("module_id.name", ModuleNames, "MODULE_ID_NAME_LEN_READ_ERROR",
              "MODULE_ID_NAME_BYTES_READ_ERROR") \in CallReads
      /\ Text("function_name", FunctionNames, "FUNCTION_NAME_LEN_READ_ERROR",
              "FUNCTION_NAME_BYTES_READ_ERROR") \in CallReads
  BY NamesType DEF Text, TextReads, NameFields, CallReads, Errors
<1> QED
  BY <1>1, <1>2 DEF EntryFunction

LEMMA SmallReadsType ==
    /\ \A n \in Nat : TypeArgsSize(n) \in CallReads /\ ArgsSize(n) \in CallReads
    /\ AddressLength("receiver_len") \in CallReads
    /\ AddressLength("fa_store_addr_len") \in CallReads
<1>1. ADDRESS_LEN \in Nat
  BY DEF ADDRESS_LEN
<1> QED
  BY <1>1 DEF Number, NumberReads, NumberFields, TypeArgsSize, ArgsSize, AddressLength, CallReads, Errors

LEMMA ReceiverAndAmountType == ReceiverAndAmount \in Seq(CallReads)
<1>1. /\ Bytes("receiver", "buf", ADDRESS_LEN, "RECEIVER_ADDR_READ_ERROR") \in CallReads
      /\ Bytes("amount", "buf", U64_LEN, "AMOUNT_READ_ERROR") \in CallReads
  BY DEF Bytes, ByteReads, CursorOf, FooterFields, ADDRESS_LEN, U64_LEN, Cursors, CallReads,
         CallFields, Errors
<1>2. Number("amount_len", {U64_LEN}, "AMOUNT_LEN_READ_ERROR", "WRONG_AMOUNT_LEN_ERROR")
        \in CallReads
  BY DEF Number, NumberReads, NumberFields, U64_LEN, CallReads, Errors
<1>3. AddressLength("receiver_len") \in CallReads
  BY SmallReadsType
<1> QED
  BY <1>1, <1>2, <1>3 DEF ReceiverAndAmount

LEMMA TypeStructType == TypeStruct \in Seq(CallReads)
<1>1. Bytes("ty.address", "buf", ADDRESS_LEN, "STRUCT_ADDRESS_READ_ERROR") \in CallReads
  BY DEF Bytes, ByteReads, CursorOf, FooterFields, ADDRESS_LEN, Cursors, CallReads, CallFields, Errors
<1>2. /\ Number("ty_arg_variant", {TYPE_TAG_STRUCT}, "TYPE_TAG_READ_ERROR",
                "TYPE_TAG_UNEXPECTED_ERROR") \in CallReads
      /\ Number("ty.type_args_size", {0}, "STRUCT_TYPE_ARGS_SIZE_READ_ERROR",
                "STRUCT_TYPE_ARGS_SIZE_UNEXPECTED_ERROR") \in CallReads
  BY DEF Number, NumberReads, NumberFields, TYPE_TAG_STRUCT, CallReads, Errors
<1>3. /\ Text("ty.module_name", CoinNames \union {AptosCoinModule},
              "STRUCT_MODULE_LEN_READ_ERROR", "STRUCT_MODULE_BYTES_READ_ERROR") \in CallReads
      /\ Text("ty.name", CoinNames \union {AptosCoinName},
              "STRUCT_NAME_LEN_READ_ERROR", "STRUCT_NAME_BYTES_READ_ERROR") \in CallReads
  BY NamesType DEF Text, TextReads, NameFields, CallReads, Errors
<1>4. TypeArgsSize(1) \in CallReads
  BY SmallReadsType
<1> QED
  BY <1>1, <1>2, <1>3, <1>4 DEF TypeStruct

\* Whatever call it is, its grammar is made of reads of a call.
LEMMA ArgumentsType == \A type : Arguments(type) \in Seq(CallReads)
<1>1. << >> \in Seq(CallReads)
  OBVIOUS
<1>2. /\ << TypeArgsSize(0), ArgsSize(2) >> \in Seq(CallReads)
      /\ << ArgsSize(2) >> \in Seq(CallReads)
  BY SmallReadsType
<1>3. << ArgsSize(3), AddressLength("fa_store_addr_len"),
         Bytes("fungible_asset.address", "buf", ADDRESS_LEN, "STRUCT_ADDRESS_READ_ERROR") >>
        \in Seq(CallReads)
  <2>1. Bytes("fungible_asset.address", "buf", ADDRESS_LEN, "STRUCT_ADDRESS_READ_ERROR")
          \in CallReads
    BY DEF Bytes, ByteReads, CursorOf, FooterFields, ADDRESS_LEN, Cursors, CallReads, CallFields, Errors
  <2> QED
    BY <2>1, SmallReadsType
<1>4. \A s, t \in Seq(CallReads) : s \o t \in Seq(CallReads)
  OBVIOUS
<1>5. /\ AccountTransfer \in Seq(CallReads)
      /\ Delegation \in Seq(CallReads)
      /\ CoinTransfer \in Seq(CallReads)
      /\ FaTransfer \in Seq(CallReads)
  BY <1>2, <1>3, <1>4, ReceiverAndAmountType, TypeStructType
     DEF AccountTransfer, Delegation, CoinTransfer, FaTransfer
<1> QED
  BY <1>1, <1>5 DEF Arguments

-----------------------------------------------------------------------------
(* The transaction *)

TxVariants == {"TX_UNDEFINED", "TX_RAW", "TX_RAW_WITH_DATA", "TX_MESSAGE", "TX_RAW_MESSAGE"}
TxRecord ==
    [tx_variant : TxVariants, payload_variant : Variants \union {PAYLOAD_UNDEFINED},
     address_ends_in_one : BOOLEAN, module_name : Names, function_name : Names,
     known_type : KnownTypes,
     coin : [address : CoinAddresses \union {"none"}, module_name : Names, name : Names],
     fungible_asset : CoinAddresses \union {"none"}]

\* What a read of an argument leaves alone.
SameHeader(t) ==
    /\ t.tx_variant = tx.tx_variant
    /\ t.payload_variant = tx.payload_variant
    /\ t.known_type = tx.known_type

LEMMA NewTransactionType == NewTransaction \in TxRecord
BY NamesType DEF NewTransaction, TxRecord, TxVariants, KnownTypes

LEMMA VariantType == Variant \in TxVariants /\ Variant # "TX_UNDEFINED"
BY Zenon DEF Variant, TxVariants

LEMMA KnownTypeType == \A t : KnownType(t) \in KnownTypes
BY Zenon DEF KnownType, KnownTypes, CoinTypes, StakeTypes

LEMMA AfterBytesType ==
    ASSUME tx \in TxRecord, NEW field, NEW t \in AfterBytes(field)
    PROVE  t \in TxRecord /\ SameHeader(t)
<1>1. \/ \E b \in BOOLEAN : t = [tx EXCEPT !.address_ends_in_one = b]
      \/ \E a \in CoinAddresses : t = [tx EXCEPT !.coin.address = a]
      \/ \E a \in CoinAddresses : t = [tx EXCEPT !.fungible_asset = a]
      \/ t = tx
  BY Zenon DEF AfterBytes
<1> QED
  BY <1>1 DEF TxRecord, SameHeader

LEMMA AfterNameType ==
    ASSUME tx \in TxRecord, NEW field \in NameFields, NEW name \in Names
    PROVE  AfterName(field, name) \in TxRecord /\ SameHeader(AfterName(field, name))
<1> DEFINE t == AfterName(field, name)
<1>1. \/ t = [tx EXCEPT !.module_name = name]
      \/ t = [tx EXCEPT !.function_name = name]
      \/ t = [tx EXCEPT !.coin.module_name = name]
      \/ t = [tx EXCEPT !.coin.name = name]
  BY Zenon DEF AfterName, NameFields
<1> HIDE DEF t
<1>2. t \in TxRecord /\ SameHeader(t)
  BY <1>1 DEF TxRecord, SameHeader
<1> QED
  BY <1>2 DEF t

-----------------------------------------------------------------------------
(* The inductive invariant *)

\* What is still to be read belongs to the stage.
PendingOfStage ==
    /\ stage \in {"variant", "header", "function", "arguments", "done"}
    /\ pending \in Seq(ReadsOf(stage))
    /\ stage \in {"variant", "done"} => pending = << >>

\* The transaction is filled in from its variant to its type.
TransactionOfStage ==
    /\ tx \in TxRecord
    /\ stage = "done" <=> status # "none"
    /\ stage \in {"header", "function", "arguments"} => tx.tx_variant = "TX_RAW"
    /\ stage \in {"function", "arguments"} => tx.payload_variant = PAYLOAD_ENTRY_FUNCTION
    /\ stage \in {"variant", "header", "function"} => tx.known_type = "FUNC_UNKNOWN"
    /\ tx.known_type # "FUNC_UNKNOWN" => tx.payload_variant = PAYLOAD_ENTRY_FUNCTION
    /\ Accepted => tx.tx_variant # "TX_UNDEFINED"

Fields ==
    {"prefix", "len", "payload_variant"} \union HeaderFields \union CallFields \union NumberFields

\* Neither cursor is ever behind the end of the request.
CursorsInside ==
    /\ request \in Requests
    /\ offset \in [Cursors -> Nat]
    /\ \A c \in Cursors : offset[c] <= request.size
    /\ stage = "variant" => offset["buf"] = 0 /\ reads = << >>
    /\ reads \in Seq([field : Fields, from : Nat, to : Nat])
    /\ ReadsInsideBuffer

\* A request is as long as size_t can count, and holds its prefix.
LEMMA RequestSize ==
    ASSUME NEW r \in Requests
    PROVE  /\ r.size \in 0 .. SizeRange - 1
           /\ r.size \in Nat
           /\ r.prefix # "none" => r.size >= TX_HASHED_PREFIX_LEN
<1>1. r.size \in Sizes /\ (r.prefix # "none" => r.size >= TX_HASHED_PREFIX_LEN)
  BY DEF Requests
<1>2. r.size \in 0 .. SizeRange - 1
  BY <1>1, SizesAssumption
<1>3. SizeRange - 1 \in Int
  BY SizesAssumption
<1>4. r.size \in Nat
  BY <1>2, <1>3
<1> QED
  BY <1>1, <1>2, <1>4

\* A subtraction that does not wrap is one.
\* The sizes that the code counts in.
LEMMA LimitsType == MAX_TRANSACTION_LEN \in Nat /\ SizeRange \in Nat
<1>1. MAX_TRANSACTION_PACKETS \in Nat
  BY SizesAssumption
<1>2. MAX_TRANSACTION_LEN \in Nat
  BY <1>1 DEF MAX_TRANSACTION_LEN
<1> QED
  BY <1>2, SizesAssumption

LEMMA NoWrap ==
    ASSUME NEW x \in 0 .. SizeRange - 1
    PROVE  x % SizeRange = x
BY SizesAssumption

LEMMA CanReadIsInside ==
    ASSUME CursorsInside, NEW cursor \in Cursors, NEW n \in Nat, CanRead(cursor, n)
    PROVE  offset[cursor] + n <= request.size
<1>1. request.size \in 0 .. SizeRange - 1
  BY RequestSize DEF CursorsInside
<1>2. request.size - offset[cursor] \in 0 .. SizeRange - 1
  BY <1>1, SizesAssumption DEF CursorsInside
<1>3. (request.size - offset[cursor]) % SizeRange = request.size - offset[cursor]
  BY <1>2, NoWrap
<1> QED
  BY <1>1, <1>3 DEF CanRead, CursorsInside

\* A slice that is read after the check keeps the cursors inside.
LEMMA ConsumeInside ==
    ASSUME CursorsInside, NEW field \in Fields, NEW cursor \in Cursors, NEW n \in Nat,
           offset[cursor] + n <= request.size,
           Consume(field, cursor, n), request' = request, stage' # "variant"
    PROVE  CursorsInside'
<1>1. /\ offset' = [offset EXCEPT ![cursor] = @ + n]
      /\ reads' = Append(reads, Slice(field, cursor, n))
  BY DEF Consume
<1>2. Slice(field, cursor, n) \in [field : Fields, from : Nat, to : Nat]
  BY DEF Slice, CursorsInside
<1>3. offset' \in [Cursors -> Nat] /\ \A c \in Cursors : offset'[c] <= request.size
  BY <1>1, RequestSize DEF CursorsInside
<1>4. reads' \in Seq([field : Fields, from : Nat, to : Nat])
  BY <1>1, <1>2 DEF CursorsInside
<1>5. ASSUME NEW k \in DOMAIN reads'
      PROVE  /\ 0 <= reads'[k].from
             /\ reads'[k].from <= reads'[k].to
             /\ reads'[k].to <= request'.size
  <2>1. CASE k \in DOMAIN reads
    <3>1. reads'[k] = reads[k]
      BY <1>1, <1>2, <2>1 DEF CursorsInside
    <3> QED
      BY <2>1, <3>1 DEF CursorsInside, ReadsInsideBuffer
  <2>2. CASE k \notin DOMAIN reads
    <3>1. reads'[k] = Slice(field, cursor, n)
      BY <1>1, <1>2, <2>2 DEF CursorsInside
    <3> QED
      BY <3>1 DEF Slice, CursorsInside
  <2> QED
    BY <2>1, <2>2
<1> QED
  BY <1>3, <1>4, <1>5 DEF CursorsInside, ReadsInsideBuffer

IInv == PendingOfStage /\ TransactionOfStage /\ CursorsInside /\ TextIsTerminated

LEMMA InitIInv == Init => IInv
<1> SUFFICES ASSUME Init PROVE IInv
  OBVIOUS
<1>1. PendingOfStage
  BY DEF Init, PendingOfStage
<1>2. TransactionOfStage
  BY NewTransactionType DEF Init, TransactionOfStage, NewTransaction, Accepted
<1>3. CursorsInside
  BY RequestSize DEF Init, CursorsInside, ReadsInsideBuffer, Cursors
<1>4. TextIsTerminated
  BY DEF Init, TextIsTerminated, Accepted
<1> QED
  BY <1>1, <1>2, <1>3, <1>4 DEF IInv

\* A read that fails ends the parser with its status, and nothing else changes.
LEMMA StopIInv ==
    ASSUME IInv, NEW result, result # "none", Stop(result),
           UNCHANGED <<request, offset, reads, tx>>,
           result = "PARSING_OK" => tx.tx_variant = "TX_RAW"
    PROVE  IInv'
<1>1. stage' = "done" /\ status' = result /\ pending' = << >>
  BY DEF Stop
<1>2. PendingOfStage'
  BY <1>1 DEF PendingOfStage
<1>3. TransactionOfStage'
  BY <1>1 DEF IInv, TransactionOfStage, Accepted
<1>4. CursorsInside'
  BY <1>1 DEF IInv, CursorsInside, ReadsInsideBuffer
<1>5. TextIsTerminated'
  BY <1>1 DEF TextIsTerminated, Accepted
<1> QED
  BY <1>2, <1>3, <1>4, <1>5 DEF IInv

\* A read to be done belongs to a stage in between, and is one of that stage.
LEMMA ReadOfStage ==
    ASSUME IInv, pending # << >>
    PROVE  /\ stage \in {"header", "function", "arguments"}
           /\ Head(pending) \in ReadsOf(stage)
           /\ Tail(pending) \in Seq(ReadsOf(stage))
BY DEF IInv, PendingOfStage

LEMMA SameTransaction ==
    ASSUME TransactionOfStage, tx' \in TxRecord, SameHeader(tx'),
           UNCHANGED <<stage, status>>
    PROVE  TransactionOfStage'
BY DEF TransactionOfStage, SameHeader, Accepted

LEMMA TooLongIInv == IInv /\ TooLong => IInv'
<1> SUFFICES ASSUME IInv, TooLong PROVE IInv'
  OBVIOUS
<1> QED
  BY StopIInv DEF TooLong

LEMMA TakeWholeIInv == IInv /\ TakeWhole => IInv'
<1> SUFFICES ASSUME IInv, TakeWhole PROVE IInv'
  OBVIOUS
<1>1. /\ stage = "variant" /\ stage' = "done" /\ pending' = << >>
      /\ status' # "none"
      /\ request' = request
      /\ tx' = [tx EXCEPT !.tx_variant = Variant]
      /\ Variant = "TX_MESSAGE" /\ status' = "PARSING_OK" => ~NoTerminator
  BY DEF TakeWhole, Stop
<1>2. PendingOfStage'
  BY <1>1 DEF PendingOfStage
<1>3. /\ tx' \in TxRecord
      /\ tx'.tx_variant = Variant
      /\ tx'.known_type = tx.known_type
      /\ tx'.payload_variant = tx.payload_variant
  BY <1>1, VariantType DEF IInv, TransactionOfStage, TxRecord
<1>4. TransactionOfStage'
  BY <1>1, <1>3, VariantType DEF IInv, TransactionOfStage, Accepted
<1>5. CursorsInside'
  <2>1. CASE Variant = "TX_RAW_WITH_DATA"
    <3>1. request.prefix = "with_data"
      BY <2>1, Zenon DEF Variant
    <3>2. offset["buf"] + TX_HASHED_PREFIX_LEN <= request.size
      BY <1>1, <3>1, RequestSize DEF IInv, CursorsInside, TX_HASHED_PREFIX_LEN
    <3>3. Consume("prefix", "buf", TX_HASHED_PREFIX_LEN)
      BY <2>1 DEF TakeWhole
    <3> QED
      BY <1>1, <3>2, <3>3, ConsumeInside DEF IInv, Fields, Cursors, TX_HASHED_PREFIX_LEN
  <2>2. CASE Variant # "TX_RAW_WITH_DATA"
    <3>1. UNCHANGED <<offset, reads>>
      BY <2>2 DEF TakeWhole
    <3> QED
      BY <1>1, <3>1 DEF IInv, CursorsInside, ReadsInsideBuffer
  <2> QED
    BY <2>1, <2>2
<1>6. TextIsTerminated'
  <2> SUFFICES ASSUME status' = "PARSING_OK", Variant = "TX_MESSAGE"
               PROVE  request.size < MAX_TRANSACTION_LEN \/ request.ends_in_zero
    BY <1>1, <1>3 DEF TextIsTerminated, Accepted
  <2>1. ~NoTerminator
    BY <1>1
  <2>2. request.size <= MAX_TRANSACTION_LEN /\ request.size \in Nat
    BY RequestSize DEF TakeWhole, IInv, CursorsInside
  <2> QED
    BY <2>1, <2>2, LimitsType DEF NoTerminator
<1> QED
  BY <1>2, <1>4, <1>5, <1>6 DEF IInv

LEMMA BeginTransactionIInv == IInv /\ BeginTransaction => IInv'
<1> SUFFICES ASSUME IInv, BeginTransaction PROVE IInv'
  OBVIOUS
<1>1. /\ stage = "variant" /\ stage' = "header" /\ pending' = Header
      /\ status' = status /\ request' = request
      /\ tx' = [tx EXCEPT !.tx_variant = "TX_RAW"]
      /\ reads' = << Slice("prefix", "buf", TX_HASHED_PREFIX_LEN) >>
      /\ offset' = [buf |-> TX_HASHED_PREFIX_LEN,
                    footer |-> (request.size - TX_FOOTER_LEN) % SizeRange]
  BY DEF BeginTransaction
<1>2. PendingOfStage'
  BY <1>1, HeaderType DEF PendingOfStage, ReadsOf
<1>3. TransactionOfStage'
  BY <1>1 DEF IInv, TransactionOfStage, TxRecord, TxVariants, Accepted
<1>4. CursorsInside'
  <2>1. request.prefix = "raw"
    BY Zenon DEF BeginTransaction, Variant
  <2>2. request.size >= 32 /\ request.size \in 0 .. SizeRange - 1 /\ SizeRange \in Nat
    BY <2>1, RequestSize, SizesAssumption DEF IInv, CursorsInside, TX_HASHED_PREFIX_LEN
  <2>3. (request.size - TX_FOOTER_LEN) % SizeRange = request.size - 25
    <3>1. request.size - 25 \in 0 .. SizeRange - 1
      BY <2>2
    <3> QED
      BY <3>1, NoWrap DEF TX_FOOTER_LEN, U64_LEN
  <2>4. Slice("prefix", "buf", TX_HASHED_PREFIX_LEN) = [field |-> "prefix", from |-> 0, to |-> 32]
    BY <1>1 DEF IInv, CursorsInside, Slice, TX_HASHED_PREFIX_LEN
  <2>5. reads' = << [field |-> "prefix", from |-> 0, to |-> 32] >>
    BY <1>1, <2>4
  <2>6. reads' \in Seq([field : Fields, from : Nat, to : Nat]) /\ ReadsInsideBuffer'
    BY <1>1, <2>2, <2>5 DEF Fields, ReadsInsideBuffer
  <2>7. offset' \in [Cursors -> Nat] /\ \A c \in Cursors : offset'[c] <= request.size
    BY <1>1, <2>2, <2>3 DEF Cursors, TX_HASHED_PREFIX_LEN
  <2> QED
    BY <1>1, <2>6, <2>7 DEF IInv, CursorsInside
<1>5. TextIsTerminated'
  BY <1>1, <1>3 DEF TextIsTerminated, TransactionOfStage
<1> QED
  BY <1>2, <1>3, <1>4, <1>5 DEF IInv

\* Nothing is accepted before the parser is done.
LEMMA NotYetAccepted ==
    ASSUME TransactionOfStage', stage' # "done"
    PROVE  TextIsTerminated'
BY DEF TransactionOfStage, TextIsTerminated, Accepted

LEMMA ReadBytesIInv == IInv /\ ReadBytes => IInv'
<1> SUFFICES ASSUME IInv, ReadBytes PROVE IInv'
  OBVIOUS
<1> DEFINE read == Head(pending)
<1>1. pending # << >> /\ read.kind = "bytes"
  BY DEF ReadBytes, Reading
<1>2. /\ stage \in {"header", "function", "arguments"}
      /\ read \in ReadsOf(stage)
      /\ Tail(pending) \in Seq(ReadsOf(stage))
  BY <1>1, ReadOfStage
<1>3. /\ request' = request /\ stage' = stage /\ status' = status
      /\ pending' = Tail(pending)
      /\ CanRead(read.cursor, read.len)
      /\ Consume(read.field, read.cursor, read.len)
      /\ tx' \in AfterBytes(read.field)
  BY DEF ReadBytes
<1> HIDE DEF read
<1>4. read \in ByteReads(HeaderFields) \union ByteReads(CallFields)
  BY <1>1, <1>2 DEF ReadsOf, HeaderReads, CallReads, VariantReads, NumberReads, TextReads
<1>5. read.field \in Fields /\ read.cursor \in Cursors /\ read.len \in Nat
  BY <1>4 DEF ByteReads, Fields
<1>6. PendingOfStage'
  BY <1>2, <1>3 DEF PendingOfStage
<1>7. TransactionOfStage'
  BY <1>3, AfterBytesType, SameTransaction DEF IInv, TransactionOfStage
<1>8. CursorsInside'
  <2>1. offset[read.cursor] + read.len <= request.size
    BY <1>3, <1>5, CanReadIsInside DEF IInv
  <2> QED
    BY <1>2, <1>3, <1>5, <2>1, ConsumeInside DEF IInv
<1> QED
  BY <1>2, <1>3, <1>6, <1>7, <1>8, NotYetAccepted DEF IInv

LEMMA DigitsType == \A value \in Nat : Digits(value) \in Nat
BY DEF Digits

\* Of a payload variant that is expected the type is known, other numbers are
\* not kept.
LEMMA ReadNumberIInv == IInv /\ ReadNumber => IInv'
<1> SUFFICES ASSUME IInv, ReadNumber PROVE IInv'
  OBVIOUS
<1> DEFINE read == Head(pending)
<1>1. pending # << >> /\ read.kind = "number"
  BY DEF ReadNumber, Reading
<1>2. /\ stage \in {"header", "function", "arguments"}
      /\ read \in ReadsOf(stage)
      /\ Tail(pending) \in Seq(ReadsOf(stage))
  BY <1>1, ReadOfStage
<1>3. PICK value \in Numbers \intersect read.expected :
        /\ CanRead("buf", Digits(value))
        /\ Consume(read.field, "buf", Digits(value))
        /\ tx' = IF read.field = "payload_variant"
                 THEN [tx EXCEPT !.payload_variant = value] ELSE tx
  BY DEF ReadNumber
<1>4. /\ request' = request /\ stage' = stage /\ status' = status
      /\ pending' = Tail(pending)
  BY DEF ReadNumber
<1> HIDE DEF read
<1>5. \/ stage = "header" /\ read \in VariantReads
      \/ stage # "header" /\ read \in NumberReads
  BY <1>1, <1>2 DEF ReadsOf, HeaderReads, CallReads, ByteReads, TextReads
<1>6. read.field \in Fields /\ "buf" \in Cursors /\ Digits(value) \in Nat
  BY <1>5, NumbersAssumption, DigitsType DEF VariantReads, NumberReads, Fields, Cursors
<1>7. PendingOfStage'
  BY <1>2, <1>4 DEF PendingOfStage
<1>8. TransactionOfStage'
  <2>1. CASE stage = "header"
    <3>1. value \in Variants /\ tx' = [tx EXCEPT !.payload_variant = value]
      BY <1>3, <1>5, <2>1 DEF VariantReads
    <3> QED
      BY <1>4, <2>1, <3>1 DEF IInv, TransactionOfStage, TxRecord, Accepted
  <2>2. CASE stage # "header"
    <3>1. tx' = tx
      BY <1>3, <1>5, <2>2 DEF NumberReads, NumberFields
    <3> QED
      BY <1>4, <3>1 DEF IInv, TransactionOfStage, Accepted
  <2> QED
    BY <2>1, <2>2
<1>9. CursorsInside'
  <2>1. offset["buf"] + Digits(value) <= request.size
    BY <1>3, <1>6, CanReadIsInside DEF IInv
  <2> QED
    BY <1>2, <1>3, <1>4, <1>6, <2>1, ConsumeInside DEF IInv
<1> QED
  BY <1>2, <1>4, <1>7, <1>8, <1>9, NotYetAccepted DEF IInv

LEMMA ReadNameLengthIInv == IInv /\ ReadNameLength => IInv'
<1> SUFFICES ASSUME IInv, ReadNameLength PROVE IInv'
  OBVIOUS
<1> DEFINE read == Head(pending)
<1>1. pending # << >> /\ read.kind = "text"
  BY DEF ReadNameLength, Reading
<1>2. /\ stage \in {"header", "function", "arguments"}
      /\ read \in ReadsOf(stage)
      /\ Tail(pending) \in Seq(ReadsOf(stage))
  BY <1>1, ReadOfStage
<1>3. PICK name \in read.names :
        /\ CanRead("buf", Digits(name.len))
        /\ Consume("len", "buf", Digits(name.len))
        /\ pending' = << Bytes(read.field, "buf", name.len, read.bytes_error) >> \o Tail(pending)
        /\ tx' = AfterName(read.field, name)
  BY DEF ReadNameLength
<1>4. request' = request /\ stage' = stage /\ status' = status
  BY DEF ReadNameLength
<1> HIDE DEF read
<1>5. stage # "header" /\ read \in TextReads
  BY <1>1, <1>2 DEF ReadsOf, HeaderReads, CallReads, ByteReads, VariantReads, NumberReads
<1>6. read.field \in NameFields /\ name \in Names /\ read.bytes_error \in Errors
  BY <1>3, <1>5 DEF TextReads
<1>7. /\ "buf" \in Cursors /\ "len" \in Fields
      /\ name.len \in Nat /\ Digits(name.len) \in Nat
  BY <1>6, DigitsType DEF Fields, Cursors, Names
<1>8. PendingOfStage'
  <2>1. Bytes(read.field, "buf", name.len, read.bytes_error) \in ReadsOf(stage)
    BY <1>5, <1>6, <1>7 DEF ReadsOf, CallReads, CallFields, NameFields, ByteReads, CursorOf,
                            FooterFields, Bytes
  <2>2. pending' \in Seq(ReadsOf(stage))
    BY <1>2, <1>3, <2>1
  <2> QED
    BY <1>2, <1>4, <2>2 DEF PendingOfStage
<1>9. TransactionOfStage'
  BY <1>3, <1>4, <1>6, AfterNameType, SameTransaction DEF IInv, TransactionOfStage
<1>10. CursorsInside'
  <2>1. offset["buf"] + Digits(name.len) <= request.size
    BY <1>3, <1>7, CanReadIsInside DEF IInv
  <2> QED
    BY <1>2, <1>3, <1>4, <1>7, <2>1, ConsumeInside DEF IInv
<1> QED
  BY <1>2, <1>4, <1>8, <1>9, <1>10, NotYetAccepted DEF IInv

\* The statuses of a read that fails are those of an error.
LEMMA ErrorOfRead ==
    ASSUME IInv, pending # << >>
    PROVE  /\ Head(pending).error \in Errors
           /\ Head(pending).kind = "number" => Head(pending).unexpected \in Errors
<1>1. Head(pending) \in HeaderReads \union CallReads
  BY ReadOfStage DEF ReadsOf
<1> QED
  BY <1>1 DEF HeaderReads, CallReads, ByteReads, VariantReads, NumberReads, TextReads

LEMMA ErrorIInv ==
    ASSUME IInv, NEW result \in Errors, Stop(result), UNCHANGED <<request, offset, tx, reads>>
    PROVE  IInv'
<1>1. result # "none" /\ result # "PARSING_OK"
  BY DEF Errors
<1> QED
  BY <1>1, StopIInv

LEMMA ReadFailsIInv ==
    IInv /\ (UnexpectedNumber \/ BytesMissing \/ NumberMalformed) => IInv'
<1>1. ASSUME IInv, UnexpectedNumber PROVE IInv'
  BY <1>1, ErrorOfRead, ErrorIInv DEF UnexpectedNumber, Reading
<1>2. ASSUME IInv, BytesMissing PROVE IInv'
  BY <1>2, ErrorOfRead, ErrorIInv DEF BytesMissing, Reading
<1>3. ASSUME IInv, NumberMalformed PROVE IInv'
  BY <1>3, ErrorOfRead, ErrorIInv DEF NumberMalformed, Reading
<1> QED
  BY <1>1, <1>2, <1>3

LEMMA EndHeaderIInv == IInv /\ EndHeader => IInv'
<1> SUFFICES ASSUME IInv, EndHeader PROVE IInv'
  OBVIOUS
<1>1. stage = "header" /\ UNCHANGED <<request, offset, tx, reads>>
  BY DEF EndHeader
<1>2. CASE tx.payload_variant = PAYLOAD_ENTRY_FUNCTION
  <2>1. stage' = "function" /\ pending' = EntryFunction /\ status' = status
    BY <1>2 DEF EndHeader
  <2>2. PendingOfStage'
    BY <2>1, EntryFunctionType DEF PendingOfStage, ReadsOf
  <2>3. TransactionOfStage'
    BY <1>1, <1>2, <2>1 DEF IInv, TransactionOfStage, Accepted
  <2>4. CursorsInside'
    BY <1>1, <2>1 DEF IInv, CursorsInside, ReadsInsideBuffer
  <2> QED
    BY <2>1, <2>2, <2>3, <2>4, NotYetAccepted DEF IInv
<1>3. CASE tx.payload_variant # PAYLOAD_ENTRY_FUNCTION
  BY <1>1, <1>3, StopIInv DEF EndHeader, IInv, TransactionOfStage
<1> QED
  BY <1>2, <1>3

LEMMA EndFunctionIInv == IInv /\ EndFunction => IInv'
<1> SUFFICES ASSUME IInv, EndFunction PROVE IInv'
  OBVIOUS
<1>1. /\ stage = "function" /\ stage' = "arguments"
      /\ tx' = [tx EXCEPT !.known_type = KnownType(tx)]
      /\ pending' = Arguments(KnownType(tx))
      /\ UNCHANGED <<request, offset, reads, status>>
  BY DEF EndFunction
<1>2. PendingOfStage'
  BY <1>1, ArgumentsType DEF PendingOfStage, ReadsOf
<1>3. TransactionOfStage'
  BY <1>1, KnownTypeType DEF IInv, TransactionOfStage, TxRecord, Accepted
<1>4. CursorsInside'
  BY <1>1 DEF IInv, CursorsInside, ReadsInsideBuffer
<1> QED
  BY <1>1, <1>2, <1>3, <1>4, NotYetAccepted DEF IInv

LEMMA EndArgumentsIInv == IInv /\ EndArguments => IInv'
<1> SUFFICES ASSUME IInv, EndArguments PROVE IInv'
  OBVIOUS
<1>1. StatusAtEnd # "none"
  BY DEF StatusAtEnd
<1> QED
  BY <1>1, StopIInv DEF EndArguments, IInv, TransactionOfStage

\* No step breaks the invariant.
LEMMA NextIInv == IInv /\ [Next]_vars => IInv'
<1> SUFFICES ASSUME IInv, [Next]_vars PROVE IInv'
  OBVIOUS
<1>1. CASE TooLong \/ TakeWhole \/ BeginTransaction
  BY <1>1, TooLongIInv, TakeWholeIInv, BeginTransactionIInv
<1>2. CASE ReadBytes \/ ReadNumber \/ ReadNameLength
  BY <1>2, ReadBytesIInv, ReadNumberIInv, ReadNameLengthIInv
<1>3. CASE UnexpectedNumber \/ BytesMissing \/ NumberMalformed
  BY <1>3, ReadFailsIInv
<1>4. CASE EndHeader \/ EndFunction \/ EndArguments
  BY <1>4, EndHeaderIInv, EndFunctionIInv, EndArgumentsIInv
<1>5. CASE UNCHANGED vars
  BY <1>5 DEF vars, IInv, PendingOfStage, TransactionOfStage, CursorsInside,
              ReadsInsideBuffer, TextIsTerminated, Accepted
<1> QED
  BY <1>1, <1>2, <1>3, <1>4, <1>5 DEF Next

-----------------------------------------------------------------------------
(* Theorems *)

\* The inductive invariant: the reads that are left belong to the function
\* that reads, the transaction is as far as that function leaves it, and the
\* cursors are inside the request.
THEOREM ParserInvariance == Spec => []IInv
BY InitIInv, NextIInv, PTL DEF Spec

\* The parser keeps its types, for requests and names of any size.
THEOREM ParserTypeCorrect == Spec => []TypeOK
<1>1. IInv => TypeOK
  <2> SUFFICES ASSUME IInv PROVE TypeOK
    OBVIOUS
  <2>1. offset \in [Cursors -> 0 .. SizeRange - 1]
    <3>1. request.size \in 0 .. SizeRange - 1
      BY RequestSize DEF IInv, CursorsInside
    <3>2. \A c \in Cursors : offset[c] \in 0 .. SizeRange - 1
      BY <3>1, SizesAssumption DEF IInv, CursorsInside
    <3> QED
      BY <3>2 DEF IInv, CursorsInside
  <2>2. tx.payload_variant \in
          {PAYLOAD_SCRIPT, PAYLOAD_ENTRY_FUNCTION, PAYLOAD_MULTISIG, PAYLOAD_UNDEFINED}
    BY DEF IInv, TransactionOfStage, TxRecord, Variants
  <2>3. tx.known_type \in KnownTypes
    BY DEF IInv, TransactionOfStage, TxRecord
  <2> QED
    BY <2>1, <2>2, <2>3 DEF TypeOK, IInv, PendingOfStage, TransactionOfStage, CursorsInside
<1> QED
  BY <1>1, ParserInvariance, PTL

\* No read leaves the request, whatever the numbers in it say.
THEOREM ParserReadsInside == Spec => []ReadsInsideBuffer
<1>1. IInv => ReadsInsideBuffer
  BY DEF IInv, CursorsInside
<1> QED
  BY <1>1, ParserInvariance, PTL

\* A text that is accepted ends within the buffer.
THEOREM ParserTerminatesTexts == Spec => []TextIsTerminated
<1>1. IInv => TextIsTerminated
  BY DEF IInv
<1> QED
  BY <1>1, ParserInvariance, PTL

-----------------------------------------------------------------------------
(* The footer *)

\* What is read in the header behind the sender and the sequence number.
LaterReads ==
    [kind : {"bytes"}, field : FooterFields, cursor : {"footer"}, len : Nat, error : Errors]
        \union VariantReads

\* The sender and the sequence number are read at the front, the footer at the
\* back; where the footer starts does not depend on what is in between.
SlicesApart ==
    \A k \in DOMAIN reads :
        /\ reads[k].field \in {"sender", "sequence"} => reads[k].to <= 72
        /\ reads[k].field \in FooterFields => reads[k].from >= request.size - TX_FOOTER_LEN

\* How far `buf' has gone by the end of each part.
Progress ==
    /\ stage = "variant" => tx.payload_variant = PAYLOAD_UNDEFINED
    /\ stage \in {"header", "function", "arguments"} =>
        offset["footer"] >= request.size - TX_FOOTER_LEN
    /\ stage = "header" =>
        \/ offset["buf"] = 32 /\ pending = Header
        \/ /\ offset["buf"] = 64
           /\ Len(pending) = 6 /\ \A i \in 1 .. 6 : pending[i] = Header[i + 1]
        \/ offset["buf"] >= 72 /\ \A i \in 1 .. Len(pending) : pending[i] \in LaterReads
    /\ stage = "function" =>
        \/ offset["buf"] >= 72 /\ pending = EntryFunction
        \/ offset["buf"] >= 104
    /\ stage = "arguments" => offset["buf"] >= 104
    /\ Accepted /\ tx.payload_variant = PAYLOAD_ENTRY_FUNCTION => offset["buf"] >= 104

Apart == SlicesApart /\ Progress

LEMMA InitApart == Init => Apart
BY DEF Init, Apart, SlicesApart, Progress, NewTransaction, Accepted

\* What a sequence holds after one more element: that element, behind the others.
LEMMA AppendedLast ==
    ASSUME NEW S, NEW s \in Seq(S), NEW e \in S, NEW k \in DOMAIN Append(s, e)
    PROVE  /\ k \in DOMAIN s => Append(s, e)[k] = s[k]
           /\ k \notin DOMAIN s => Append(s, e)[k] = e
<1>1. k \in 1 .. Len(s) + 1 /\ DOMAIN s = 1 .. Len(s) /\ Len(s) \in Nat
  OBVIOUS
<1> QED
  BY <1>1

\* A slice added at the end leaves the others where they are.
LEMMA SliceAdded ==
    ASSUME IInv, SlicesApart, NEW field \in Fields, NEW cursor \in Cursors, NEW n \in Nat,
           Consume(field, cursor, n), request' = request,
           field \in {"sender", "sequence"} => offset[cursor] + n <= 72,
           field \in FooterFields => offset[cursor] >= request.size - TX_FOOTER_LEN
    PROVE  /\ SlicesApart'
           /\ offset'[cursor] = offset[cursor] + n
           /\ \A c \in Cursors : offset'[c] >= offset[c]
           /\ \A c \in Cursors \ {cursor} : offset'[c] = offset[c]
<1>1. /\ offset' = [offset EXCEPT ![cursor] = @ + n]
      /\ reads' = Append(reads, Slice(field, cursor, n))
      /\ offset \in [Cursors -> Nat]
      /\ reads \in Seq([field : Fields, from : Nat, to : Nat])
      /\ Slice(field, cursor, n) \in [field : Fields, from : Nat, to : Nat]
  BY DEF Consume, IInv, CursorsInside, Slice
<1>2. ASSUME NEW k \in DOMAIN reads'
      PROVE  /\ reads'[k].field \in {"sender", "sequence"} => reads'[k].to <= 72
             /\ reads'[k].field \in FooterFields =>
                    reads'[k].from >= request'.size - TX_FOOTER_LEN
  <2>1. CASE k \in DOMAIN reads
    <3>1. reads'[k] = reads[k]
      BY <1>1, <2>1, AppendedLast
    <3> QED
      BY <2>1, <3>1 DEF SlicesApart
  <2>2. CASE k \notin DOMAIN reads
    <3>1. reads'[k] = Slice(field, cursor, n)
      BY <1>1, <2>2, AppendedLast
    <3> QED
      BY <3>1 DEF Slice
  <2> QED
    BY <2>1, <2>2
<1> QED
  BY <1>1, <1>2 DEF SlicesApart

LEMMA BeginApart == IInv /\ Apart /\ (TooLong \/ TakeWhole \/ BeginTransaction) => Apart'
<1> SUFFICES ASSUME IInv, Apart, TooLong \/ TakeWhole \/ BeginTransaction PROVE Apart'
  OBVIOUS
<1>1. /\ stage = "variant" /\ offset["buf"] = 0 /\ reads = << >> /\ request' = request
      /\ tx.payload_variant = PAYLOAD_UNDEFINED
      /\ tx'.payload_variant = PAYLOAD_UNDEFINED
  BY DEF TooLong, TakeWhole, BeginTransaction, Apart, Progress, IInv, CursorsInside,
         TransactionOfStage, TxRecord
<1>2. reads' = << >> \/ reads' = << Slice("prefix", "buf", TX_HASHED_PREFIX_LEN) >>
  BY <1>1 DEF TooLong, TakeWhole, BeginTransaction, Consume
<1>3. SlicesApart'
  BY <1>2 DEF SlicesApart, Slice, FooterFields
<1>4. Progress'
  <2>1. CASE TooLong \/ TakeWhole
    BY <1>1, <2>1 DEF TooLong, TakeWhole, Stop, Progress, PAYLOAD_UNDEFINED,
                      PAYLOAD_ENTRY_FUNCTION
  <2>2. CASE BeginTransaction
    <3>1. request.prefix = "raw"
      BY <2>2, Zenon DEF BeginTransaction, Variant
    <3>2. request.size - 25 \in 0 .. SizeRange - 1
      BY <3>1, RequestSize, SizesAssumption DEF IInv, CursorsInside, TX_HASHED_PREFIX_LEN
    <3>3. (request.size - TX_FOOTER_LEN) % SizeRange = request.size - TX_FOOTER_LEN
      BY <3>2, NoWrap DEF TX_FOOTER_LEN, U64_LEN
    <3>4. offset'["buf"] = 32 /\ offset'["footer"] = request.size - TX_FOOTER_LEN
      BY <2>2, <3>3 DEF BeginTransaction, TX_HASHED_PREFIX_LEN
    <3>5. stage' = "header" /\ pending' = Header /\ status' = status /\ status = "none"
      BY <2>2 DEF BeginTransaction, IInv, TransactionOfStage
    <3> QED
      BY <1>1, <3>2, <3>4, <3>5 DEF Progress, Accepted, TX_FOOTER_LEN, U64_LEN
  <2> QED
    BY <2>1, <2>2
<1> QED
  BY <1>3, <1>4 DEF Apart

\* The reads of the header, one by one.
LEMMA HeaderReadsInOrder ==
    /\ Header[1].kind = "bytes" /\ Header[1].field = "sender"
    /\ Header[1].cursor = "buf" /\ Header[1].len = 32
    /\ Header[2].kind = "bytes" /\ Header[2].field = "sequence"
    /\ Header[2].cursor = "buf" /\ Header[2].len = 8
    /\ Len(Header) = 7
    /\ \A i \in 3 .. 7 : Header[i] \in LaterReads
<1>1. Header \in Seq(HeaderReads)
  BY HeaderType
<1>2. Len(Header) = 7
  BY DEF Header
<1>3. \A i \in 3 .. 7 : Header[i] \in LaterReads
  <2>1. U64_LEN \in Nat /\ 1 \in Nat
    BY DEF U64_LEN
  <2>2. /\ Header[3] \in LaterReads /\ Header[4] \in LaterReads
        /\ Header[5] \in LaterReads /\ Header[6] \in LaterReads
    BY <2>1 DEF Header, Bytes, LaterReads, FooterFields, Errors
  <2>3. Header[7] \in LaterReads
    BY DEF Header, Number, LaterReads, VariantReads, Variants, Errors
  <2> QED
    BY <2>2, <2>3
<1> QED
  BY <1>2, <1>3 DEF Header, Bytes, ADDRESS_LEN, U64_LEN

\* What is left of the reads after the first one.
LEMMA TailOfReads ==
    ASSUME NEW S, NEW s \in Seq(S), s # << >>
    PROVE  /\ Len(Tail(s)) = Len(s) - 1
           /\ \A i \in 1 .. Len(s) - 1 : Tail(s)[i] = s[i + 1]
OBVIOUS

LEMMA ReadBytesApart == IInv /\ Apart /\ ReadBytes => Apart'
<1> SUFFICES ASSUME IInv, Apart, ReadBytes PROVE Apart'
  OBVIOUS
<1> DEFINE read == Head(pending)
<1>1. pending # << >> /\ read.kind = "bytes"
  BY DEF ReadBytes, Reading
<1>2. /\ stage \in {"header", "function", "arguments"}
      /\ read \in ReadsOf(stage)
      /\ pending \in Seq(ReadsOf(stage))
      /\ read = pending[1]
  BY <1>1, ReadOfStage DEF IInv, PendingOfStage
<1>3. /\ request' = request /\ stage' = stage /\ status' = status
      /\ pending' = Tail(pending)
      /\ Consume(read.field, read.cursor, read.len)
      /\ tx' \in AfterBytes(read.field)
  BY DEF ReadBytes
<1> HIDE DEF read
<1>4. read \in ByteReads(HeaderFields) \union ByteReads(CallFields)
  BY <1>1, <1>2 DEF ReadsOf, HeaderReads, CallReads, VariantReads, NumberReads, TextReads
<1>5. read.field \in Fields /\ read.cursor \in Cursors /\ read.len \in Nat
  BY <1>4 DEF ByteReads, Fields
<1>6. ~Accepted'
  BY <1>2, <1>3 DEF Accepted, IInv, TransactionOfStage
<1>7. offset["footer"] >= request.size - TX_FOOTER_LEN
  BY <1>2 DEF Apart, Progress
<1>8. CASE stage = "header"
  <2>1. CASE offset["buf"] = 32 /\ pending = Header
    <3>1. read.field = "sender" /\ read.cursor = "buf" /\ read.len = 32
      BY <1>2, <2>1, HeaderReadsInOrder
    <3>2. /\ SlicesApart' /\ offset'["buf"] = 64
          /\ offset'["footer"] = offset["footer"]
      BY <1>3, <1>5, <2>1, <3>1, SliceAdded DEF Apart, FooterFields, Cursors
    <3>3. Len(pending') = 6 /\ \A i \in 1 .. 6 : pending'[i] = Header[i + 1]
      <4>1. Header # << >> /\ pending' = Tail(Header) /\ Len(Header) = 7
        BY <1>1, <1>3, <2>1, HeaderReadsInOrder
      <4>2. /\ Len(pending') = Len(Header) - 1
            /\ \A i \in 1 .. Len(Header) - 1 : pending'[i] = Header[i + 1]
        BY <4>1, HeaderType, TailOfReads
      <4>3. 7 - 1 = 6
        OBVIOUS
      <4> QED
        BY <4>1, <4>2, <4>3
    <3> QED
      BY <1>3, <1>6, <1>7, <1>8, <3>2, <3>3 DEF Apart, Progress
  <2>2. CASE /\ offset["buf"] = 64
             /\ Len(pending) = 6 /\ \A i \in 1 .. 6 : pending[i] = Header[i + 1]
    <3>1. read.field = "sequence" /\ read.cursor = "buf" /\ read.len = 8
      BY <1>2, <2>2, HeaderReadsInOrder
    <3>2. /\ SlicesApart' /\ offset'["buf"] = 72
          /\ offset'["footer"] = offset["footer"]
      BY <1>3, <1>5, <2>2, <3>1, SliceAdded DEF Apart, FooterFields, Cursors
    <3>3. Len(pending') = 5 /\ \A i \in 1 .. 5 : pending'[i] = pending[i + 1]
      <4>1. /\ Len(pending') = Len(pending) - 1
            /\ \A i \in 1 .. Len(pending) - 1 : pending'[i] = pending[i + 1]
        BY <1>1, <1>2, <1>3, TailOfReads
      <4>2. Len(pending) - 1 = 5
        BY <2>2
      <4> QED
        BY <4>1, <4>2
    <3>4. \A i \in 1 .. 5 : pending'[i] \in LaterReads
      <4> SUFFICES ASSUME NEW i \in 1 .. 5 PROVE pending'[i] \in LaterReads
        OBVIOUS
      <4>1. pending'[i] = Header[i + 2]
        BY <2>2, <3>3
      <4> QED
        BY <4>1, HeaderReadsInOrder
    <3> QED
      BY <1>3, <1>6, <1>7, <1>8, <3>2, <3>3, <3>4 DEF Apart, Progress
  <2>3. CASE offset["buf"] >= 72 /\ \A i \in 1 .. Len(pending) : pending[i] \in LaterReads
    <3>1. read.field \in FooterFields /\ read.cursor = "footer"
      BY <1>1, <1>2, <2>3 DEF LaterReads, VariantReads
    <3>2. /\ SlicesApart' /\ offset'["buf"] = offset["buf"]
          /\ offset'["footer"] >= offset["footer"]
      BY <1>3, <1>5, <1>7, <3>1, SliceAdded DEF Apart, FooterFields, Cursors
    <3>3. \A i \in 1 .. Len(pending') : pending'[i] \in LaterReads
      BY <1>1, <1>2, <1>3, <2>3
    <3>4. offset'["footer"] >= request'.size - TX_FOOTER_LEN
      BY <1>3, <1>5, <1>7, <3>2, RequestSize, IInv DEF IInv, CursorsInside, Consume,
         TX_FOOTER_LEN, U64_LEN, Cursors
    <3> QED
      BY <1>3, <1>6, <1>8, <2>3, <3>2, <3>3, <3>4 DEF Apart, Progress
  <2> QED
    BY <1>8, <2>1, <2>2, <2>3 DEF Apart, Progress
<1>9. CASE stage # "header"
  <2>1. read.field \in CallFields /\ read.field \notin HeaderFields
    BY <1>1, <1>2, <1>9 DEF ReadsOf, CallReads, NumberReads, TextReads, ByteReads,
                            CallFields, NameFields, HeaderFields, FooterFields
  <2>2. /\ SlicesApart' /\ offset'[read.cursor] = offset[read.cursor] + read.len
        /\ offset'["buf"] >= offset["buf"] /\ offset'["footer"] >= offset["footer"]
    BY <1>3, <1>5, <2>1, SliceAdded DEF Apart, HeaderFields, Cursors
  <2>3. offset["buf"] \in Nat /\ offset'["buf"] \in Nat
        /\ offset["footer"] \in Nat /\ offset'["footer"] \in Nat
        /\ request.size - TX_FOOTER_LEN \in Int
    BY <1>3, <1>5, RequestSize DEF IInv, CursorsInside, Consume, TX_FOOTER_LEN, U64_LEN, Cursors
  <2>4. stage = "function" => offset'["buf"] >= 104
    <3>1. CASE offset["buf"] >= 72 /\ pending = EntryFunction
      <4>1. read = Bytes("module_id.address", "buf", ADDRESS_LEN, "MODULE_ID_ADDR_READ_ERROR")
        BY <1>2, <3>1 DEF EntryFunction
      <4>2. read.cursor = "buf" /\ read.len = 32
        BY <4>1 DEF Bytes, ADDRESS_LEN
      <4> QED
        BY <2>2, <2>3, <3>1, <4>2
    <3>2. CASE offset["buf"] >= 104
      BY <2>2, <2>3, <3>2
    <3> QED
      BY <3>1, <3>2 DEF Apart, Progress
  <2>5. stage = "arguments" => offset'["buf"] >= 104
    BY <2>2, <2>3 DEF Apart, Progress
  <2>6. offset'["footer"] >= request'.size - TX_FOOTER_LEN
    BY <1>3, <1>7, <2>2, <2>3
  <2> QED
    BY <1>2, <1>3, <1>6, <1>9, <2>2, <2>4, <2>5, <2>6 DEF Apart, Progress
<1> QED
  BY <1>8, <1>9

\* Numbers and lengths are read by `buf' and are in no part of the footer.
LEMMA NumberTaken ==
    ASSUME IInv, Apart, NEW field \in Fields, NEW n \in Nat, Consume(field, "buf", n),
           request' = request, field \notin HeaderFields
    PROVE  /\ SlicesApart' /\ offset'["footer"] = offset["footer"]
           /\ \A m \in {72, 104} : offset["buf"] >= m => offset'["buf"] >= m
<1>1. /\ SlicesApart' /\ offset'["footer"] = offset["footer"]
      /\ offset'["buf"] = offset["buf"] + n
  BY SliceAdded DEF Apart, Cursors, HeaderFields
<1>2. offset["buf"] \in Nat
  BY DEF IInv, CursorsInside, Cursors
<1> QED
  BY <1>1, <1>2

LEMMA ReadNumberApart == IInv /\ Apart /\ ReadNumber => Apart'
<1> SUFFICES ASSUME IInv, Apart, ReadNumber PROVE Apart'
  OBVIOUS
<1> DEFINE read == Head(pending)
<1>1. pending # << >> /\ read.kind = "number"
  BY DEF ReadNumber, Reading
<1>2. /\ stage \in {"header", "function", "arguments"}
      /\ read \in ReadsOf(stage)
      /\ pending \in Seq(ReadsOf(stage))
      /\ read = pending[1]
  BY <1>1, ReadOfStage DEF IInv, PendingOfStage
<1>3. PICK value \in Numbers : Consume(read.field, "buf", Digits(value))
  BY DEF ReadNumber
<1>4. /\ request' = request /\ stage' = stage /\ status' = status
      /\ pending' = Tail(pending)
  BY DEF ReadNumber
<1> HIDE DEF read
<1>5. read.field \in NumberFields \union {"payload_variant"} /\ Digits(value) \in Nat
  BY <1>1, <1>2, NumbersAssumption, DigitsType
     DEF ReadsOf, HeaderReads, CallReads, VariantReads, NumberReads, TextReads, ByteReads
<1>6. read.field \in Fields /\ read.field \notin HeaderFields
  BY <1>5 DEF Fields, NumberFields, HeaderFields, FooterFields
<1>7. /\ SlicesApart' /\ offset'["footer"] = offset["footer"]
      /\ offset["buf"] >= 72 => offset'["buf"] >= 72
      /\ offset["buf"] >= 104 => offset'["buf"] >= 104
  BY <1>3, <1>4, <1>5, <1>6, NumberTaken
<1>8. ~Accepted'
  BY <1>2, <1>4 DEF Accepted, IInv, TransactionOfStage
<1>9. CASE stage = "header"
  <2>1. offset["buf"] >= 72 /\ \A i \in 1 .. Len(pending) : pending[i] \in LaterReads
    BY <1>1, <1>2, <1>9, HeaderReadsInOrder DEF Apart, Progress
  <2>2. \A i \in 1 .. Len(pending') : pending'[i] \in LaterReads
    BY <1>1, <1>2, <1>4, <2>1
  <2> QED
    BY <1>4, <1>7, <1>8, <1>9, <2>1, <2>2 DEF Apart, Progress
<1>10. CASE stage # "header"
  <2>1. ~(stage = "function" /\ pending = EntryFunction)
    BY <1>1, <1>2 DEF EntryFunction, Bytes
  <2> QED
    BY <1>2, <1>4, <1>7, <1>8, <1>10, <2>1 DEF Apart, Progress
<1> QED
  BY <1>9, <1>10

LEMMA ReadNameLengthApart == IInv /\ Apart /\ ReadNameLength => Apart'
<1> SUFFICES ASSUME IInv, Apart, ReadNameLength PROVE Apart'
  OBVIOUS
<1> DEFINE read == Head(pending)
<1>1. pending # << >> /\ read.kind = "text"
  BY DEF ReadNameLength, Reading
<1>2. /\ stage \in {"header", "function", "arguments"}
      /\ read \in ReadsOf(stage)
      /\ read = pending[1]
  BY <1>1, ReadOfStage DEF IInv, PendingOfStage
<1>3. PICK name \in read.names : Consume("len", "buf", Digits(name.len))
  BY DEF ReadNameLength
<1>4. request' = request /\ stage' = stage /\ status' = status
  BY DEF ReadNameLength
<1> HIDE DEF read
<1>5. stage # "header" /\ read \in TextReads
  BY <1>1, <1>2 DEF ReadsOf, HeaderReads, CallReads, ByteReads, VariantReads, NumberReads
<1>6. Digits(name.len) \in Nat
  BY <1>3, <1>5, DigitsType DEF TextReads, Names
<1>7. "len" \in Fields /\ "len" \notin HeaderFields
  BY DEF Fields, HeaderFields, FooterFields
<1>8. /\ SlicesApart' /\ offset'["footer"] = offset["footer"]
      /\ offset["buf"] >= 104 => offset'["buf"] >= 104
  BY <1>3, <1>4, <1>6, <1>7, NumberTaken
<1>9. ~Accepted'
  BY <1>2, <1>4 DEF Accepted, IInv, TransactionOfStage
<1>10. ~(stage = "function" /\ pending = EntryFunction)
  BY <1>1, <1>2 DEF EntryFunction, Bytes
<1> QED
  BY <1>2, <1>4, <1>5, <1>8, <1>9, <1>10 DEF Apart, Progress

LEMMA ReadFailsApart ==
    IInv /\ Apart /\ (UnexpectedNumber \/ BytesMissing \/ NumberMalformed) => Apart'
<1> SUFFICES ASSUME IInv, Apart, UnexpectedNumber \/ BytesMissing \/ NumberMalformed
             PROVE  Apart'
  OBVIOUS
<1>1. /\ UNCHANGED <<request, offset, tx, reads>>
      /\ stage' = "done" /\ status' \in Errors
  BY ErrorOfRead DEF UnexpectedNumber, BytesMissing, NumberMalformed, Reading, Stop
<1>2. ~Accepted'
  BY <1>1 DEF Accepted, Errors
<1> QED
  BY <1>1, <1>2 DEF Apart, SlicesApart, Progress

\* A part of the request ends with its last read, which is not one of the
\* sender, the sequence number or the module's address.
LEMMA EndApart == IInv /\ Apart /\ (EndHeader \/ EndFunction \/ EndArguments) => Apart'
<1> SUFFICES ASSUME IInv, Apart, EndHeader \/ EndFunction \/ EndArguments PROVE Apart'
  OBVIOUS
<1>1. UNCHANGED <<request, offset, reads>> /\ pending = << >>
  BY DEF EndHeader, EndFunction, EndArguments
<1>2. SlicesApart'
  BY <1>1 DEF Apart, SlicesApart
<1>3. CASE EndHeader
  <2>1. stage = "header" /\ tx' = tx
    BY <1>3 DEF EndHeader
  <2>2. offset["buf"] >= 72
    <3>1. Len(pending) = 0
      BY <1>1
    <3>2. Len(pending) # 6 /\ pending # Header
      BY <3>1, HeaderReadsInOrder
    <3> QED
      BY <2>1, <3>2 DEF Apart, Progress
  <2>3. CASE tx.payload_variant = PAYLOAD_ENTRY_FUNCTION
    <3>1. stage' = "function" /\ pending' = EntryFunction /\ status' = status
      BY <1>3, <2>3 DEF EndHeader
    <3>2. ~Accepted'
      BY <2>1, <3>1 DEF Accepted, IInv, TransactionOfStage
    <3> QED
      BY <1>1, <1>2, <2>1, <2>2, <3>1, <3>2 DEF Apart, Progress
  <2>4. CASE tx.payload_variant # PAYLOAD_ENTRY_FUNCTION
    BY <1>2, <1>3, <2>1, <2>4 DEF EndHeader, Stop, Apart, Progress
  <2> QED
    BY <2>3, <2>4
<1>4. CASE EndFunction
  <2>1. /\ stage = "function" /\ stage' = "arguments" /\ status' = status
        /\ ~Accepted'
    BY <1>4 DEF EndFunction, Accepted, IInv, TransactionOfStage
  <2>2. offset["buf"] >= 104
    BY <1>1, <2>1 DEF Apart, Progress, EntryFunction
  <2> QED
    BY <1>1, <1>2, <2>1, <2>2 DEF Apart, Progress
<1>5. CASE EndArguments
  BY <1>1, <1>2, <1>5 DEF EndArguments, Stop, Apart, Progress
<1> QED
  BY <1>3, <1>4, <1>5

\* The elements of a sequence are in its set.
LEMMA InSequence ==
    ASSUME NEW S, NEW s \in Seq(S), NEW i \in DOMAIN s
    PROVE  s[i] \in S
OBVIOUS

LEMMA NextApart == IInv /\ Apart /\ [Next]_vars => Apart'
<1> SUFFICES ASSUME IInv, Apart, [Next]_vars PROVE Apart'
  OBVIOUS
<1>1. CASE TooLong \/ TakeWhole \/ BeginTransaction
  BY <1>1, BeginApart
<1>2. CASE ReadBytes \/ ReadNumber \/ ReadNameLength
  BY <1>2, ReadBytesApart, ReadNumberApart, ReadNameLengthApart
<1>3. CASE UnexpectedNumber \/ BytesMissing \/ NumberMalformed
  BY <1>3, ReadFailsApart
<1>4. CASE EndHeader \/ EndFunction \/ EndArguments
  BY <1>4, EndApart
<1>5. CASE UNCHANGED vars
  BY <1>5 DEF vars, Apart, SlicesApart, Progress, Accepted
<1> QED
  BY <1>1, <1>2, <1>3, <1>4, <1>5 DEF Next

\* A call is too long for its footer to begin within its first 72 bytes: no
\* gas, expiration or chain is read out of the sender or the sequence number.
THEOREM ParserKeepsFooterApart == Spec => []HeaderApartFromFooter
<1>1. IInv /\ Apart => HeaderApartFromFooter
  <2> SUFFICES ASSUME IInv, Apart,
                      Accepted, tx.payload_variant = PAYLOAD_ENTRY_FUNCTION,
                      NEW j \in DOMAIN reads, NEW k \in DOMAIN reads,
                      reads[j].field \in {"sender", "sequence"},
                      reads[k].field \in FooterFields
               PROVE  reads[j].to <= reads[k].from
    BY DEF HeaderApartFromFooter
  <2>1. reads[j].to <= 72 /\ reads[k].from >= request.size - TX_FOOTER_LEN
    BY DEF Apart, SlicesApart
  <2>2. offset["buf"] >= 104 /\ offset["buf"] <= request.size
    BY DEF Apart, Progress, IInv, CursorsInside, Cursors
  <2>3. /\ reads[j].to \in Nat /\ reads[k].from \in Nat
        /\ offset["buf"] \in Nat /\ request.size \in Nat
    <3>1. reads \in Seq([field : Fields, from : Nat, to : Nat])
      BY DEF IInv, CursorsInside
    <3>2. reads[j] \in [field : Fields, from : Nat, to : Nat]
      BY <3>1, InSequence
    <3>3. reads[k] \in [field : Fields, from : Nat, to : Nat]
      BY <3>1, InSequence
    <3>4. offset["buf"] \in Nat
      BY DEF IInv, CursorsInside, Cursors
    <3>5. request.size \in Nat
      BY RequestSize DEF IInv, CursorsInside
    <3> QED
      BY <3>2, <3>3, <3>4, <3>5
  <2> QED
    BY <2>1, <2>2, <2>3 DEF TX_FOOTER_LEN, U64_LEN
<1> QED
  BY <1>1, InitApart, NextApart, InitIInv, NextIInv, PTL DEF Spec

-----------------------------------------------------------------------------
(* What has been read *)

FunctionFields == {"module_id.address", "module_id.name", "function_name"}

\* The fields that a part of the grammar reads.
FieldsOf(s) == {s[k].field : k \in DOMAIN s}

\* The fields of the parts that are behind the parser are all read, and of the
\* part it is in those that it has not read are still to come.
Covered ==
    /\ stage \in {"header", "function", "arguments"} => "prefix" \in FieldsRead
    /\ stage = "header" => FieldsOf(Header) \subseteq FieldsRead \union FieldsOf(pending)
    /\ stage \in {"function", "arguments"} => FieldsOf(Header) \subseteq FieldsRead
    /\ stage = "function" => FieldsOf(EntryFunction) \subseteq FieldsRead \union FieldsOf(pending)
    /\ stage = "arguments" =>
         /\ FieldsOf(EntryFunction) \subseteq FieldsRead
         /\ FieldsOf(Arguments(tx.known_type)) \subseteq FieldsRead \union FieldsOf(pending)
         /\ FieldsOf(pending) \intersect FunctionFields = {}
         /\ tx.known_type = KnownType(tx)
    /\ Accepted /\ tx.tx_variant = "TX_RAW_WITH_DATA" => "prefix" \in FieldsRead
    /\ Accepted /\ tx.tx_variant = "TX_RAW" =>
         /\ FieldsOf(Header) \subseteq FieldsRead
         /\ tx.payload_variant = PAYLOAD_ENTRY_FUNCTION =>
              /\ FieldsOf(EntryFunction) \subseteq FieldsRead
              /\ FieldsOf(Arguments(tx.known_type)) \subseteq FieldsRead
              /\ tx.known_type = KnownType(tx)
    /\ "ty.address" \in FieldsRead => tx.coin.address \in CoinAddresses
    /\ "fungible_asset.address" \in FieldsRead => tx.fungible_asset \in CoinAddresses

\* The fields of two parts one behind the other are those of both.
LEMMA FieldsOfBoth ==
    ASSUME NEW S, NEW s \in Seq(S), NEW t \in Seq(S)
    PROVE  FieldsOf(s \o t) = FieldsOf(s) \union FieldsOf(t)
<1>1. /\ Len(s \o t) = Len(s) + Len(t)
      /\ DOMAIN (s \o t) = 1 .. Len(s) + Len(t)
      /\ \A k \in DOMAIN s : (s \o t)[k] = s[k]
      /\ \A k \in DOMAIN t : (s \o t)[k + Len(s)] = t[k]
  OBVIOUS
<1>2. ASSUME NEW k \in DOMAIN (s \o t)
      PROVE  (s \o t)[k].field \in FieldsOf(s) \union FieldsOf(t)
  <2>1. CASE k <= Len(s)
    BY <1>1, <2>1 DEF FieldsOf
  <2>2. CASE k > Len(s)
    <3>1. k - Len(s) \in DOMAIN t /\ (k - Len(s)) + Len(s) = k
      BY <1>1, <2>2
    <3> QED
      BY <1>1, <3>1 DEF FieldsOf
  <2> QED
    BY <1>1, <2>1, <2>2
<1>3. \A k \in DOMAIN s : s[k].field \in FieldsOf(s \o t)
  <2> TAKE k \in DOMAIN s
  <2>1. k \in DOMAIN (s \o t)
    BY <1>1
  <2> QED
    BY <1>1, <2>1 DEF FieldsOf
<1>4. \A k \in DOMAIN t : t[k].field \in FieldsOf(s \o t)
  <2> TAKE k \in DOMAIN t
  <2>1. k + Len(s) \in DOMAIN (s \o t)
    BY <1>1
  <2> QED
    BY <1>1, <2>1 DEF FieldsOf
<1> QED
  BY <1>2, <1>3, <1>4 DEF FieldsOf

\* What is read first leaves the others.
LEMMA FieldsOfTail ==
    ASSUME NEW S, NEW s \in Seq(S), s # << >>
    PROVE  FieldsOf(s) = {Head(s).field} \union FieldsOf(Tail(s))
<1>1. /\ s[1] = Head(s) /\ 1 \in DOMAIN s /\ DOMAIN s = 1 .. Len(s)
      /\ DOMAIN Tail(s) = 1 .. Len(s) - 1 /\ Len(s) \in Nat
      /\ \A k \in 1 .. Len(s) - 1 : Tail(s)[k] = s[k + 1]
  OBVIOUS
<1>2. \A k \in DOMAIN s : s[k].field \in {Head(s).field} \union FieldsOf(Tail(s))
  <2> TAKE k \in DOMAIN s
  <2>1. CASE k # 1
    <3>1. k - 1 \in DOMAIN Tail(s) /\ Tail(s)[k - 1] = s[k]
      BY <1>1, <2>1
    <3> QED
      BY <3>1 DEF FieldsOf
  <2> QED
    BY <1>1, <2>1
<1>3. \A k \in DOMAIN Tail(s) : Tail(s)[k].field \in FieldsOf(s)
  <2> TAKE k \in DOMAIN Tail(s)
  <2>1. k + 1 \in DOMAIN s /\ Tail(s)[k] = s[k + 1]
    BY <1>1
  <2> QED
    BY <2>1 DEF FieldsOf
<1> QED
  BY <1>1, <1>2, <1>3 DEF FieldsOf

\* A slice that is consumed adds its field.
LEMMA FieldAdded ==
    ASSUME IInv, NEW field \in Fields, NEW cursor \in Cursors, NEW n \in Nat,
           Consume(field, cursor, n)
    PROVE  FieldsRead' = FieldsRead \union {field}
<1>1. reads \in Seq([field : Fields, from : Nat, to : Nat])
  BY DEF IInv, CursorsInside
<1>2. /\ Slice(field, cursor, n) \in [field : Fields, from : Nat, to : Nat]
      /\ Slice(field, cursor, n).field = field
  BY DEF Slice, IInv, CursorsInside
<1> DEFINE slice == Slice(field, cursor, n)
<1>3. reads' = Append(reads, slice)
  BY DEF Consume
<1> HIDE DEF slice
<1>4. /\ DOMAIN reads' = 1 .. Len(reads) + 1 /\ DOMAIN reads = 1 .. Len(reads)
      /\ Len(reads) \in Nat
      /\ \A k \in DOMAIN reads : reads'[k] = reads[k]
      /\ reads'[Len(reads) + 1] = slice
  <2>1. slice \in [field : Fields, from : Nat, to : Nat]
    BY <1>2 DEF slice
  <2> QED
    BY <1>1, <1>3, <2>1
<1>5. slice.field = field
  BY <1>2 DEF slice
<1>6. \A k \in DOMAIN reads' : reads'[k].field \in FieldsRead \union {field}
  BY <1>4, <1>5 DEF FieldsRead
<1>7. \A k \in DOMAIN reads : reads[k].field \in FieldsRead'
  <2> TAKE k \in DOMAIN reads
  <2>1. k \in DOMAIN reads' /\ reads'[k] = reads[k]
    BY <1>4
  <2> QED
    BY <2>1 DEF FieldsRead
<1>8. field \in FieldsRead'
  <2>1. Len(reads) + 1 \in DOMAIN reads' /\ reads'[Len(reads) + 1].field = field
    BY <1>4, <1>5
  <2> QED
    BY <2>1 DEF FieldsRead
<1> QED
  BY <1>6, <1>7, <1>8 DEF FieldsRead

\* A read takes its field from what is to come to what is read; of a name the
\* length goes first.
LEMMA FieldsMove ==
    ASSUME IInv, ReadBytes \/ ReadNumber \/ ReadNameLength
    PROVE  /\ FieldsRead \subseteq FieldsRead'
           /\ FieldsRead \union FieldsOf(pending) \subseteq FieldsRead' \union FieldsOf(pending')
           /\ FieldsOf(pending') \subseteq FieldsOf(pending)
           /\ FieldsRead' \subseteq FieldsRead \union {"len", Head(pending).field}
           /\ ReadNumber \/ ReadNameLength =>
                FieldsRead' \intersect {"ty.address", "fungible_asset.address"} \subseteq FieldsRead
           /\ UNCHANGED <<request, stage, status>>
<1> DEFINE read == Head(pending)
<1>1. /\ pending # << >>
      /\ UNCHANGED <<request, stage, status>>
  BY DEF ReadBytes, ReadNumber, ReadNameLength, Reading
<1>2. /\ stage \in {"header", "function", "arguments"}
      /\ read \in ReadsOf(stage)
      /\ pending \in Seq(ReadsOf(stage))
      /\ Tail(pending) \in Seq(ReadsOf(stage))
  BY <1>1, ReadOfStage DEF IInv, PendingOfStage
<1>3. FieldsOf(pending) = {read.field} \union FieldsOf(Tail(pending))
  BY <1>1, <1>2, FieldsOfTail
<1>4. CASE ReadBytes
  <2>1. /\ read.kind = "bytes"
        /\ pending' = Tail(pending)
        /\ Consume(read.field, read.cursor, read.len)
    BY <1>4 DEF ReadBytes, Reading
  <2> HIDE DEF read
  <2>2. read.field \in Fields /\ read.cursor \in Cursors /\ read.len \in Nat
    BY <1>2, <2>1 DEF ReadsOf, HeaderReads, CallReads, ByteReads, VariantReads, NumberReads,
                      TextReads, Fields
  <2>3. FieldsRead' = FieldsRead \union {read.field}
    BY <2>1, <2>2, FieldAdded
  <2>4. ~ReadNumber /\ ~ReadNameLength
    BY <2>1 DEF ReadNumber, ReadNameLength, Reading, read
  <2> QED
    BY <1>1, <1>3, <2>1, <2>3, <2>4 DEF read
<1>5. CASE ReadNumber
  <2>1. /\ read.kind = "number"
        /\ pending' = Tail(pending)
        /\ \E value \in Numbers : Consume(read.field, "buf", Digits(value))
    BY <1>5 DEF ReadNumber, Reading
  <2> HIDE DEF read
  <2>2. read.field \in NumberFields \union {"payload_variant"}
    BY <1>2, <2>1 DEF ReadsOf, HeaderReads, CallReads, ByteReads, VariantReads, NumberReads,
                      TextReads
  <2>3. PICK value \in Numbers : Consume(read.field, "buf", Digits(value))
    BY <2>1
  <2>4. Digits(value) \in Nat /\ "buf" \in Cursors /\ read.field \in Fields
    BY <2>2, DigitsType, NumbersAssumption DEF Cursors, Fields
  <2>5. FieldsRead' = FieldsRead \union {read.field}
    BY <2>3, <2>4, FieldAdded
  <2>6. read.field \notin {"ty.address", "fungible_asset.address"}
    BY <2>2 DEF NumberFields
  <2> QED
    BY <1>1, <1>3, <2>1, <2>5, <2>6 DEF read
<1>6. CASE ReadNameLength
  <2>1. read.kind = "text"
    BY <1>6 DEF ReadNameLength, Reading
  <2>2. PICK name \in read.names :
          /\ Consume("len", "buf", Digits(name.len))
          /\ pending' = << Bytes(read.field, "buf", name.len, read.bytes_error) >>
                           \o Tail(pending)
    BY <1>6 DEF ReadNameLength
  <2> HIDE DEF read
  <2>3. stage # "header" /\ read \in TextReads
    BY <1>2, <2>1 DEF ReadsOf, HeaderReads, CallReads, ByteReads, VariantReads, NumberReads
  <2>4. /\ read.field \in NameFields /\ read.bytes_error \in Errors
        /\ name.len \in Nat /\ Digits(name.len) \in Nat
    BY <2>3, DigitsType DEF TextReads, Names
  <2>5. FieldsRead' = FieldsRead \union {"len"}
    <3>1. "buf" \in Cursors /\ "len" \in Fields
      BY DEF Cursors, Fields
    <3> QED
      BY <2>2, <2>4, <3>1, FieldAdded
  <2> DEFINE first == Bytes(read.field, "buf", name.len, read.bytes_error)
  <2>6. first.field = read.field /\ first \in CallReads
    BY <2>4 DEF Bytes, CallReads, ByteReads, CursorOf, FooterFields, CallFields, NameFields, Cursors
  <2> HIDE DEF first
  <2>7. << first >> \in Seq(CallReads) /\ Tail(pending) \in Seq(CallReads)
    BY <1>2, <2>3, <2>6 DEF ReadsOf
  <2>8. FieldsOf(<< first >>) = {read.field}
    BY <2>6 DEF FieldsOf
  <2>9. FieldsOf(pending') = FieldsOf(pending)
    <3>1. pending' = << first >> \o Tail(pending)
      BY <2>2 DEF first
    <3>2. FieldsOf(pending') = FieldsOf(<< first >>) \union FieldsOf(Tail(pending))
      BY <2>7, <3>1, FieldsOfBoth
    <3> QED
      BY <1>3, <2>8, <3>2
  <2> QED
    BY <1>1, <2>5, <2>9
<1> QED
  BY <1>4, <1>5, <1>6

\* What a read leaves in the transaction, field by field.
LEMMA NamesOfRead ==
    ASSUME IInv, ReadBytes \/ ReadNumber \/ ReadNameLength
    PROVE  /\ UNCHANGED <<tx.tx_variant, tx.known_type>>
           /\ stage \in {"function", "arguments"} => UNCHANGED tx.payload_variant
           /\ Head(pending).field \notin FunctionFields =>
                UNCHANGED <<tx.address_ends_in_one, tx.module_name, tx.function_name>>
           /\ \/ UNCHANGED tx.coin.address
              \/ tx'.coin.address \in CoinAddresses
           /\ Head(pending).field = "ty.address" /\ ReadBytes =>
                tx'.coin.address \in CoinAddresses
           /\ \/ UNCHANGED tx.fungible_asset
              \/ tx'.fungible_asset \in CoinAddresses
           /\ Head(pending).field = "fungible_asset.address" /\ ReadBytes =>
                tx'.fungible_asset \in CoinAddresses
<1> DEFINE read == Head(pending)
<1>1. pending # << >>
  BY DEF ReadBytes, ReadNumber, ReadNameLength, Reading
<1>2. /\ stage \in {"header", "function", "arguments"}
      /\ read \in ReadsOf(stage)
      /\ tx \in TxRecord
  BY <1>1, ReadOfStage DEF IInv, TransactionOfStage
<1>3. CASE ReadBytes
  <2>1. tx' \in AfterBytes(read.field) /\ read.kind = "bytes"
    BY <1>3 DEF ReadBytes, Reading
  <2> HIDE DEF read
  <2>2. \/ /\ read.field = "module_id.address"
           /\ \E b \in BOOLEAN : tx' = [tx EXCEPT !.address_ends_in_one = b]
        \/ /\ read.field = "ty.address"
           /\ \E a \in CoinAddresses : tx' = [tx EXCEPT !.coin.address = a]
        \/ /\ read.field = "fungible_asset.address"
           /\ \E a \in CoinAddresses : tx' = [tx EXCEPT !.fungible_asset = a]
        \/ /\ read.field \notin {"module_id.address", "ty.address", "fungible_asset.address"}
           /\ tx' = tx
    BY <2>1, Zenon DEF AfterBytes
  <2> QED
    BY <1>2, <2>2 DEF TxRecord, FunctionFields, read
<1>4. CASE ReadNumber
  <2>1. /\ read.kind = "number"
        /\ \E value \in Numbers : tx' = IF read.field = "payload_variant"
                 THEN [tx EXCEPT !.payload_variant = value] ELSE tx
    BY <1>4 DEF ReadNumber, Reading
  <2>2. ~ReadBytes
    BY <2>1 DEF ReadBytes, Reading
  <2> HIDE DEF read
  <2>3. stage \in {"function", "arguments"} => read.field # "payload_variant"
    BY <1>2, <2>1 DEF ReadsOf, CallReads, ByteReads, NumberReads, TextReads, NumberFields
  <2> QED
    BY <1>2, <2>1, <2>2, <2>3 DEF TxRecord
<1>5. CASE ReadNameLength
  <2>1. read.kind = "text" /\ \E name \in read.names : tx' = AfterName(read.field, name)
    BY <1>5 DEF ReadNameLength, Reading
  <2>2. ~ReadBytes
    BY <2>1 DEF ReadBytes, Reading
  <2> HIDE DEF read
  <2>3. read \in TextReads
    BY <1>2, <2>1 DEF ReadsOf, HeaderReads, CallReads, ByteReads, VariantReads, NumberReads
  <2>4. read.field \in NameFields
    BY <2>3 DEF TextReads
  <2>5. PICK name : tx' = AfterName(read.field, name)
    BY <2>1
  <2>6. \/ read.field = "module_id.name" /\ tx' = [tx EXCEPT !.module_name = name]
        \/ read.field = "function_name" /\ tx' = [tx EXCEPT !.function_name = name]
        \/ read.field = "ty.module_name" /\ tx' = [tx EXCEPT !.coin.module_name = name]
        \/ read.field = "ty.name" /\ tx' = [tx EXCEPT !.coin.name = name]
    BY <2>4, <2>5, Zenon DEF AfterName, NameFields
  <2> QED
    BY <1>2, <2>2, <2>6 DEF TxRecord, FunctionFields, read
<1> QED
  BY <1>3, <1>4, <1>5

\* The type of a call is determined by three fields.
LEMMA KnownTypeSame ==
    ASSUME NEW t, NEW u,
           t.address_ends_in_one = u.address_ends_in_one,
           t.module_name = u.module_name, t.function_name = u.function_name
    PROVE  KnownType(t) = KnownType(u)
BY DEF KnownType

\* The fields of the grammars that are written out.
LEMMA FieldsOfParts ==
    /\ FieldsOf(Header) = HeaderFields \union {"payload_variant"}
    /\ FieldsOf(EntryFunction) = FunctionFields
    /\ FieldsOf(ReceiverAndAmount) = {"receiver_len", "receiver", "amount_len", "amount"}
    /\ FieldsOf(TypeStruct) =
         {"ty_size", "ty_arg_variant", "ty.address", "ty.module_name", "ty.name",
          "ty.type_args_size"}
    /\ FieldsOf(<< TypeArgsSize(0), ArgsSize(2) >>) = {"ty_size", "args_size"}
    /\ FieldsOf(<< ArgsSize(2) >>) = {"args_size"}
    /\ FieldsOf(<< ArgsSize(3), AddressLength("fa_store_addr_len"),
                   Bytes("fungible_asset.address", "buf", ADDRESS_LEN,
                         "STRUCT_ADDRESS_READ_ERROR") >>)
         = {"args_size", "fa_store_addr_len", "fungible_asset.address"}
<1>1. FieldsOf(Header) = HeaderFields \union {"payload_variant"}
  <2>1. \A a, b, c, d, e, f, g :
           FieldsOf(<< a, b, c, d, e, f, g >>)
             = {a.field, b.field, c.field, d.field, e.field, f.field, g.field}
    BY DEF FieldsOf
  <2> QED
    BY <2>1 DEF Header, Bytes, Number, HeaderFields, FooterFields
<1>2. FieldsOf(EntryFunction) = FunctionFields
  BY DEF FieldsOf, EntryFunction, Bytes, Text, FunctionFields
<1>3. FieldsOf(ReceiverAndAmount) = {"receiver_len", "receiver", "amount_len", "amount"}
  BY DEF FieldsOf, ReceiverAndAmount, AddressLength, Bytes, Number
<1>4. FieldsOf(TypeStruct) =
         {"ty_size", "ty_arg_variant", "ty.address", "ty.module_name", "ty.name",
          "ty.type_args_size"}
  <2>1. \A a, b, c, d, e, f :
           FieldsOf(<< a, b, c, d, e, f >>)
             = {a.field, b.field, c.field, d.field, e.field, f.field}
    BY DEF FieldsOf
  <2> QED
    BY <2>1 DEF TypeStruct, TypeArgsSize, Bytes, Number, Text
<1>5. FieldsOf(<< TypeArgsSize(0), ArgsSize(2) >>) = {"ty_size", "args_size"}
  BY DEF FieldsOf, TypeArgsSize, ArgsSize, Number
<1>6. FieldsOf(<< ArgsSize(2) >>) = {"args_size"}
  BY DEF FieldsOf, ArgsSize, Number
<1>7. FieldsOf(<< ArgsSize(3), AddressLength("fa_store_addr_len"),
                   Bytes("fungible_asset.address", "buf", ADDRESS_LEN,
                         "STRUCT_ADDRESS_READ_ERROR") >>)
         = {"args_size", "fa_store_addr_len", "fungible_asset.address"}
  BY DEF FieldsOf, AddressLength, ArgsSize, Number, Bytes
<1> QED
  BY <1>1, <1>2, <1>3, <1>4, <1>5, <1>6, <1>7

\* What a known call carries, without the numbers in front of it.
Carried(type) ==
    {"receiver", "amount"}
        \union (IF type \in CoinTypes \union {"FUNC_FUNGIBLE_STORE_TRANSFER"}
                THEN {"ty.address", "ty.module_name", "ty.name"} ELSE {})
        \union (IF type = "FUNC_FUNGIBLE_STORE_TRANSFER"
                THEN {"fungible_asset.address"} ELSE {})

\* Every known call has a grammar of its own.
LEMMA ArgumentsOf ==
    /\ Arguments("FUNC_UNKNOWN") = << >>
    /\ Arguments("FUNC_APTOS_ACCOUNT_TRANSFER") = AccountTransfer
    /\ \A type \in CoinTypes : Arguments(type) = CoinTransfer
    /\ Arguments("FUNC_FUNGIBLE_STORE_TRANSFER") = FaTransfer
    /\ \A type \in StakeTypes : Arguments(type) = Delegation
<1>1. ASSUME NEW type,
             type # "FUNC_APTOS_ACCOUNT_TRANSFER", type \notin CoinTypes,
             type # "FUNC_FUNGIBLE_STORE_TRANSFER", type \notin StakeTypes
      PROVE  Arguments(type) = << >>
  BY <1>1, Zenon DEF Arguments
<1>2. ASSUME NEW type,
             type = "FUNC_APTOS_ACCOUNT_TRANSFER", type \notin CoinTypes,
             type # "FUNC_FUNGIBLE_STORE_TRANSFER", type \notin StakeTypes
      PROVE  Arguments(type) = AccountTransfer
  BY <1>2, Zenon DEF Arguments
<1>3. ASSUME NEW type,
             type # "FUNC_APTOS_ACCOUNT_TRANSFER", type \in CoinTypes,
             type # "FUNC_FUNGIBLE_STORE_TRANSFER", type \notin StakeTypes
      PROVE  Arguments(type) = CoinTransfer
  BY <1>3, Zenon DEF Arguments
<1>4. ASSUME NEW type,
             type # "FUNC_APTOS_ACCOUNT_TRANSFER", type \notin CoinTypes,
             type = "FUNC_FUNGIBLE_STORE_TRANSFER", type \notin StakeTypes
      PROVE  Arguments(type) = FaTransfer
  BY <1>4, Zenon DEF Arguments
<1>5. ASSUME NEW type,
             type # "FUNC_APTOS_ACCOUNT_TRANSFER", type \notin CoinTypes,
             type # "FUNC_FUNGIBLE_STORE_TRANSFER", type \in StakeTypes
      PROVE  Arguments(type) = Delegation
  BY <1>5, Zenon DEF Arguments
<1> QED
  BY <1>1, <1>2, <1>3, <1>4, <1>5 DEF CoinTypes, StakeTypes

\* The arguments of a call that the app knows are what it carries and numbers;
\* of the others nothing is read.
LEMMA FieldsOfArguments ==
    /\ FieldsOf(Arguments("FUNC_UNKNOWN")) = {}
    /\ \A type \in KnownTypes \ {"FUNC_UNKNOWN"} :
          /\ Carried(type) \subseteq FieldsOf(Arguments(type))
          /\ FieldsOf(Arguments(type)) \subseteq Carried(type) \union NumberFields
<1> DEFINE sizes == << TypeArgsSize(0), ArgsSize(2) >>
           size == << ArgsSize(2) >>
           asset == << ArgsSize(3), AddressLength("fa_store_addr_len"),
                       Bytes("fungible_asset.address", "buf", ADDRESS_LEN,
                             "STRUCT_ADDRESS_READ_ERROR") >>
<1>1. /\ sizes \in Seq(CallReads) /\ size \in Seq(CallReads) /\ asset \in Seq(CallReads)
      /\ ReceiverAndAmount \in Seq(CallReads) /\ TypeStruct \in Seq(CallReads)
  <2>1. Bytes("fungible_asset.address", "buf", ADDRESS_LEN, "STRUCT_ADDRESS_READ_ERROR")
          \in CallReads
    BY DEF Bytes, ByteReads, CursorOf, FooterFields, ADDRESS_LEN, Cursors, CallReads, CallFields, Errors
  <2> QED
    BY <2>1, SmallReadsType, ReceiverAndAmountType, TypeStructType
<1>2. /\ AccountTransfer = sizes \o ReceiverAndAmount
      /\ Delegation = sizes \o ReceiverAndAmount
      /\ CoinTransfer = (TypeStruct \o size) \o ReceiverAndAmount
      /\ FaTransfer = (TypeStruct \o asset) \o ReceiverAndAmount
  BY DEF AccountTransfer, Delegation, CoinTransfer, FaTransfer
<1>3. /\ FieldsOf(sizes) = {"ty_size", "args_size"}
      /\ FieldsOf(size) = {"args_size"}
      /\ FieldsOf(asset) = {"args_size", "fa_store_addr_len", "fungible_asset.address"}
  BY FieldsOfParts
<1> HIDE DEF sizes, size, asset
<1>4. /\ TypeStruct \o size \in Seq(CallReads)
      /\ TypeStruct \o asset \in Seq(CallReads)
  BY <1>1
<1>5. /\ FieldsOf(AccountTransfer) = FieldsOf(sizes) \union FieldsOf(ReceiverAndAmount)
      /\ FieldsOf(Delegation) = FieldsOf(sizes) \union FieldsOf(ReceiverAndAmount)
      /\ FieldsOf(CoinTransfer) =
            FieldsOf(TypeStruct) \union FieldsOf(size) \union FieldsOf(ReceiverAndAmount)
      /\ FieldsOf(FaTransfer) =
            FieldsOf(TypeStruct) \union FieldsOf(asset) \union FieldsOf(ReceiverAndAmount)
  <2>1. /\ FieldsOf(sizes \o ReceiverAndAmount) = FieldsOf(sizes) \union FieldsOf(ReceiverAndAmount)
        /\ FieldsOf(TypeStruct \o size) = FieldsOf(TypeStruct) \union FieldsOf(size)
        /\ FieldsOf(TypeStruct \o asset) = FieldsOf(TypeStruct) \union FieldsOf(asset)
    BY <1>1, FieldsOfBoth
  <2>2. FieldsOf((TypeStruct \o size) \o ReceiverAndAmount) =
            FieldsOf(TypeStruct \o size) \union FieldsOf(ReceiverAndAmount)
    BY <1>1, <1>4, FieldsOfBoth
  <2>3. FieldsOf((TypeStruct \o asset) \o ReceiverAndAmount) =
            FieldsOf(TypeStruct \o asset) \union FieldsOf(ReceiverAndAmount)
    BY <1>1, <1>4, FieldsOfBoth
  <2> QED
    BY <1>2, <2>1, <2>2, <2>3
<1>6. FieldsOf(Arguments("FUNC_UNKNOWN")) = {}
  <2>1. Arguments("FUNC_UNKNOWN") = << >>
    BY ArgumentsOf
  <2> QED
    BY <2>1 DEF FieldsOf
<1>7. ASSUME NEW type \in KnownTypes \ {"FUNC_UNKNOWN"}
      PROVE  /\ Carried(type) \subseteq FieldsOf(Arguments(type))
             /\ FieldsOf(Arguments(type)) \subseteq Carried(type) \union NumberFields
  <2>1. CASE type = "FUNC_APTOS_ACCOUNT_TRANSFER"
    <3>1. Arguments(type) = AccountTransfer
      BY <2>1, ArgumentsOf
    <3> QED
      BY <1>3, <1>5, <2>1, <3>1, FieldsOfParts DEF Carried, NumberFields, CoinTypes
  <2>2. CASE type \in CoinTypes
    <3>1. Arguments(type) = CoinTransfer
      BY <2>2, ArgumentsOf
    <3> QED
      BY <1>3, <1>5, <2>2, <3>1, FieldsOfParts DEF Carried, NumberFields, CoinTypes
  <2>3. CASE type = "FUNC_FUNGIBLE_STORE_TRANSFER"
    <3>1. Arguments(type) = FaTransfer
      BY <2>3, ArgumentsOf
    <3> QED
      BY <1>3, <1>5, <2>3, <3>1, FieldsOfParts DEF Carried, NumberFields, CoinTypes
  <2>4. CASE type \in StakeTypes
    <3>1. Arguments(type) = Delegation
      BY <2>4, ArgumentsOf
    <3> QED
      BY <1>3, <1>5, <2>4, <3>1, FieldsOfParts DEF Carried, NumberFields, CoinTypes, StakeTypes
  <2> QED
    BY <2>1, <2>2, <2>3, <2>4 DEF KnownTypes
<1> QED
  BY <1>6, <1>7

\* The arguments do not name the function again.
LEMMA ArgumentsReadNoName ==
    \A type \in KnownTypes : FieldsOf(Arguments(type)) \intersect FunctionFields = {}
BY FieldsOfArguments DEF Carried, NumberFields, FunctionFields

LEMMA InitCovered == Init => Covered
BY DEF Init, Covered, Accepted, FieldsRead

\* The prefix of a transaction is read with its variant.
LEMMA BeginCovered == IInv /\ Covered /\ (TooLong \/ TakeWhole \/ BeginTransaction) => Covered'
<1> SUFFICES ASSUME IInv, Covered, TooLong \/ TakeWhole \/ BeginTransaction
             PROVE  Covered'
  OBVIOUS
<1>1. CASE TooLong
  <2>1. stage' = "done" /\ ~Accepted' /\ tx' = tx /\ reads' = reads
    BY <1>1 DEF TooLong, Stop, Accepted
  <2> QED
    BY <2>1 DEF Covered, FieldsRead
<1>2. CASE TakeWhole
  <2>1. /\ stage = "variant" /\ reads = << >> /\ stage' = "done" /\ pending' = << >>
        /\ tx' = [tx EXCEPT !.tx_variant = Variant] /\ Variant # "TX_RAW"
    BY <1>2 DEF TakeWhole, Stop, IInv, CursorsInside
  <2>2. /\ tx'.tx_variant = Variant
    BY <2>1 DEF IInv, TransactionOfStage, TxRecord
  <2>3. CASE Variant = "TX_RAW_WITH_DATA"
    <3>1. FieldsRead' = FieldsRead \union {"prefix"}
      <4>1. "prefix" \in Fields /\ "buf" \in Cursors /\ TX_HASHED_PREFIX_LEN \in Nat
        BY DEF Fields, Cursors, TX_HASHED_PREFIX_LEN
      <4> QED
        BY <1>2, <2>3, <4>1, FieldAdded DEF TakeWhole
    <3>2. FieldsRead = {}
      BY <2>1 DEF FieldsRead
    <3> QED
      BY <2>1, <2>2, <3>1, <3>2 DEF Covered
  <2>4. CASE Variant # "TX_RAW_WITH_DATA"
    <3>1. reads' = << >>
      BY <1>2, <2>1, <2>4 DEF TakeWhole
    <3>2. FieldsRead' = {}
      BY <3>1 DEF FieldsRead
    <3> QED
      BY <2>1, <2>2, <2>4, <3>2 DEF Covered
  <2> QED
    BY <2>3, <2>4
<1>3. CASE BeginTransaction
  <2>1. /\ stage = "variant" /\ stage' = "header" /\ pending' = Header /\ status' = status
        /\ reads' = << Slice("prefix", "buf", TX_HASHED_PREFIX_LEN) >>
    BY <1>3 DEF BeginTransaction
  <2>2. FieldsRead' = {"prefix"}
    <3>1. Slice("prefix", "buf", TX_HASHED_PREFIX_LEN).field = "prefix"
      BY DEF Slice
    <3> QED
      BY <2>1, <3>1 DEF FieldsRead
  <2>3. ~Accepted'
    BY <2>1 DEF Accepted, IInv, TransactionOfStage
  <2> QED
    BY <2>1, <2>2, <2>3 DEF Covered
<1> QED
  BY <1>1, <1>2, <1>3

LEMMA ReadCovered == IInv /\ Covered /\ (ReadBytes \/ ReadNumber \/ ReadNameLength) => Covered'
<1> SUFFICES ASSUME IInv, Covered, ReadBytes \/ ReadNumber \/ ReadNameLength
             PROVE  Covered'
  OBVIOUS
<1>1. /\ FieldsRead \subseteq FieldsRead'
      /\ FieldsRead \union FieldsOf(pending) \subseteq FieldsRead' \union FieldsOf(pending')
      /\ FieldsOf(pending') \subseteq FieldsOf(pending)
      /\ FieldsRead' \subseteq FieldsRead \union {"len", Head(pending).field}
      /\ ReadNumber \/ ReadNameLength =>
            FieldsRead' \intersect {"ty.address", "fungible_asset.address"} \subseteq FieldsRead
      /\ UNCHANGED <<request, stage, status>>
  BY FieldsMove
<1>2. pending # << >> /\ stage \in {"header", "function", "arguments"} /\ ~Accepted'
  <2>1. pending # << >>
    BY DEF ReadBytes, ReadNumber, ReadNameLength, Reading
  <2> QED
    BY <1>1, <2>1, ReadOfStage DEF Accepted, IInv, TransactionOfStage
<1>3. Head(pending).field \in FieldsOf(pending)
  BY <1>2, FieldsOfTail DEF IInv, PendingOfStage
<1>4. /\ UNCHANGED <<tx.tx_variant, tx.known_type>>
      /\ Head(pending).field \notin FunctionFields =>
            UNCHANGED <<tx.address_ends_in_one, tx.module_name, tx.function_name>>
  BY NamesOfRead
<1>5. "ty.address" \in FieldsRead' => tx'.coin.address \in CoinAddresses
  <2>1. \/ UNCHANGED tx.coin.address
        \/ tx'.coin.address \in CoinAddresses
    BY NamesOfRead
  <2>2. Head(pending).field = "ty.address" /\ ReadBytes => tx'.coin.address \in CoinAddresses
    BY NamesOfRead
  <2>3. "ty.address" \in FieldsRead => tx.coin.address \in CoinAddresses
    BY DEF Covered
  <2> QED
    BY <1>1, <2>1, <2>2, <2>3
<1>6. "fungible_asset.address" \in FieldsRead' => tx'.fungible_asset \in CoinAddresses
  <2>1. \/ UNCHANGED tx.fungible_asset
        \/ tx'.fungible_asset \in CoinAddresses
    BY NamesOfRead
  <2>2. Head(pending).field = "fungible_asset.address" /\ ReadBytes =>
            tx'.fungible_asset \in CoinAddresses
    BY NamesOfRead
  <2>3. "fungible_asset.address" \in FieldsRead => tx.fungible_asset \in CoinAddresses
    BY DEF Covered
  <2> QED
    BY <1>1, <2>1, <2>2, <2>3
<1>7. stage = "arguments" => tx'.known_type = KnownType(tx')
  <2> SUFFICES ASSUME stage = "arguments" PROVE tx'.known_type = KnownType(tx')
    OBVIOUS
  <2>1. Head(pending).field \notin FunctionFields /\ tx.known_type = KnownType(tx)
    BY <1>3 DEF Covered
  <2>2. KnownType(tx') = KnownType(tx)
    BY <1>4, <2>1, KnownTypeSame
  <2> QED
    BY <1>4, <2>1, <2>2
<1>8. CASE stage = "header"
  BY <1>1, <1>2, <1>5, <1>6, <1>8 DEF Covered
<1>9. CASE stage = "function"
  BY <1>1, <1>2, <1>5, <1>6, <1>9 DEF Covered
<1>10. CASE stage = "arguments"
  <2>1. FieldsOf(Arguments(tx'.known_type)) = FieldsOf(Arguments(tx.known_type))
    BY <1>4
  <2> QED
    BY <1>1, <1>2, <1>5, <1>6, <1>7, <1>10, <2>1 DEF Covered
<1> QED
  BY <1>2, <1>8, <1>9, <1>10

LEMMA ReadFailsCovered ==
    IInv /\ Covered /\ (UnexpectedNumber \/ BytesMissing \/ NumberMalformed) => Covered'
<1> SUFFICES ASSUME IInv, Covered, UnexpectedNumber \/ BytesMissing \/ NumberMalformed
             PROVE  Covered'
  OBVIOUS
<1>1. UNCHANGED <<tx, reads>> /\ stage' = "done" /\ status' \in Errors
  BY ErrorOfRead DEF UnexpectedNumber, BytesMissing, NumberMalformed, Reading, Stop
<1>2. ~Accepted'
  BY <1>1 DEF Accepted, Errors
<1> QED
  BY <1>1, <1>2 DEF Covered, FieldsRead

\* Behind the last read of a part nothing of it is left.
LEMMA EndCovered == IInv /\ Covered /\ (EndHeader \/ EndFunction \/ EndArguments) => Covered'
<1> SUFFICES ASSUME IInv, Covered, EndHeader \/ EndFunction \/ EndArguments
             PROVE  Covered'
  OBVIOUS
<1>1. reads' = reads /\ FieldsRead' = FieldsRead /\ FieldsOf(pending) = {}
  BY DEF EndHeader, EndFunction, EndArguments, FieldsRead, FieldsOf
<1>2. CASE EndHeader
  <2>1. stage = "header" /\ tx' = tx /\ tx.tx_variant = "TX_RAW"
    BY <1>2 DEF EndHeader, IInv, TransactionOfStage
  <2>2. CASE tx.payload_variant = PAYLOAD_ENTRY_FUNCTION
    <3>1. stage' = "function" /\ pending' = EntryFunction /\ ~Accepted'
      BY <1>2, <2>1, <2>2 DEF EndHeader, Accepted, IInv, TransactionOfStage
    <3> QED
      BY <1>1, <2>1, <3>1 DEF Covered
  <2>3. CASE tx.payload_variant # PAYLOAD_ENTRY_FUNCTION
    <3>1. stage' = "done"
      BY <1>2, <2>3 DEF EndHeader, Stop
    <3> QED
      BY <1>1, <2>1, <2>3, <3>1 DEF Covered
  <2> QED
    BY <2>2, <2>3
<1>3. CASE EndFunction
  <2>1. /\ stage = "function" /\ stage' = "arguments"
        /\ tx' = [tx EXCEPT !.known_type = KnownType(tx)]
        /\ pending' = Arguments(KnownType(tx))
        /\ ~Accepted'
    BY <1>3 DEF EndFunction, Accepted, IInv, TransactionOfStage
  <2>2. /\ tx'.known_type = KnownType(tx)
        /\ tx'.coin = tx.coin /\ tx'.fungible_asset = tx.fungible_asset
        /\ tx'.address_ends_in_one = tx.address_ends_in_one
        /\ tx'.module_name = tx.module_name /\ tx'.function_name = tx.function_name
    BY <2>1 DEF IInv, TransactionOfStage, TxRecord
  <2>3. KnownType(tx') = KnownType(tx)
    BY <2>2, KnownTypeSame
  <2>4. FieldsOf(pending') = FieldsOf(Arguments(tx'.known_type))
    BY <2>1, <2>2
  <2>5. FieldsOf(pending') \intersect FunctionFields = {}
    BY <2>1, KnownTypeType, ArgumentsReadNoName
  <2> QED
    BY <1>1, <2>1, <2>2, <2>3, <2>4, <2>5 DEF Covered
<1>4. CASE EndArguments
  <2>1. stage = "arguments" /\ tx' = tx /\ tx.tx_variant = "TX_RAW" /\ stage' = "done"
    BY <1>4 DEF EndArguments, Stop, IInv, TransactionOfStage
  <2> QED
    BY <1>1, <2>1 DEF Covered
<1> QED
  BY <1>2, <1>3, <1>4

LEMMA NextCovered == IInv /\ Covered /\ [Next]_vars => Covered'
<1> SUFFICES ASSUME IInv, Covered, [Next]_vars PROVE Covered'
  OBVIOUS
<1>1. CASE TooLong \/ TakeWhole \/ BeginTransaction
  BY <1>1, BeginCovered
<1>2. CASE ReadBytes \/ ReadNumber \/ ReadNameLength
  BY <1>2, ReadCovered
<1>3. CASE UnexpectedNumber \/ BytesMissing \/ NumberMalformed
  BY <1>3, ReadFailsCovered
<1>4. CASE EndHeader \/ EndFunction \/ EndArguments
  BY <1>4, EndCovered
<1>5. CASE UNCHANGED vars
  BY <1>5 DEF vars, Covered, FieldsRead, Accepted
<1> QED
  BY <1>1, <1>2, <1>3, <1>4, <1>5 DEF Next

\* A call that is accepted has been read by the grammar of its type: the
\* header, the function and all the arguments.
CallIsRead ==
    Accepted /\ tx.tx_variant = "TX_RAW" /\ tx.payload_variant = PAYLOAD_ENTRY_FUNCTION =>
        /\ tx.known_type = KnownType(tx)
        /\ FieldsOf(Header) \union FieldsOf(EntryFunction) \union FieldsOf(Arguments(tx.known_type))
              \subseteq FieldsRead

\* No part of an accepted call is skipped, whichever function parsed it.
THEOREM ParserReadsCall == Spec => []CallIsRead
<1>1. Covered => CallIsRead
  BY DEF Covered, CallIsRead
<1> QED
  BY <1>1, InitCovered, NextCovered, InitIInv, NextIInv, PTL DEF Spec
-----------------------------------------------------------------------------
(* Every byte once *)

\* The slices that a cursor has read, and where it started.
SlicesOf(cursor) == {k \in DOMAIN reads : CursorOf(reads[k].field) = cursor}
StartOf(cursor) == IF cursor = "buf" THEN 0 ELSE request.size - TX_FOOTER_LEN

In(k, i) == reads[k].from <= i /\ i < reads[k].to

\* What a cursor has read lies between its start and where it is, leaves no byte
\* out and takes none twice.
Tiled(cursor) ==
    /\ StartOf(cursor) <= offset[cursor]
    /\ \A k \in SlicesOf(cursor) :
          StartOf(cursor) <= reads[k].from /\ reads[k].to <= offset[cursor]
    /\ \A i \in Int : StartOf(cursor) <= i /\ i < offset[cursor] =>
          \E k \in SlicesOf(cursor) : In(k, i)
    /\ \A j, k \in SlicesOf(cursor) :
          j # k => reads[j].to <= reads[k].from \/ reads[k].to <= reads[j].from

\* How much of the footer is read when the first n reads of the header are done.
FooterRead(n) == << 0, 0, 0, 8, 16, 24, 25, 25 >>[n + 1]

FooterInHeader ==
    \E n \in 0 .. 7 :
        /\ Len(pending) = 7 - n
        /\ \A i \in 1 .. 7 - n : pending[i] = Header[i + n]
        /\ offset["footer"] = request.size - TX_FOOTER_LEN + FooterRead(n)

\* Both cursors tile a transaction; the footer is read to the end by the header,
\* and the simplest call ends where it starts.
Tiles ==
    /\ stage = "variant" => tx.tx_variant = "TX_UNDEFINED"
    /\ tx.payload_variant # PAYLOAD_UNDEFINED => tx.tx_variant = "TX_RAW"
    /\ tx.tx_variant = "TX_RAW" => Tiled("buf") /\ Tiled("footer")
    /\ stage = "header" => FooterInHeader
    /\ stage \in {"function", "arguments"} => offset["footer"] = request.size
    /\ Accepted /\ tx.payload_variant = PAYLOAD_ENTRY_FUNCTION =>
          offset["footer"] = request.size
    /\ Accepted /\ tx.known_type = "FUNC_APTOS_ACCOUNT_TRANSFER" =>
          offset["buf"] = request.size - TX_FOOTER_LEN

LEMMA InitTiles == Init => Tiles
BY DEF Init, Tiles, NewTransaction, Accepted

\* The bounds of the slices are numbers.
LEMMA SliceBounds ==
    ASSUME IInv
    PROVE  /\ \A k \in DOMAIN reads : reads[k].from \in Nat /\ reads[k].to \in Nat
           /\ \A c \in Cursors : offset[c] \in Nat /\ StartOf(c) \in Int
           /\ request.size \in Nat
<1>1. reads \in Seq([field : Fields, from : Nat, to : Nat])
  BY DEF IInv, CursorsInside
<1>2. \A k \in DOMAIN reads : reads[k] \in [field : Fields, from : Nat, to : Nat]
  BY <1>1, InSequence
<1>3. request.size \in Nat
  BY RequestSize DEF IInv, CursorsInside
<1>4. \A c \in Cursors : offset[c] \in Nat /\ StartOf(c) \in Int
  BY <1>3 DEF IInv, CursorsInside, StartOf, TX_FOOTER_LEN, U64_LEN
<1> QED
  BY <1>2, <1>3, <1>4

\* A read goes on where the cursor has come to.
LEMMA TileAdded ==
    ASSUME IInv, NEW field \in Fields, NEW cursor \in Cursors, cursor = CursorOf(field),
           NEW n \in Nat, Consume(field, cursor, n), request' = request,
           NEW c \in Cursors, Tiled(c)
    PROVE  Tiled(c)'
<1> DEFINE slice == Slice(field, cursor, n)
<1>1. /\ slice.field = field /\ slice.from = offset[cursor] /\ slice.to = offset[cursor] + n
      /\ slice \in [field : Fields, from : Nat, to : Nat]
  BY SliceBounds DEF Slice
<1>2. reads \in Seq([field : Fields, from : Nat, to : Nat])
  BY DEF IInv, CursorsInside
<1>3. reads' = Append(reads, slice) /\ offset' = [offset EXCEPT ![cursor] = @ + n]
  BY DEF Consume
<1> HIDE DEF slice
<1>4. PICK last :
        /\ DOMAIN reads' = DOMAIN reads \union {last} /\ last \notin DOMAIN reads
        /\ \A k \in DOMAIN reads : reads'[k] = reads[k]
        /\ reads'[last] = slice
  <2>1. /\ DOMAIN reads' = DOMAIN reads \union {Len(reads) + 1} /\ Len(reads) + 1 \notin DOMAIN reads
        /\ \A k \in DOMAIN reads : reads'[k] = reads[k]
        /\ reads'[Len(reads) + 1] = slice
    BY <1>1, <1>2, <1>3
  <2> QED
    BY <2>1
<1>5. /\ offset'[cursor] = offset[cursor] + n
      /\ c # cursor => offset'[c] = offset[c]
      /\ StartOf(c)' = StartOf(c)
  BY <1>3 DEF IInv, CursorsInside, StartOf
<1>6. SlicesOf(c)' = SlicesOf(c) \union (IF c = cursor THEN {last} ELSE {})
  BY <1>1, <1>4 DEF SlicesOf
<1>7. CASE c # cursor
  <2>1. SlicesOf(c)' = SlicesOf(c) /\ \A k \in SlicesOf(c) : reads'[k] = reads[k]
    BY <1>4, <1>6, <1>7 DEF SlicesOf
  <2> QED
    BY <1>5, <1>7, <2>1 DEF Tiled, In
<1>8. CASE c = cursor
  <2>1. SlicesOf(c)' = SlicesOf(c) \union {last} /\ last \notin SlicesOf(c)
    BY <1>4, <1>6, <1>8 DEF SlicesOf
  <2>2. \A k \in SlicesOf(c) :
           /\ reads'[k] = reads[k]
           /\ reads[k].from \in Nat /\ reads[k].to \in Nat
           /\ StartOf(c) <= reads[k].from /\ reads[k].to <= offset[c]
    BY <1>4, SliceBounds DEF SlicesOf, Tiled
  <2>3. /\ reads'[last].from = offset[c] /\ reads'[last].to = offset[c] + n
        /\ offset'[c] = offset[c] + n
        /\ offset[c] \in Nat /\ StartOf(c) \in Int /\ StartOf(c) <= offset[c]
    BY <1>1, <1>4, <1>5, <1>8, SliceBounds DEF Tiled
  <2>4. \A k \in SlicesOf(c)' : StartOf(c)' <= reads'[k].from /\ reads'[k].to <= offset'[c]
    BY <1>5, <2>1, <2>2, <2>3
  <2>5. ASSUME NEW i \in Int, StartOf(c)' <= i, i < offset'[c]
        PROVE  \E k \in SlicesOf(c)' : In(k, i)'
    <3>1. CASE i < offset[c]
      <4>1. PICK k \in SlicesOf(c) : In(k, i)
        BY <1>5, <2>5, <3>1 DEF Tiled
      <4> QED
        BY <2>1, <2>2, <4>1 DEF In
    <3>2. CASE i >= offset[c]
      <4>1. In(last, i)'
        BY <2>3, <2>5, <3>2 DEF In
      <4> QED
        BY <2>1, <4>1
    <3> QED
      BY <2>3, <3>1, <3>2
  <2>6. ASSUME NEW j \in SlicesOf(c)', NEW k \in SlicesOf(c)', j # k
        PROVE  reads'[j].to <= reads'[k].from \/ reads'[k].to <= reads'[j].from
    <3>1. CASE j = last \/ k = last
      BY <2>1, <2>2, <2>3, <2>6, <3>1
    <3>2. CASE j # last /\ k # last
      <4>1. j \in SlicesOf(c) /\ k \in SlicesOf(c)
        BY <2>1, <3>2
      <4> QED
        BY <2>2, <2>6, <4>1 DEF Tiled
    <3> QED
      BY <3>1, <3>2
  <2>7. StartOf(c)' <= offset'[c]
    BY <1>5, <2>3
  <2> QED
    BY <2>4, <2>5, <2>6, <2>7 DEF Tiled
<1> QED
  BY <1>7, <1>8

LEMMA BeginTiles == IInv /\ Apart /\ Tiles /\ (TooLong \/ TakeWhole \/ BeginTransaction) => Tiles'
<1> SUFFICES ASSUME IInv, Apart, Tiles, TooLong \/ TakeWhole \/ BeginTransaction PROVE Tiles'
  OBVIOUS
<1>1. /\ stage = "variant" /\ request' = request
      /\ tx.payload_variant = PAYLOAD_UNDEFINED /\ tx'.payload_variant = PAYLOAD_UNDEFINED
      /\ tx.tx_variant = "TX_UNDEFINED"
      /\ tx.known_type = "FUNC_UNKNOWN" /\ tx'.known_type = "FUNC_UNKNOWN"
  BY DEF TooLong, TakeWhole, BeginTransaction, Apart, Progress, Tiles, IInv, TransactionOfStage,
         TxRecord
<1>2. CASE TooLong
  BY <1>1, <1>2 DEF TooLong, Stop, Tiles, PAYLOAD_UNDEFINED, PAYLOAD_ENTRY_FUNCTION
<1>3. CASE TakeWhole
  <2>1. tx'.tx_variant # "TX_RAW" /\ stage' = "done"
    BY <1>3 DEF TakeWhole, Stop, IInv, TransactionOfStage, TxRecord
  <2> QED
    BY <1>1, <2>1 DEF Tiles, PAYLOAD_UNDEFINED, PAYLOAD_ENTRY_FUNCTION
<1>4. CASE BeginTransaction
  <2>1. request.prefix = "raw"
    BY <1>4, Zenon DEF BeginTransaction, Variant
  <2>2. request.size \in Nat /\ request.size - 25 \in 0 .. SizeRange - 1
    BY <2>1, RequestSize, SizesAssumption DEF IInv, CursorsInside, TX_HASHED_PREFIX_LEN
  <2>3. (request.size - TX_FOOTER_LEN) % SizeRange = request.size - TX_FOOTER_LEN
    BY <2>2, NoWrap DEF TX_FOOTER_LEN, U64_LEN
  <2>4. offset'["buf"] = 32 /\ offset'["footer"] = request.size - TX_FOOTER_LEN
    BY <1>4, <2>3 DEF BeginTransaction, TX_HASHED_PREFIX_LEN
  <2>5. stage' = "header" /\ pending' = Header /\ ~Accepted' /\ tx'.tx_variant = "TX_RAW"
    BY <1>4 DEF BeginTransaction, IInv, TransactionOfStage, TxRecord, Accepted
  <2>6. FooterInHeader'
    <3>1. /\ Len(pending') = 7 - 0 /\ FooterRead(0) = 0
          /\ \A i \in 1 .. 7 - 0 : pending'[i] = Header[i + 0]
      BY <2>5, HeaderReadsInOrder DEF FooterRead
    <3>2. offset'["footer"] = request'.size - TX_FOOTER_LEN + FooterRead(0)
      BY <1>1, <2>2, <2>4, <3>1 DEF TX_FOOTER_LEN, U64_LEN
    <3> QED
      BY <3>1, <3>2 DEF FooterInHeader, FooterRead
  <2>7. reads' = << [field |-> "prefix", from |-> 0, to |-> 32] >>
    BY <1>1, <1>4 DEF BeginTransaction, Slice, IInv, CursorsInside, TX_HASHED_PREFIX_LEN
  <2>8. Tiled("buf")' /\ Tiled("footer")'
    <3>1. DOMAIN reads' = {1} /\ reads'[1].field = "prefix" /\ reads'[1].from = 0
          /\ reads'[1].to = 32
      BY <2>7
    <3>2. SlicesOf("buf")' = {1} /\ SlicesOf("footer")' = {}
      BY <3>1 DEF SlicesOf, CursorOf, FooterFields
    <3> QED
      BY <1>1, <2>2, <2>4, <3>1, <3>2 DEF Tiled, In, StartOf, TX_FOOTER_LEN, U64_LEN
  <2> QED
    BY <1>1, <2>5, <2>6, <2>8 DEF Tiles
<1> QED
  BY <1>2, <1>3, <1>4

\* A read of the header takes its place in the footer or none.
LEMMA HeaderRead ==
    ASSUME IInv, FooterInHeader, stage = "header", pending # << >>, pending' = Tail(pending),
           request' = request, NEW n \in Nat,
           Head(pending).kind = "bytes" =>
                Consume(Head(pending).field, Head(pending).cursor, Head(pending).len),
           Head(pending).kind = "number" => Consume(Head(pending).field, "buf", n)
    PROVE  FooterInHeader'
<1>1. PICK m \in 0 .. 7 :
        /\ Len(pending) = 7 - m
        /\ \A i \in 1 .. 7 - m : pending[i] = Header[i + m]
        /\ offset["footer"] = request.size - TX_FOOTER_LEN + FooterRead(m)
  BY DEF FooterInHeader
<1>2. pending \in Seq(HeaderReads)
  BY DEF IInv, PendingOfStage, ReadsOf
<1>3. m \in 0 .. 6 /\ Head(pending) = Header[m + 1]
  BY <1>1, <1>2
<1>4. /\ Len(pending') = 7 - (m + 1)
      /\ \A i \in 1 .. 7 - (m + 1) : pending'[i] = Header[i + (m + 1)]
  <2>1. /\ Len(pending') = Len(pending) - 1
        /\ \A i \in 1 .. Len(pending) - 1 : pending'[i] = pending[i + 1]
    BY <1>2, TailOfReads
  <2> QED
    BY <1>1, <1>3, <2>1
<1>5. offset'["footer"] = offset["footer"] + (FooterRead(m + 1) - FooterRead(m))
  <2>1. offset \in [Cursors -> Nat]
    BY DEF IInv, CursorsInside
  <2>2. CASE m \in {0, 1, 6}
    <3>1. offset'["footer"] = offset["footer"]
      BY <1>3, <2>1, <2>2 DEF Header, Bytes, Number, Consume, Cursors
    <3> QED
      BY <2>1, <2>2, <3>1 DEF FooterRead, Cursors
  <2>3. CASE m \in {2, 3, 4, 5}
    <3>1. /\ Head(pending).kind = "bytes" /\ Head(pending).cursor = "footer"
          /\ Head(pending).len = FooterRead(m + 1) - FooterRead(m)
      BY <1>3, <2>3 DEF Header, Bytes, FooterRead, U64_LEN
    <3> QED
      BY <2>1, <3>1 DEF Consume, Cursors
  <2> QED
    BY <1>3, <2>2, <2>3
<1>6. FooterRead(m) \in Int /\ FooterRead(m + 1) \in Int /\ request.size \in Nat
  BY <1>3, SliceBounds DEF FooterRead
<1>7. offset'["footer"] = request'.size - TX_FOOTER_LEN + FooterRead(m + 1)
  BY <1>1, <1>5, <1>6 DEF TX_FOOTER_LEN, U64_LEN
<1>8. m + 1 \in 0 .. 7
  BY <1>3
<1> QED
  BY <1>4, <1>7, <1>8 DEF FooterInHeader

LEMMA ReadTiled ==
    ASSUME IInv, Tiles, ReadBytes \/ ReadNumber \/ ReadNameLength
    PROVE  /\ Tiled("buf")' /\ Tiled("footer")'
           /\ stage = "header" => FooterInHeader'
           /\ stage # "header" => offset'["footer"] = offset["footer"]
<1> DEFINE read == Head(pending)
<1>1. pending # << >> /\ UNCHANGED <<request, stage, status>>
  BY DEF ReadBytes, ReadNumber, ReadNameLength, Reading
<1>2. /\ stage \in {"header", "function", "arguments"}
      /\ read \in ReadsOf(stage)
      /\ Tiled("buf") /\ Tiled("footer")
      /\ stage = "header" => FooterInHeader
      /\ offset \in [Cursors -> Nat]
  BY <1>1, ReadOfStage DEF IInv, TransactionOfStage, CursorsInside, Tiles
<1>3. CASE ReadBytes
  <2>1. /\ read.kind = "bytes" /\ pending' = Tail(pending)
        /\ Consume(read.field, read.cursor, read.len)
    BY <1>3 DEF ReadBytes, Reading
  <2>2. stage = "header" => FooterInHeader'
    BY <1>1, <1>2, <2>1, HeaderRead
  <2> HIDE DEF read
  <2>3. /\ read.field \in Fields /\ read.cursor \in Cursors /\ read.len \in Nat
        /\ read.cursor = CursorOf(read.field)
    BY <1>2, <2>1 DEF ReadsOf, HeaderReads, CallReads, ByteReads, VariantReads, NumberReads,
                      TextReads, Fields
  <2>4. Tiled("buf")' /\ Tiled("footer")'
    BY <1>1, <1>2, <2>1, <2>3, TileAdded DEF Cursors
  <2>5. stage # "header" => offset'["footer"] = offset["footer"]
    <3>1. stage # "header" => read.cursor = "buf"
      BY <1>2, <2>1 DEF ReadsOf, CallReads, ByteReads, NumberReads, TextReads, CursorOf,
                        CallFields, NameFields, FooterFields
    <3> QED
      BY <1>2, <2>1, <3>1 DEF Consume, Cursors
  <2> QED
    BY <2>2, <2>4, <2>5
<1>4. CASE ReadNumber
  <2>1. /\ read.kind = "number" /\ pending' = Tail(pending)
        /\ \E value \in Numbers : Consume(read.field, "buf", Digits(value))
    BY <1>4 DEF ReadNumber, Reading
  <2>2. PICK value \in Numbers : Consume(read.field, "buf", Digits(value))
    BY <2>1
  <2>3. Digits(value) \in Nat
    BY DigitsType, NumbersAssumption
  <2>4. stage = "header" => FooterInHeader'
    BY <1>1, <1>2, <2>1, <2>2, <2>3, HeaderRead
  <2> HIDE DEF read
  <2>5. read.field \in NumberFields \union {"payload_variant"}
    BY <1>2, <2>1 DEF ReadsOf, HeaderReads, CallReads, ByteReads, VariantReads, NumberReads,
                      TextReads
  <2>6. read.field \in Fields /\ "buf" \in Cursors /\ CursorOf(read.field) = "buf"
    BY <2>5 DEF Fields, Cursors, CursorOf, FooterFields, NumberFields
  <2>7. Tiled("buf")' /\ Tiled("footer")'
    BY <1>1, <1>2, <2>2, <2>3, <2>6, TileAdded DEF Cursors
  <2>8. offset'["footer"] = offset["footer"]
    BY <1>2, <2>2 DEF Consume, Cursors
  <2> QED
    BY <2>4, <2>7, <2>8
<1>5. CASE ReadNameLength
  <2>1. read.kind = "text" /\ \E name \in read.names : Consume("len", "buf", Digits(name.len))
    BY <1>5 DEF ReadNameLength, Reading
  <2> HIDE DEF read
  <2>2. stage # "header" /\ read \in TextReads
    BY <1>2, <2>1 DEF ReadsOf, HeaderReads, CallReads, ByteReads, VariantReads, NumberReads
  <2>3. PICK name \in read.names : Consume("len", "buf", Digits(name.len))
    BY <2>1
  <2>4. Digits(name.len) \in Nat
    BY <2>2, DigitsType DEF TextReads, Names
  <2>5. "len" \in Fields /\ "buf" \in Cursors /\ CursorOf("len") = "buf"
    BY DEF Fields, Cursors, CursorOf, FooterFields
  <2>6. Tiled("buf")' /\ Tiled("footer")'
    BY <1>1, <1>2, <2>3, <2>4, <2>5, TileAdded DEF Cursors
  <2>7. offset'["footer"] = offset["footer"]
    BY <1>2, <2>3 DEF Consume, Cursors
  <2> QED
    BY <2>2, <2>6, <2>7
<1> QED
  BY <1>3, <1>4, <1>5

LEMMA ReadTiles == IInv /\ Tiles /\ (ReadBytes \/ ReadNumber \/ ReadNameLength) => Tiles'
<1> SUFFICES ASSUME IInv, Tiles, ReadBytes \/ ReadNumber \/ ReadNameLength PROVE Tiles'
  OBVIOUS
<1>1. /\ UNCHANGED <<request, stage, status>>
      /\ stage \in {"header", "function", "arguments"} /\ ~Accepted'
  <2>1. pending # << >> /\ UNCHANGED <<request, stage, status>>
    BY DEF ReadBytes, ReadNumber, ReadNameLength, Reading
  <2> QED
    BY <2>1, ReadOfStage DEF Accepted, IInv, TransactionOfStage
<1>2. tx'.tx_variant = "TX_RAW"
  BY <1>1, NamesOfRead DEF IInv, TransactionOfStage
<1> QED
  BY <1>1, <1>2, ReadTiled DEF Tiles

\* Nothing is read when a part ends or a read fails.
LEMMA TiledStays ==
    ASSUME UNCHANGED <<request, offset, reads>>, NEW c, Tiled(c)
    PROVE  Tiled(c)'
BY DEF Tiled, SlicesOf, In, StartOf

LEMMA ReadFailsTiles ==
    IInv /\ Tiles /\ (UnexpectedNumber \/ BytesMissing \/ NumberMalformed) => Tiles'
<1> SUFFICES ASSUME IInv, Tiles, UnexpectedNumber \/ BytesMissing \/ NumberMalformed
             PROVE  Tiles'
  OBVIOUS
<1>1. UNCHANGED <<request, offset, tx, reads>> /\ stage' = "done" /\ status' \in Errors
  BY ErrorOfRead DEF UnexpectedNumber, BytesMissing, NumberMalformed, Reading, Stop
<1>2. ~Accepted'
  BY <1>1 DEF Accepted, Errors
<1> QED
  BY <1>1, <1>2, TiledStays DEF Tiles

LEMMA EndTiles == IInv /\ Apart /\ Tiles /\ (EndHeader \/ EndFunction \/ EndArguments) => Tiles'
<1> SUFFICES ASSUME IInv, Apart, Tiles, EndHeader \/ EndFunction \/ EndArguments PROVE Tiles'
  OBVIOUS
<1>1. UNCHANGED <<request, offset, reads>> /\ pending = << >>
  BY DEF EndHeader, EndFunction, EndArguments
<1>2. stage \in {"header", "function", "arguments"}
  BY DEF EndHeader, EndFunction, EndArguments
<1>3. tx.tx_variant = "TX_RAW" /\ Tiled("buf")' /\ Tiled("footer")'
  BY <1>1, <1>2, TiledStays DEF IInv, TransactionOfStage, Tiles
<1>4. CASE EndHeader
  <2>1. stage = "header" /\ tx' = tx /\ stage' \in {"function", "done"}
        /\ tx.known_type = "FUNC_UNKNOWN"
    BY <1>4 DEF EndHeader, Stop, IInv, TransactionOfStage
  <2>2. offset["footer"] = request.size
    <3>1. PICK n \in 0 .. 7 :
            /\ Len(pending) = 7 - n
            /\ offset["footer"] = request.size - TX_FOOTER_LEN + FooterRead(n)
      BY <2>1 DEF Tiles, FooterInHeader
    <3>2. n = 7
      BY <1>1, <3>1
    <3> QED
      BY <3>1, <3>2, SliceBounds DEF FooterRead, TX_FOOTER_LEN, U64_LEN
  <2> QED
    BY <1>1, <1>3, <2>1, <2>2 DEF Tiles
<1>5. CASE EndFunction
  <2>1. /\ stage = "function" /\ stage' = "arguments" /\ ~Accepted'
        /\ tx'.tx_variant = tx.tx_variant /\ tx'.payload_variant = tx.payload_variant
    BY <1>5 DEF EndFunction, Accepted, IInv, TransactionOfStage, TxRecord
  <2> QED
    BY <1>1, <1>3, <2>1 DEF Tiles
<1>6. CASE EndArguments
  <2>1. stage = "arguments" /\ stage' = "done" /\ tx' = tx /\ status' = StatusAtEnd
    BY <1>6 DEF EndArguments, Stop
  <2>2. offset["footer"] = request.size
    BY <2>1 DEF Tiles
  <2>3. (request.size - TX_FOOTER_LEN) % SizeRange = request.size - TX_FOOTER_LEN
    <3>1. request.size >= 104
      BY <2>1, SliceBounds DEF Apart, Progress, IInv, CursorsInside, Cursors
    <3>2. request.size - 25 \in 0 .. SizeRange - 1
      BY <3>1, RequestSize, LimitsType DEF IInv, CursorsInside
    <3> QED
      BY <3>2, NoWrap DEF TX_FOOTER_LEN, U64_LEN
  <2>4. Accepted' /\ tx.known_type = "FUNC_APTOS_ACCOUNT_TRANSFER" =>
            offset["buf"] = request.size - TX_FOOTER_LEN
    BY <2>1, <2>3 DEF Accepted, StatusAtEnd
  <2> QED
    BY <1>1, <1>3, <2>1, <2>2, <2>4 DEF Tiles
<1> QED
  BY <1>4, <1>5, <1>6

LEMMA NextTiles == IInv /\ Apart /\ Tiles /\ [Next]_vars => Tiles'
<1> SUFFICES ASSUME IInv, Apart, Tiles, [Next]_vars PROVE Tiles'
  OBVIOUS
<1>1. CASE TooLong \/ TakeWhole \/ BeginTransaction
  BY <1>1, BeginTiles
<1>2. CASE ReadBytes \/ ReadNumber \/ ReadNameLength
  BY <1>2, ReadTiles
<1>3. CASE UnexpectedNumber \/ BytesMissing \/ NumberMalformed
  BY <1>3, ReadFailsTiles
<1>4. CASE EndHeader \/ EndFunction \/ EndArguments
  BY <1>4, EndTiles
<1>5. CASE UNCHANGED vars
  BY <1>5, TiledStays DEF vars, Tiles, FooterInHeader, Accepted
<1> QED
  BY <1>1, <1>2, <1>3, <1>4, <1>5 DEF Next

\* An accepted call of aptos_account::transfer is read to the byte: `buf' tiles
\* what is in front of the footer and `footer' what is behind it, so no byte of
\* the request is skipped and none is read as two fields.
THEOREM ParserReadsTransferWhole == Spec => []TransferIsReadWhole
<1>1. IInv /\ Tiles => TransferIsReadWhole
  <2> SUFFICES ASSUME IInv, Tiles, Accepted, tx.known_type = "FUNC_APTOS_ACCOUNT_TRANSFER",
                      NEW i \in 0 .. request.size - 1
               PROVE  Cardinality({k \in DOMAIN reads : reads[k].from <= i /\ i < reads[k].to}) = 1
    BY DEF TransferIsReadWhole
  <2> DEFINE here == {k \in DOMAIN reads : reads[k].from <= i /\ i < reads[k].to}
  <2>1. /\ Tiled("buf") /\ Tiled("footer")
        /\ offset["buf"] = request.size - TX_FOOTER_LEN /\ offset["footer"] = request.size
    BY DEF Tiles, IInv, TransactionOfStage, PAYLOAD_UNDEFINED, PAYLOAD_ENTRY_FUNCTION
  <2>2. /\ \A k \in DOMAIN reads : reads[k].from \in Nat /\ reads[k].to \in Nat
        /\ request.size \in Nat /\ i \in Int /\ 0 <= i /\ i < request.size
    BY SliceBounds
  <2>3. /\ StartOf("buf") = 0 /\ StartOf("footer") = offset["buf"]
        /\ offset["buf"] \in Int
    BY <2>1, <2>2 DEF StartOf, TX_FOOTER_LEN, U64_LEN
  <2>4. \A k \in DOMAIN reads : k \in SlicesOf("buf") \/ k \in SlicesOf("footer")
    BY DEF SlicesOf, CursorOf
  <2>5. PICK c \in Cursors : StartOf(c) <= i /\ i < offset[c] /\ \A k \in here : k \in SlicesOf(c)
    <3>1. CASE i < offset["buf"]
      <4>1. \A k \in here : k \notin SlicesOf("footer")
        BY <2>1, <2>2, <2>3, <3>1 DEF Tiled, SlicesOf
      <4> QED
        BY <2>2, <2>3, <2>4, <3>1, <4>1 DEF Cursors
    <3>2. CASE i >= offset["buf"]
      <4>1. \A k \in here : k \notin SlicesOf("buf")
        BY <2>1, <2>2, <2>3, <3>2 DEF Tiled, SlicesOf
      <4> QED
        BY <2>1, <2>2, <2>3, <2>4, <3>2, <4>1 DEF Cursors
    <3> QED
      BY <2>2, <2>3, <3>1, <3>2
  <2>6. Tiled(c)
    BY <2>1 DEF Cursors
  <2>7. PICK k \in SlicesOf(c) : In(k, i)
    BY <2>2, <2>5, <2>6 DEF Tiled
  <2>8. here = {k}
    <3>1. k \in here
      BY <2>7 DEF SlicesOf, In
    <3>2. ASSUME NEW j \in here PROVE j = k
      <4>1. j \in SlicesOf(c) /\ reads[j].from <= i /\ i < reads[j].to
        BY <2>5
      <4>2. reads[k].from <= i /\ i < reads[k].to
        BY <2>7 DEF In
      <4>3. j # k => reads[j].to <= reads[k].from \/ reads[k].to <= reads[j].from
        BY <2>6, <2>7, <4>1 DEF Tiled
      <4>4. j \in DOMAIN reads /\ k \in DOMAIN reads
        BY <2>7, <4>1 DEF SlicesOf
      <4> QED
        BY <2>2, <4>1, <4>2, <4>3, <4>4
    <3> QED
      BY <3>1, <3>2
  <2> QED
    BY <2>8, FS_Singleton
<1> QED
  BY <1>1, InitApart, NextApart, InitTiles, NextTiles, InitIInv, NextIInv, PTL DEF Spec
=============================================================================
