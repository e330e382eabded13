------------------------------ MODULE TxParser ------------------------------
(***************************************************************************)
(* The transaction parser: transaction_deserialize and what it calls.      *)
(*                                                                         *)
(* A request is read by two cursors over one buffer: `buf' goes forward    *)
(* from the prefix, `footer' is a second buffer_t that starts TX_FOOTER_LEN*)
(* bytes before the end and is read before the payload is.  The grammar of *)
(* a part of the request is the sequence of the reads its function makes,  *)
(* each with the parser_status_e it returns when it fails.                 *)
(*                                                                         *)
(* The content of the buffer is chosen while it is read: the value of a    *)
(* number, the text of a name.  Only `buf' reads what is chosen, and it    *)
(* goes forward; what `footer' reads is never looked at, so the cursors may*)
(* overlap without two choices of one byte.                                *)
(***************************************************************************)
EXTENDS Integers, Sequences, FiniteSets

CONSTANTS
    Sizes,      \* the sizes of the requests
    OtherLens,  \* the lengths of names that the app does not know
    Numbers,    \* the values of the ULEB128 numbers in the payload
    SizeRange,  \* size_t counts modulo SizeRange (2^32 on the device)
    MAX_TRANSACTION_PACKETS  \* each device has its own; builds for none have 2

MAX_TRANSACTION_LEN == MAX_TRANSACTION_PACKETS * 255
TX_HASHED_PREFIX_LEN == 32
ADDRESS_LEN == 32
U64_LEN == 8
TX_FOOTER_LEN == 3 * U64_LEN + 1
TYPE_TAG_STRUCT == 7

ASSUME SizesAssumption ==
    /\ MAX_TRANSACTION_PACKETS \in Nat \ {0}
    /\ SizeRange \in Nat \ {0}
    /\ Sizes \subseteq 0 .. SizeRange - 1
    /\ MAX_TRANSACTION_LEN < SizeRange
ASSUME NumbersAssumption == Numbers \subseteq Nat /\ OtherLens \subseteq Nat

\* The digits of a ULEB128 number, as the module Uleb128 has them.
Digits(value) == IF value < 128 THEN 1 ELSE IF value < 128 * 128 THEN 2 ELSE 3

-----------------------------------------------------------------------------
(* What a request is made of *)

Name(text, len) == [text |-> text, len |-> len]
NoName == Name("", 0)

OtherNames == {Name("other", len) : len \in OtherLens}
ModuleNames ==
    {Name("aptos_account", 13), Name("coin", 4),
     Name("primary_fungible_store", 22), Name("delegation_pool", 15)}
        \union OtherNames
\* Names are identifiers of Move, whose letters have a case.  The name of a coin
\* may be another one in other letters.
CoinNames == OtherNames \union {Name("OTHER", len) : len \in OtherLens \ {0}}
AptosCoinModule == Name("aptos_coin", 10)
AptosCoinName == Name("AptosCoin", 9)
FunctionNames ==
    {Name("transfer", 8), Name("transfer_coins", 14), Name("add_stake", 9),
     Name("unlock", 6), Name("reactivate_stake", 16), Name("withdraw", 8)}
        \union OtherNames

\* The address of a coin or of an asset: 0x1, or longer than that and in the
\* list of tokens or not.
CoinAddresses == {"0x1", "listed", "other"}

\* Both prefixes have bytes above 0x7F, so what starts with one is not ASCII.
\* How a request ends is asked of a text only.
Requests ==
    {r \in [size : Sizes, prefix : {"none", "raw", "with_data"},
            ascii : BOOLEAN, ends_in_zero : BOOLEAN] :
        /\ r.prefix # "none" => r.size >= TX_HASHED_PREFIX_LEN /\ ~r.ascii
        /\ r.ends_in_zero => r.ascii}

\* A read of a fixed number of bytes through one of the cursors.
Bytes(field, cursor, len, error) ==
    [kind |-> "bytes", field |-> field, cursor |-> cursor, len |-> len, error |-> error]

\* A read of a number; `unexpected' is the status for a value that is not one
\* of `expected'.
Number(field, expected, error, unexpected) ==
    [kind |-> "number", field |-> field, expected |-> expected, error |-> error,
     unexpected |-> unexpected]

\* A read of a length and of the name that has it.
Text(field, names, len_error, bytes_error) ==
    [kind |-> "text", field |-> field, names |-> names, error |-> len_error,
     bytes_error |-> bytes_error]

-----------------------------------------------------------------------------
(* The grammar *)

PAYLOAD_SCRIPT == 0
PAYLOAD_ENTRY_FUNCTION == 2
PAYLOAD_MULTISIG == 3
PAYLOAD_UNDEFINED == 1000

Header ==
    << Bytes("sender", "buf", ADDRESS_LEN, "SENDER_READ_ERROR"),
       Bytes("sequence", "buf", U64_LEN, "SEQUENCE_READ_ERROR"),
       Bytes("max_gas_amount", "footer", U64_LEN, "MAX_GAS_READ_ERROR"),
       Bytes("gas_unit_price", "footer", U64_LEN, "GAS_UNIT_PRICE_READ_ERROR"),
       Bytes("expiration_timestamp_secs", "footer", U64_LEN, "EXPIRATION_READ_ERROR"),
       Bytes("chain_id", "footer", 1, "CHAIN_ID_READ_ERROR"),
       Number("payload_variant",
              {PAYLOAD_SCRIPT, PAYLOAD_ENTRY_FUNCTION, PAYLOAD_MULTISIG},
              "PAYLOAD_VARIANT_READ_ERROR", "PAYLOAD_UNDEFINED_ERROR") >>

\* The address of the module forgotten.
CallWithoutAddress ==
    << Text("module_id.name", ModuleNames,
            "MODULE_ID_NAME_LEN_READ_ERROR", "MODULE_ID_NAME_BYTES_READ_ERROR"),
       Text("function_name", FunctionNames,
            "FUNCTION_NAME_LEN_READ_ERROR", "FUNCTION_NAME_BYTES_READ_ERROR") >>

EntryFunction ==
    << Bytes("module_id.address", "buf", ADDRESS_LEN, "MODULE_ID_ADDR_READ_ERROR"),
       Text("module_id.name", ModuleNames,
            "MODULE_ID_NAME_LEN_READ_ERROR", "MODULE_ID_NAME_BYTES_READ_ERROR"),
       Text("function_name", FunctionNames,
            "FUNCTION_NAME_LEN_READ_ERROR", "FUNCTION_NAME_BYTES_READ_ERROR") >>

TypeArgsSize(n) ==
    Number("ty_size", {n}, "TYPE_ARGS_SIZE_READ_ERROR", "TYPE_ARGS_SIZE_UNEXPECTED_ERROR")
ArgsSize(n) ==
    Number("args_size", {n}, "ARGS_SIZE_READ_ERROR", "ARGS_SIZE_UNEXPECTED_ERROR")
AddressLength(field) ==
    Number(field, {ADDRESS_LEN}, "RECEIVER_ADDR_LEN_READ_ERROR", "WRONG_ADDRESS_LEN_ERROR")

\* receiver and amount are the first members of every struct in the union of
\* the arguments, so the functions that write args.transfer and those that
\* write args.coin_transfer, fa_transfer or delegation mean the same bytes.
ReceiverAndAmount ==
    << AddressLength("receiver_len"),
       Bytes("receiver", "buf", ADDRESS_LEN, "RECEIVER_ADDR_READ_ERROR"),
       Number("amount_len", {U64_LEN}, "AMOUNT_LEN_READ_ERROR", "WRONG_AMOUNT_LEN_ERROR"),
       Bytes("amount", "buf", U64_LEN, "AMOUNT_READ_ERROR") >>

TypeStruct ==
    << TypeArgsSize(1),
       Number("ty_arg_variant", {TYPE_TAG_STRUCT},
              "TYPE_TAG_READ_ERROR", "TYPE_TAG_UNEXPECTED_ERROR"),
       Bytes("ty.address", "buf", ADDRESS_LEN, "STRUCT_ADDRESS_READ_ERROR"),
       Text("ty.module_name", CoinNames \union {AptosCoinModule},
            "STRUCT_MODULE_LEN_READ_ERROR", "STRUCT_MODULE_BYTES_READ_ERROR"),
       Text("ty.name", CoinNames \union {AptosCoinName},
            "STRUCT_NAME_LEN_READ_ERROR", "STRUCT_NAME_BYTES_READ_ERROR"),
       Number("ty.type_args_size", {0}, "STRUCT_TYPE_ARGS_SIZE_READ_ERROR",
              "STRUCT_TYPE_ARGS_SIZE_UNEXPECTED_ERROR") >>

AccountTransfer == << TypeArgsSize(0), ArgsSize(2) >> \o ReceiverAndAmount
Delegation == << TypeArgsSize(0), ArgsSize(2) >> \o ReceiverAndAmount
CoinTransfer == TypeStruct \o << ArgsSize(2) >> \o ReceiverAndAmount
FaTransfer ==
    TypeStruct
        \o << ArgsSize(3), AddressLength("fa_store_addr_len"),
              Bytes("fungible_asset.address", "buf", ADDRESS_LEN,
                    "STRUCT_ADDRESS_READ_ERROR") >>
        \o ReceiverAndAmount

\* determine_function_type: of the module's address only the last byte counts.
KnownType(tx) ==
    LET Is(module, function) ==
            /\ tx.address_ends_in_one
            /\ tx.module_name = module
            /\ tx.function_name = function
        pool == Name("delegation_pool", 15)
    IN  CASE Is(Name("aptos_account", 13), Name("transfer", 8)) -> "FUNC_APTOS_ACCOUNT_TRANSFER"
          [] Is(Name("coin", 4), Name("transfer", 8)) -> "FUNC_COIN_TRANSFER"
          [] Is(Name("aptos_account", 13), Name("transfer_coins", 14)) ->
                "FUNC_APTOS_ACCOUNT_TRANSFER_COINS"
          [] Is(Name("primary_fungible_store", 22), Name("transfer", 8)) ->
                "FUNC_FUNGIBLE_STORE_TRANSFER"
          [] Is(pool, Name("add_stake", 9)) -> "FUNC_ADD_STAKE"
          [] Is(pool, Name("unlock", 6)) -> "FUNC_UNLOCK_STAKE"
          [] Is(pool, Name("reactivate_stake", 16)) -> "FUNC_REACTIVATE_STAKE"
          [] Is(pool, Name("withdraw", 8)) -> "FUNC_WITHDRAW_STAKE"
          [] OTHER -> "FUNC_UNKNOWN"

StakeTypes ==
    {"FUNC_ADD_STAKE", "FUNC_UNLOCK_STAKE", "FUNC_REACTIVATE_STAKE", "FUNC_WITHDRAW_STAKE"}
CoinTypes == {"FUNC_COIN_TRANSFER", "FUNC_APTOS_ACCOUNT_TRANSFER_COINS"}

\* A plausible slip of the dispatch: one function for both kinds of transfer.
OneTransferParser(type) ==
    CASE type \in StakeTypes -> Delegation
      [] type = "FUNC_UNKNOWN" -> << >>
      [] OTHER -> AccountTransfer

Arguments(type) ==
    CASE type = "FUNC_APTOS_ACCOUNT_TRANSFER" -> AccountTransfer
      [] type \in CoinTypes -> CoinTransfer
      [] type = "FUNC_FUNGIBLE_STORE_TRANSFER" -> FaTransfer
      [] type \in StakeTypes -> Delegation
      [] OTHER -> << >>

-----------------------------------------------------------------------------
(* The parser *)

VARIABLES
    request,  \* the buffer: its size, and what the parser asks of its content
    offset,   \* where the two cursors are
    stage,    \* which function reads
    pending,  \* what it has still to read
    tx,       \* the transaction, as far as later reads depend on it
    reads,    \* the slices of the buffer read so far, with their fields
    status    \* the status returned

vars == <<request, offset, stage, pending, tx, reads, status>>

Cursors == {"buf", "footer"}

\* transaction_init and entry_function_payload_init.  The arguments are not
\* initialized; what is in them is in no coin.
NewTransaction ==
    [tx_variant |-> "TX_UNDEFINED", payload_variant |-> PAYLOAD_UNDEFINED,
     address_ends_in_one |-> FALSE, module_name |-> NoName,
     function_name |-> NoName, known_type |-> "FUNC_UNKNOWN",
     coin |-> [address |-> "none", module_name |-> NoName, name |-> NoName],
     fungible_asset |-> "none"]

\* An off-by-one in the check of what is left.
CanReadOneMore(cursor, n) == n <= (request.size + 1 - offset[cursor]) % SizeRange

\* buffer_can_read, in unsigned arithmetic.
CanRead(cursor, n) == n <= (request.size - offset[cursor]) % SizeRange

Slice(field, cursor, n) ==
    [field |-> field, from |-> offset[cursor], to |-> offset[cursor] + n]

Consume(field, cursor, n) ==
    /\ reads' = Append(reads, Slice(field, cursor, n))
    /\ offset' = [offset EXCEPT ![cursor] = @ + n]

Stop(result) ==
    /\ stage' = "done"
    /\ status' = result
    /\ pending' = << >>

Variant ==
    CASE request.prefix = "with_data" -> "TX_RAW_WITH_DATA"
      [] request.prefix = "raw" -> "TX_RAW"
      [] request.ascii -> "TX_MESSAGE"
      [] OTHER -> "TX_RAW_MESSAGE"

\* The check with the wrong comparison: it can never be met.
LongerThanBuffer == request.size > MAX_TRANSACTION_LEN /\ ~request.ends_in_zero

\* A text that fills the buffer has no room for a terminator.
NoTerminator == request.size = MAX_TRANSACTION_LEN /\ ~request.ends_in_zero

TooLong ==
    /\ stage = "variant"
    /\ request.size > MAX_TRANSACTION_LEN
    /\ Stop("WRONG_LENGTH_ERROR")
    /\ UNCHANGED <<request, offset, tx, reads>>

\* A text or a raw message is taken as it is, a transaction with data is not
\* read any further.
TakeWhole ==
    /\ stage = "variant"
    /\ request.size <= MAX_TRANSACTION_LEN
    /\ Variant # "TX_RAW"
    /\ tx' = [tx EXCEPT !.tx_variant = Variant]
    /\ IF Variant = "TX_RAW_WITH_DATA"
       THEN Consume("prefix", "buf", TX_HASHED_PREFIX_LEN)
       ELSE UNCHANGED <<offset, reads>>
    /\ Stop(IF Variant = "TX_MESSAGE" /\ NoTerminator
            THEN "WRONG_LENGTH_ERROR" ELSE "PARSING_OK")
    /\ UNCHANGED request

\* A raw transaction: the footer's cursor is set from the size alone.
BeginTransaction ==
    /\ stage = "variant"
    /\ request.size <= MAX_TRANSACTION_LEN
    /\ Variant = "TX_RAW"
    /\ tx' = [tx EXCEPT !.tx_variant = "TX_RAW"]
    /\ reads' = << Slice("prefix", "buf", TX_HASHED_PREFIX_LEN) >>
    /\ offset' = [buf |-> TX_HASHED_PREFIX_LEN,
                  footer |-> (request.size - TX_FOOTER_LEN) % SizeRange]
    /\ stage' = "header"
    /\ pending' = Header
    /\ UNCHANGED <<request, status>>

Reading(kind) == pending # << >> /\ Head(pending).kind = kind

\* What a read of bytes may leave in the transaction.
AfterBytes(field) ==
    CASE field = "module_id.address" ->
            {[tx EXCEPT !.address_ends_in_one = b] : b \in BOOLEAN}
      [] field = "ty.address" -> {[tx EXCEPT !.coin.address = a] : a \in CoinAddresses}
      [] field = "fungible_asset.address" ->
            {[tx EXCEPT !.fungible_asset = a] : a \in CoinAddresses}
      [] OTHER -> {tx}

AfterName(field, name) ==
    CASE field = "module_id.name" -> [tx EXCEPT !.module_name = name]
      [] field = "function_name"  -> [tx EXCEPT !.function_name = name]
      [] field = "ty.module_name" -> [tx EXCEPT !.coin.module_name = name]
      [] field = "ty.name"        -> [tx EXCEPT !.coin.name = name]

ReadBytes ==
    /\ Reading("bytes")
    /\ LET read == Head(pending) IN
        /\ CanRead(read.cursor, read.len)
        /\ Consume(read.field, read.cursor, read.len)
        /\ tx' \in AfterBytes(read.field)
    /\ pending' = Tail(pending)
    /\ UNCHANGED <<request, stage, status>>

ReadNumber ==
    /\ Reading("number")
    /\ LET read == Head(pending) IN
        \E value \in Numbers \intersect read.expected :
            /\ CanRead("buf", Digits(value))
            /\ Consume(read.field, "buf", Digits(value))
            /\ tx' = IF read.field = "payload_variant"
                     THEN [tx EXCEPT !.payload_variant = value] ELSE tx
    /\ pending' = Tail(pending)
    /\ UNCHANGED <<request, stage, status>>

UnexpectedNumber ==
    /\ Reading("number")
    /\ LET read == Head(pending) IN
        /\ \E value \in Numbers \ read.expected : CanRead("buf", Digits(value))
        /\ Stop(read.unexpected)
    /\ UNCHANGED <<request, offset, tx, reads>>

\* The length of a name; its bytes are the next read.  Which name it is is
\* looked at later, by determine_function_type.
ReadNameLength ==
    /\ Reading("text")
    /\ LET read == Head(pending) IN
        \E name \in read.names :
            /\ CanRead("buf", Digits(name.len))
            /\ Consume("len", "buf", Digits(name.len))
            /\ pending' = << Bytes(read.field, "buf", name.len, read.bytes_error) >>
                            \o Tail(pending)
            /\ tx' = AfterName(read.field, name)
    /\ UNCHANGED <<request, stage, status>>

BytesMissing ==
    /\ Reading("bytes")
    /\ ~CanRead(Head(pending).cursor, Head(pending).len)
    /\ Stop(Head(pending).error)
    /\ UNCHANGED <<request, offset, tx, reads>>

\* A number, or the length of a name, that is not a ULEB128 number: it is cut
\* off by the end of the buffer or has too many digits.
NumberMalformed ==
    /\ Reading("number") \/ Reading("text")
    /\ Stop(Head(pending).error)
    /\ UNCHANGED <<request, offset, tx, reads>>

EndHeader ==
    /\ stage = "header"
    /\ pending = << >>
    /\ IF tx.payload_variant = PAYLOAD_ENTRY_FUNCTION
       THEN /\ stage' = "function"
            /\ pending' = EntryFunction
            /\ UNCHANGED status
       ELSE Stop("PARSING_OK")
    /\ UNCHANGED <<request, offset, tx, reads>>

EndFunction ==
    /\ stage = "function"
    /\ pending = << >>
    /\ tx' = [tx EXCEPT !.known_type = KnownType(tx)]
    /\ stage' = "arguments"
    /\ pending' = Arguments(KnownType(tx))
    /\ UNCHANGED <<request, offset, reads, status>>

\* The end of the payload is taken for granted.
AcceptAnyEnd == "PARSING_OK"

\* Only the simplest call has to end where the footer begins.
StatusAtEnd ==
    IF /\ tx.known_type = "FUNC_APTOS_ACCOUNT_TRANSFER"
       /\ offset["buf"] # (request.size - TX_FOOTER_LEN) % SizeRange
    THEN "WRONG_LENGTH_ERROR" ELSE "PARSING_OK"

EndArguments ==
    /\ stage = "arguments"
    /\ pending = << >>
    /\ Stop(StatusAtEnd)
    /\ UNCHANGED <<request, offset, tx, reads>>

Init ==
    /\ request \in Requests
    /\ offset = [c \in Cursors |-> 0]
    /\ stage = "variant"
    /\ pending = << >>
    /\ tx = NewTransaction
    /\ reads = << >>
    /\ status = "none"

Next ==
    \/ TooLong \/ TakeWhole \/ BeginTransaction
    \/ ReadBytes \/ ReadNumber \/ UnexpectedNumber \/ ReadNameLength
    \/ BytesMissing \/ NumberMalformed
    \/ EndHeader \/ EndFunction \/ EndArguments

Spec == Init /\ [][Next]_vars

-----------------------------------------------------------------------------
(* Properties *)

Accepted == status = "PARSING_OK"

KnownTypes ==
    {"FUNC_UNKNOWN", "FUNC_APTOS_ACCOUNT_TRANSFER", "FUNC_FUNGIBLE_STORE_TRANSFER"}
        \union CoinTypes \union StakeTypes

FieldsRead == {reads[k].field : k \in DOMAIN reads}

\* The fields in the footer, in the order they are read.
FooterFields == {"max_gas_amount", "gas_unit_price", "expiration_timestamp_secs", "chain_id"}

\* The parser keeps its types: the cursors count within size_t, and what is
\* accepted has a variant, and a type only if it is a call.
TypeOK ==
    /\ request \in Requests
    /\ offset \in [Cursors -> 0 .. SizeRange - 1]
    /\ stage \in {"variant", "header", "function", "arguments", "done"}
    /\ tx.payload_variant \in
           {PAYLOAD_SCRIPT, PAYLOAD_ENTRY_FUNCTION, PAYLOAD_MULTISIG, PAYLOAD_UNDEFINED}
    /\ tx.known_type \in KnownTypes
    /\ tx.known_type # "FUNC_UNKNOWN" => tx.payload_variant = PAYLOAD_ENTRY_FUNCTION
    /\ Accepted => tx.tx_variant # "TX_UNDEFINED"
    /\ (stage = "done") <=> (status # "none")

\* No cursor leaves the buffer, whatever the numbers in the request say and
\* although the footer's cursor is computed by a subtraction that is never
\* checked (deserialize.c:58): every slice read lies within the request.
ReadsInsideBuffer ==
    \A k \in DOMAIN reads :
        0 <= reads[k].from /\ reads[k].from <= reads[k].to /\ reads[k].to <= request.size

\* A call of aptos_account::transfer that is accepted is read to the byte:
\* every byte of the request is in exactly one of the fields, so the footer
\* that was read ahead is what follows the payload (deserialize.c:95-97).
TransferIsReadWhole ==
    Accepted /\ tx.known_type = "FUNC_APTOS_ACCOUNT_TRANSFER" =>
        \A i \in 0 .. request.size - 1 :
            Cardinality({k \in DOMAIN reads : reads[k].from <= i /\ i < reads[k].to}) = 1

\* In a call that is accepted the gas, the expiration and the chain are never
\* read out of the sender or the sequence number: the two cursors overlap in
\* a short request, but no call is that short.
HeaderApartFromFooter ==
    Accepted /\ tx.payload_variant = PAYLOAD_ENTRY_FUNCTION =>
        \A j, k \in DOMAIN reads :
            reads[j].field \in {"sender", "sequence"} /\ reads[k].field \in FooterFields
                => reads[j].to <= reads[k].from

\* A text that is accepted ends inside raw_tx: the buffer has a byte after it
\* (which SIGN_TX has zeroed) or it brings its own terminator.
TextIsTerminated ==
    Accepted /\ tx.tx_variant = "TX_MESSAGE" =>
        request.size < MAX_TRANSACTION_LEN \/ request.ends_in_zero

\* doc/TRANSACTION.md, "Structure": max_gas_amount follows the payload.  Of
\* the calls whose arguments the app reads, only aptos_account::transfer is
\* held to it; after the others bytes may be left over, or the footer may have
\* been read out of the arguments.
FooterFollowsPayload ==
    Accepted /\ tx.known_type # "FUNC_UNKNOWN" =>
        \A k \in DOMAIN reads :
            reads[k].field = "max_gas_amount" => reads[k].from = offset["buf"]
=============================================================================
