------------------------------ MODULE AptosApp ------------------------------
(***************************************************************************)
(* The command loop of the app: one APDU at a time is received,            *)
(* dispatched and handled, the signing request is collected chunk by chunk *)
(* in G_context, reviewed on the screen, and answered, either at once by   *)
(* the handler or later by the callback of the screen.                     *)
(*                                                                         *)
(* The host talks in lock step: it sends a command only when the previous  *)
(* one is answered.  `owed' is TRUE while a command waits for its answer.  *)
(* A step of a command is the whole turn of the loop of app_main, from     *)
(* io_recv_command to the return of apdu_dispatcher.  Between two turns    *)
(* the callbacks of the screen run.                                        *)
(***************************************************************************)
EXTENDS Naturals, Sequences

CONSTANTS
    Chunks,         \* contents a chunk of a transaction may have
    Size,           \* Size[c]: the number of bytes (Lc) of chunk c
    MaxLc,          \* 255: the largest Lc of a command
    MaxPackets,     \* MAX_TRANSACTION_PACKETS
    StructSize,     \* sizeof(g_struct), the buffer a message is shown from
    Paths,          \* well-formed derivation paths under m/44'/637'
    LongPaths,      \* those whose text does not fit in g_bip32_path
    Foreign,        \* a well-formed path that is not an Aptos one
    Malformed,      \* data that is not a derivation path
    NoPath,         \* no path, or no key
    UI,             \* "bagl" (Nano) or "nbgl" (Stax, Flex, Apex)
    CalledFromSwap  \* G_called_from_swap: started by the Exchange app

ASSUME ChunkAssumption ==
    /\ MaxLc \in Nat \ {0}
    /\ MaxPackets \in Nat \ {0}
    /\ Size \in [Chunks -> 1..MaxLc]
    /\ StructSize \in Nat

ASSUME PathAssumption ==
    /\ LongPaths \subseteq Paths
    /\ NoPath \notin Paths
    /\ Foreign \notin Paths
    /\ Malformed \notin Paths
    /\ Foreign # Malformed

ASSUME BuildAssumption ==
    /\ UI \in {"bagl", "nbgl"}
    /\ CalledFromSwap \in BOOLEAN

VARIABLES
    running,      \* app_main is in its loop
    N_storage,    \* the settings, in NVM: they survive a restart
    G_context,    \* the request under way
    prev_chunk,   \* static of handler_sign_tx, outside G_context
    screen,       \* what the user sees
    callback,     \* what Approve and Reject on the screen run
    owed,         \* the last command is not answered yet
    reply,        \* the last answer
    unsolicited,  \* an answer was sent that no command was waiting for
    signatures,   \* signatures returned since the last first chunk, or since
                  \* app_main was entered (ghost)
    swap          \* the state shared with the Exchange app

vars == <<running, N_storage, G_context, prev_chunk, screen, callback, owed,
          reply, unsolicited, signatures, swap>>

io == <<owed, reply, unsolicited>>

-----------------------------------------------------------------------------
(* Types of the data *)

MaxTransactionLen == MaxPackets * MaxLc
P1_START == 0
P1_MAX == MaxPackets + 1
P2_LAST == 0
P2_MORE == 128

States == {"STATE_NONE", "STATE_PARSED", "STATE_APPROVED"}
RequestTypes == {"REQUEST_UNDEFINED", "CONFIRM_ADDRESS", "CONFIRM_TRANSACTION"}

\* What transaction_deserialize and the encoding check make of the bytes:
\* a recognised call, another transaction, printable text without and with a
\* NUL in the middle, other bytes.
Shapes == {"known_call", "other_tx", "text", "split_text", "bytes"}

StatusWords ==
    {"SW_OK", "SW_DENY", "SW_WRONG_P1P2", "SW_WRONG_DATA_LENGTH",
     "SW_INS_NOT_SUPPORTED", "SW_CLA_NOT_SUPPORTED",
     "SW_DISPLAY_BIP32_PATH_FAIL", "SW_WRONG_TX_LENGTH",
     "SW_TX_PARSING_FAIL", "SW_GET_PUB_KEY_FAIL", "SW_BAD_STATE",
     "SW_SIGNATURE_FAIL", "SW_SWAP_CHECKING_FAIL"}

AnyPath == Paths \union {NoPath, Foreign, Malformed}

Reply == [sw : StatusWords,
          body : {"none", "info", "pubkey", "signature"},
          path : AnyPath,
          content : Seq(Chunks)]

SignatureRecord == [path : AnyPath, content : Seq(Chunks)]

Status(sw) == [sw |-> sw, body |-> "none", path |-> NoPath, content |-> <<>>]

Storage == [show_full_message : BOOLEAN,
            allow_blind_signing : BOOLEAN,
            initialized : BOOLEAN]

Context == [state : States,
            req_type : RequestTypes,
            bip32_path : AnyPath,
            pk_info : Paths \union {NoPath},
            raw_tx : Seq(Chunks),
            raw_tx_len : Nat]

\* explicit_bzero(&G_context) followed by the request type of the handler
FreshContext(req_type) ==
    [state |-> "STATE_NONE", req_type |-> req_type, bip32_path |-> NoPath,
     pk_info |-> NoPath, raw_tx |-> <<>>, raw_tx_len |-> 0]

\* The screens.  "blind_choice" asks to enable blind signing and "enabled"
\* confirms that it is (nbgl); "status" is the closing page of nbgl.
Views == {"off", "home", "address", "clear_review", "blind_review",
          "blind_choice", "enabled", "status"}

\* How much of the content the review lets the user read: the fields of a
\* recognised call, the whole message, its first bytes, or its type only.
Visible == {"nothing", "fields", "whole", "cropped", "type_only"}

Screen == [view : Views,
           visible : Visible,
           path : AnyPath,
           content : Seq(Chunks)]

Page(view) == [view |-> view, visible |-> "nothing", path |-> NoPath,
               content |-> <<>>]

Callbacks == {"none", "validate_pubkey", "validate_transaction",
              "message_choice"}

\* G_swap_response_ready, and what the Exchange app finds as the result
SwapState == [response_ready : BOOLEAN,
              result : {"pending", "success", "failure"}]

NoSwap == [response_ready |-> FALSE, result |-> "pending"]

-----------------------------------------------------------------------------
(* The io layer.  A send answers the command that waits; when none does it *)
(* fails: its caller gets -1 and the host gets nothing.                    *)

\* In a command's turn the first send always finds the command waiting.
Respond(answer) ==
    /\ reply' = answer
    /\ owed' = FALSE
    /\ UNCHANGED unsolicited

\* In a callback of the screen a command may or may not be waiting.
Answer(answer) ==
    IF owed
    THEN Respond(answer)
    ELSE unsolicited' = TRUE /\ UNCHANGED <<reply, owed>>

\* io_recv_command returns a command
Receive == running /\ ~owed

\* app_main returns: the app leaves, and its RAM with it
Leave == running' = FALSE

-----------------------------------------------------------------------------
(* Start, reset and end of the app *)

MainPage == IF CalledFromSwap THEN Page("off") ELSE Page("home")

\* nvm_app_storage_init
InitStorage(storage) ==
    IF storage.initialized
    THEN storage
    ELSE [show_full_message |-> FALSE, allow_blind_signing |-> FALSE,
          initialized |-> TRUE]

\* app_main up to its loop: at a launch, or again after EXCEPTION_IO_RESET
EnterMain ==
    /\ running' = TRUE
    /\ N_storage' = InitStorage(N_storage)
    /\ G_context' = FreshContext("REQUEST_UNDEFINED")
    /\ screen' = MainPage
    /\ owed' = FALSE
    /\ signatures' = <<>>
    /\ UNCHANGED <<reply, unsolicited>>

\* The app is launched (or the device was unplugged in the middle of
\* anything and the app is launched again): RAM is cleared, NVM is kept.
Launch ==
    /\ EnterMain
    /\ prev_chunk' = 0
    /\ callback' = "none"
    /\ swap' = NoSwap

\* The link is reset while the app runs: app_main is entered again, but the
\* statics outside G_context keep their values.
IoReset ==
    /\ running
    /\ EnterMain
    /\ UNCHANGED <<prev_chunk, callback, swap>>

-----------------------------------------------------------------------------
(* Commands that touch no state: frames apdu_parser or the dispatcher       *)
(* refuse, GET_VERSION and GET_APP_NAME                                     *)

Quiet == UNCHANGED <<running, N_storage, G_context, prev_chunk, screen,
                     callback, signatures, swap>>

\* A frame that is no APDU, another class, an unknown instruction
RefusedFrame ==
    /\ Receive
    /\ \E sw \in {"SW_WRONG_DATA_LENGTH", "SW_CLA_NOT_SUPPORTED",
                  "SW_INS_NOT_SUPPORTED"} : Respond(Status(sw))
    /\ Quiet

GetInfo(p1, p2) ==
    /\ Receive
    /\ IF p1 # 0 \/ p2 # 0
       THEN Respond(Status("SW_WRONG_P1P2"))
       ELSE Respond([Status("SW_OK") EXCEPT !.body = "info"])
    /\ Quiet

-----------------------------------------------------------------------------
(* GET_PUBLIC_KEY *)

\* P1 or P2 out of range, or no data
GetPublicKeyRefused(p1, p2) ==
    /\ Receive
    /\ IF p1 > 1 \/ p2 > 0
       THEN Respond(Status("SW_WRONG_P1P2"))
       ELSE Respond(Status("SW_WRONG_DATA_LENGTH"))
    /\ Quiet

\* Mutant: a path under another coin is derived like any other.
DerivationOfAnyCoin(path) ==
    IF path = Malformed THEN {[pk |-> NoPath, err |-> "SW_WRONG_DATA_LENGTH"]}
    ELSE {[pk |-> path, err |-> "SW_OK"]}

\* What get_public_key leaves in pk_info, and the error it has answered, if
\* any.  The derivation may fail for reasons of the device.
Derivation(path) ==
    IF path = Malformed THEN {[pk |-> NoPath, err |-> "SW_WRONG_DATA_LENGTH"]}
    ELSE IF path = Foreign
    THEN {[pk |-> NoPath, err |-> "SW_GET_PUB_KEY_FAIL"]}
    ELSE {[pk |-> path, err |-> "SW_OK"],
          [pk |-> NoPath, err |-> "SW_GET_PUB_KEY_FAIL"]}

\* Whether bip32_path_format can print the path.  After Malformed data the
\* path holds what was read of it, possibly nothing.
Printable(path) ==
    IF path = Malformed THEN BOOLEAN ELSE {path \notin LongPaths}

PubkeyReply(key) ==
    [sw |-> "SW_OK", body |-> "pubkey", path |-> key, content |-> <<>>]

\* The context as handler_get_public_key leaves it: req_type is already
\* reset when the address is on the screen.
PubkeyContext(path, key) ==
    [FreshContext("REQUEST_UNDEFINED") EXCEPT !.bip32_path = path,
                                              !.pk_info = key]

\* No display.  An error is answered inside get_public_key, whose result is
\* then that of io_send_sw, zero: the handler goes on as after a success and
\* sends a key that nobody waits for; this send fails and app_main returns.
GetPublicKey(path) ==
    /\ Receive
    /\ \E d \in Derivation(path) :
          /\ G_context' = PubkeyContext(path, d.pk)
          /\ IF d.err = "SW_OK"
             THEN Respond(PubkeyReply(path)) /\ UNCHANGED running
             ELSE /\ reply' = Status(d.err)
                  /\ owed' = FALSE
                  /\ unsolicited' = TRUE
                  /\ Leave
    /\ UNCHANGED <<N_storage, prev_chunk, screen, callback, signatures, swap>>

\* Mutant: the callback of the previous page is left in place.
StaleCallback(shown) == callback

\* BAGL stores the callback before it prepares the page, NBGL passes it
\* along with a page that is ready.
AddressCallback(shown) ==
    IF UI = "bagl" \/ shown THEN "validate_pubkey" ELSE callback

\* With display: ui_display_address shows the path and the address, and the
\* command stays unanswered until the user decides.  After an error that is
\* already answered the page is shown all the same, for the address of a key
\* of zeros; a page that cannot be prepared is one more answer.
ShowAddress(path) ==
    /\ Receive
    /\ \E d \in Derivation(path), printable \in Printable(path) :
          /\ G_context' = PubkeyContext(path, d.pk)
          /\ callback' = AddressCallback(printable)
          /\ screen' = IF printable
                       THEN [Page("address") EXCEPT !.path = path]
                       ELSE screen
          /\ IF d.err = "SW_OK"
             THEN IF printable
                  THEN owed' = TRUE /\ UNCHANGED <<reply, unsolicited, running>>
                  ELSE /\ Respond(Status("SW_DISPLAY_BIP32_PATH_FAIL"))
                       /\ UNCHANGED running
             ELSE /\ reply' = Status(d.err)
                  /\ owed' = FALSE
                  /\ IF printable
                     THEN UNCHANGED <<unsolicited, running>>
                     ELSE unsolicited' = TRUE /\ Leave
    /\ UNCHANGED <<N_storage, prev_chunk, signatures, swap>>

-----------------------------------------------------------------------------
(* SIGN_TX *)

BadSignParameters(p1, p2) ==
    \/ p1 = P1_START /\ p2 # P2_MORE
    \/ p1 >= P1_MAX
    \/ p2 \notin {P2_LAST, P2_MORE}

\* P1 or P2 out of range, or no data
SignTxRefused(p1, p2) ==
    /\ Receive
    /\ IF BadSignParameters(p1, p2)
       THEN Respond(Status("SW_WRONG_P1P2"))
       ELSE Respond(Status("SW_WRONG_DATA_LENGTH"))
    /\ Quiet

\* The first chunk carries the path and starts over, whatever was under way.
SignStart(path) ==
    /\ Receive
    /\ prev_chunk' = 0
    /\ signatures' = <<>>
    /\ IF path \in Paths
       THEN /\ G_context' = [FreshContext("CONFIRM_TRANSACTION")
                                EXCEPT !.bip32_path = path]
            /\ Respond(Status("SW_OK"))
       ELSE /\ G_context' = [FreshContext("REQUEST_UNDEFINED")
                                EXCEPT !.bip32_path = path]
            /\ Respond(Status(IF path = Malformed THEN "SW_WRONG_DATA_LENGTH"
                                                  ELSE "SW_GET_PUB_KEY_FAIL"))
    /\ UNCHANGED <<running, N_storage, screen, callback, swap>>

\* Mutants: an approved request is not recognised as finished; the last chunk
\* may be sent again.
OnlyParsed == G_context.state = "STATE_PARSED"
Skips(chunk) == chunk > prev_chunk + 1

\* The checks of a later chunk before its data is looked at, in their order
NoRequest == G_context.req_type # "CONFIRM_TRANSACTION"
AlreadyParsed == G_context.state \in {"STATE_PARSED", "STATE_APPROVED"}
OutOfOrder(chunk) == chunk # prev_chunk + 1

SignChunkRefused(chunk) ==
    /\ Receive
    /\ \/ /\ NoRequest
          /\ G_context' = [G_context EXCEPT !.req_type = "REQUEST_UNDEFINED"]
          /\ Respond(Status("SW_BAD_STATE"))
       \/ /\ ~NoRequest
          /\ AlreadyParsed
          /\ Respond(Status("SW_BAD_STATE"))
          /\ UNCHANGED G_context
       \/ /\ ~NoRequest
          /\ ~AlreadyParsed
          /\ OutOfOrder(chunk)
          /\ Respond(Status("SW_WRONG_P1P2"))
          /\ UNCHANGED G_context
    /\ UNCHANGED <<running, N_storage, prev_chunk, screen, callback,
                   signatures, swap>>

Expected(chunk) == ~NoRequest /\ ~AlreadyParsed /\ ~OutOfOrder(chunk)

Fits(data) == G_context.raw_tx_len + Size[data] <= MaxTransactionLen

\* Mutant: the chunk is copied to the start of raw_tx.
Overwritten(data) ==
    [G_context EXCEPT !.raw_tx = <<data>>,
                      !.raw_tx_len = @ + Size[data],
                      !.pk_info = NoPath]

\* raw_tx shares its memory with pk_info: a key left there is overwritten.
Appended(data) ==
    [G_context EXCEPT !.raw_tx = Append(@, data),
                      !.raw_tx_len = @ + Size[data],
                      !.pk_info = NoPath]

\* A chunk that is not the last, or one that does not fit: nothing is parsed.
\* The sequence number moves on even when the data does not fit.
SignChunkKept(chunk, more, data) ==
    /\ Receive
    /\ Expected(chunk)
    /\ more \/ ~Fits(data)
    /\ prev_chunk' = chunk
    /\ IF Fits(data)
       THEN G_context' = Appended(data) /\ Respond(Status("SW_OK"))
       ELSE UNCHANGED G_context /\ Respond(Status("SW_WRONG_TX_LENGTH"))
    /\ UNCHANGED <<running, N_storage, screen, callback, signatures, swap>>

\* The last chunk, when the transaction cannot be parsed
SignChunkMalformed(chunk, data) ==
    /\ Receive
    /\ Expected(chunk)
    /\ Fits(data)
    /\ prev_chunk' = chunk
    /\ G_context' = [Appended(data) EXCEPT !.req_type = "REQUEST_UNDEFINED"]
    /\ Respond(Status("SW_TX_PARSING_FAIL"))
    /\ UNCHANGED <<running, N_storage, screen, callback, signatures, swap>>

\* Mutant: the state is not set after the parser.
StillOpen(data) == Appended(data)

Parsed(data) == [Appended(data) EXCEPT !.state = "STATE_PARSED"]

-----------------------------------------------------------------------------
(* What the review of a parsed request looks like *)

IsMessage(shape) == shape \in {"text", "split_text", "bytes"}

\* Mutants: no room is left for the terminator.
TextFits(len) == len <= StructSize
BytesFit(len) == StructSize >= 2 * len

\* short_enough of the text and of the raw message display
TextShortEnough(len) == len < StructSize
BytesShortEnough(len) == StructSize >= 2 * len + 1

\* A review goes through the blind signing check ...
Gated(shape, len) ==
    CASE shape = "known_call" -> FALSE
      [] shape = "other_tx"   -> TRUE
      [] shape = "split_text" -> TRUE
      [] shape = "bytes"      -> ~BytesShortEnough(len)
      [] shape = "text"       -> /\ UI = "bagl"
                                 /\ ~N_storage.show_full_message
                                 /\ ~TextShortEnough(len)

\* ... and this much of the content can be read on it.  A text is printed up
\* to its first NUL; g_struct holds it with its terminator, or two
\* hexadecimal digits for each byte.
ReadableContent(shape, len) ==
    CASE shape = "known_call" -> "fields"
      [] shape = "other_tx"   -> "type_only"
      [] shape = "split_text" -> "cropped"
      [] shape = "bytes"      -> IF 2 * len + 1 <= StructSize THEN "whole"
                                                              ELSE "cropped"
      [] shape = "text"       -> IF \/ UI = "nbgl"
                                    \/ N_storage.show_full_message
                                    \/ len + 1 <= StructSize
                                 THEN "whole" ELSE "cropped"

\* Mutant: the review follows whatever the setting says.
UngatedView(shape, len) ==
    IF Gated(shape, len) THEN "blind_review" ELSE "clear_review"

\* ui_flow_verified_display and nbgl_useCaseReviewVerify: a gated review is
\* shown at once only if blind signing is enabled in the settings.
ReviewView(shape, len) ==
    IF ~Gated(shape, len) THEN "clear_review"
    ELSE IF N_storage.allow_blind_signing THEN "blind_review"
    ELSE "blind_choice"

ReviewPage(shape, context) ==
    [view |-> ReviewView(shape, context.raw_tx_len),
     visible |-> ReadableContent(shape, context.raw_tx_len),
     path |-> context.bip32_path,
     content |-> context.raw_tx]

\* NBGL has a callback of its own for messages.
ReviewCallback(shape) ==
    IF UI = "nbgl" /\ IsMessage(shape) THEN "message_choice"
                                      ELSE "validate_transaction"

\* The last chunk, parsed: the review is put on the screen and the command
\* waits for the user.
SignChunkReview(chunk, data) ==
    /\ ~CalledFromSwap
    /\ Receive
    /\ Expected(chunk)
    /\ Fits(data)
    /\ prev_chunk' = chunk
    /\ G_context' = Parsed(data)
    /\ \E shape \in Shapes :
          /\ screen' = ReviewPage(shape, Parsed(data))
          /\ callback' = ReviewCallback(shape)
    /\ owed' = TRUE
    /\ UNCHANGED <<running, N_storage, reply, unsolicited, signatures, swap>>

SignatureReply(context) ==
    [sw |-> "SW_OK", body |-> "signature", path |-> context.bip32_path,
     content |-> context.raw_tx]

Signature(context) ==
    [path |-> context.bip32_path, content |-> context.raw_tx]

\* Mutants: the app stays after the response; the result does not depend on
\* the answer.
RespondAndStay(answer) ==
    /\ Respond(answer)
    /\ swap' = [response_ready |-> TRUE,
                result |-> IF answer.sw = "SW_OK" THEN "success" ELSE "failure"]
    /\ UNCHANGED running

RespondSuccess(answer) ==
    /\ Respond(answer)
    /\ swap' = [response_ready |-> TRUE, result |-> "success"]
    /\ Leave

\* An answer once the swap response is ready ends the app: the Exchange app
\* gets the answer's status as the result.
RespondAndLeave(answer) ==
    /\ Respond(answer)
    /\ swap' = [response_ready |-> TRUE,
                result |-> IF answer.sw = "SW_OK" THEN "success" ELSE "failure"]
    /\ Leave

\* The last chunk, parsed, in a swap: nothing is shown; the transaction is
\* signed if it is the one the user has accepted in the Exchange app.  Only a
\* recognised call can be.
SignChunkSwap(chunk, data) ==
    /\ CalledFromSwap
    /\ Receive
    /\ Expected(chunk)
    /\ Fits(data)
    /\ prev_chunk' = chunk
    /\ \E shape \in Shapes, valid, signed \in BOOLEAN :
          IF swap.response_ready \/ ~valid \/ shape # "known_call"
          THEN /\ G_context' = Parsed(data)
               /\ RespondAndLeave(Status("SW_SWAP_CHECKING_FAIL"))
               /\ UNCHANGED signatures
          ELSE IF signed
          THEN /\ G_context' = [Parsed(data) EXCEPT !.state = "STATE_APPROVED"]
               /\ RespondAndLeave(SignatureReply(Parsed(data)))
               /\ signatures' = Append(signatures, Signature(Parsed(data)))
          ELSE /\ G_context' = [Parsed(data) EXCEPT !.state = "STATE_NONE"]
               /\ RespondAndLeave(Status("SW_SIGNATURE_FAIL"))
               /\ UNCHANGED signatures
    /\ UNCHANGED <<N_storage, screen, callback>>

-----------------------------------------------------------------------------
(* Callbacks of the screen *)

\* The page after a decision: BAGL goes home, NBGL shows a status page first.
ClosingPage == Page(IF UI = "bagl" THEN "home" ELSE "status")

Decidable == {"address", "clear_review", "blind_review"}

\* validate_pubkey(true)
ApproveAddress ==
    /\ callback = "validate_pubkey"
    /\ Answer(PubkeyReply(G_context.pk_info))
    /\ UNCHANGED <<G_context, signatures>>

\* validate_transaction(true), of which crypto_sign_message is the step that
\* may fail
ApproveTransaction ==
    /\ callback \in {"validate_transaction", "message_choice"}
    /\ \/ /\ G_context' = [G_context EXCEPT !.state = "STATE_APPROVED"]
          /\ Answer(SignatureReply(G_context))
          /\ signatures' = IF owed THEN Append(signatures, Signature(G_context))
                                   ELSE signatures
       \/ /\ G_context' = [G_context EXCEPT !.state = "STATE_NONE"]
          /\ Answer(Status("SW_SIGNATURE_FAIL"))
          /\ UNCHANGED signatures

Approve ==
    /\ running
    /\ screen.view \in Decidable
    /\ ApproveAddress \/ ApproveTransaction
    /\ screen' = ClosingPage
    /\ UNCHANGED <<running, N_storage, prev_chunk, callback, swap>>

\* validate_pubkey(false)
RejectAddress ==
    /\ callback = "validate_pubkey"
    /\ Answer(Status("SW_DENY"))
    /\ UNCHANGED G_context

\* Mutant: the refusal is not answered.
RejectSilently ==
    /\ callback = "validate_transaction"
    /\ G_context' = [G_context EXCEPT !.state = "STATE_NONE"]
    /\ UNCHANGED io

\* validate_transaction(false)
RejectTransaction ==
    /\ callback = "validate_transaction"
    /\ G_context' = [G_context EXCEPT !.state = "STATE_NONE"]
    /\ Answer(Status("SW_DENY"))

\* review_choice(false) of nbgl_display_message.c closes the page only.
RejectMessage ==
    /\ callback = "message_choice"
    /\ UNCHANGED <<G_context, io>>

\* Also the refusal to enable blind signing runs the callback.
Reject ==
    /\ running
    /\ screen.view \in Decidable \union {"blind_choice"}
    /\ RejectAddress \/ RejectTransaction \/ RejectMessage
    /\ screen' = ClosingPage
    /\ UNCHANGED <<running, N_storage, prev_chunk, callback, signatures, swap>>

\* Mutant: the setting is not written.
AllowOnce ==
    /\ running
    /\ screen.view = "blind_choice"
    /\ screen' = [screen EXCEPT !.view = IF UI = "bagl" THEN "blind_review"
                                                        ELSE "enabled"]
    /\ UNCHANGED <<running, N_storage, G_context, prev_chunk, callback, io,
                   signatures, swap>>

\* Blind signing is enabled from within the review, for this and for the
\* later ones; BAGL goes on with the review, NBGL confirms first.
AllowBlindSigning ==
    /\ running
    /\ screen.view = "blind_choice"
    /\ N_storage' = [N_storage EXCEPT !.allow_blind_signing = TRUE]
    /\ screen' = [screen EXCEPT !.view = IF UI = "bagl" THEN "blind_review"
                                                        ELSE "enabled"]
    /\ UNCHANGED <<running, G_context, prev_chunk, callback, io, signatures,
                   swap>>

\* The status pages of NBGL go away by themselves or at a touch.
DismissStatus ==
    /\ running
    /\ \/ screen.view = "enabled" /\ screen' = [screen EXCEPT !.view = "blind_review"]
       \/ screen.view = "status" /\ screen' = Page("home")
    /\ UNCHANGED <<running, N_storage, G_context, prev_chunk, callback, io,
                   signatures, swap>>

\* The settings, from the main menu.  NBGL has no switch for full messages.
ChangeSettings ==
    /\ running
    /\ screen.view = "home"
    /\ \/ \E value \in BOOLEAN :
             N_storage' = [N_storage EXCEPT !.allow_blind_signing = value]
       \/ /\ UI = "bagl"
          /\ \E value \in BOOLEAN :
                N_storage' = [N_storage EXCEPT !.show_full_message = value]
    /\ UNCHANGED <<running, G_context, prev_chunk, screen, callback, io,
                   signatures, swap>>

Quit ==
    /\ running
    /\ screen.view = "home"
    /\ Leave
    /\ UNCHANGED <<N_storage, G_context, prev_chunk, screen, callback, io,
                   signatures, swap>>

-----------------------------------------------------------------------------
(* The specification *)

P1s == 0..P1_MAX
P2s == {P2_LAST, P2_MORE, 1}
PathData == Paths \union {Foreign, Malformed}

\* Before the first launch: the NVM of a fresh installation is zero.
Init ==
    /\ running = FALSE
    /\ N_storage = [show_full_message |-> FALSE, allow_blind_signing |-> FALSE,
                    initialized |-> FALSE]
    /\ G_context = FreshContext("REQUEST_UNDEFINED")
    /\ prev_chunk = 0
    /\ screen = Page("off")
    /\ callback = "none"
    /\ owed = FALSE
    /\ reply = Status("SW_OK")
    /\ unsolicited = FALSE
    /\ signatures = <<>>
    /\ swap = NoSwap

SignChunk(chunk) ==
    \/ SignChunkRefused(chunk)
    \/ \E data \in Chunks :
          \/ \E more \in BOOLEAN : SignChunkKept(chunk, more, data)
          \/ SignChunkMalformed(chunk, data)
          \/ SignChunkReview(chunk, data)
          \/ SignChunkSwap(chunk, data)

Command ==
    \/ RefusedFrame
    \/ \E p1 \in P1s, p2 \in P2s : \/ GetInfo(p1, p2)
                                   \/ GetPublicKeyRefused(p1, p2)
                                   \/ SignTxRefused(p1, p2)
    \/ \E path \in PathData : \/ GetPublicKey(path)
                              \/ ShowAddress(path)
                              \/ SignStart(path)
    \/ \E chunk \in 1..MaxPackets : SignChunk(chunk)

\* What the user does with a page that waits for a decision
Decide == Approve \/ Reject \/ AllowBlindSigning \/ DismissStatus

Next ==
    \/ Command
    \/ Decide
    \/ ChangeSettings
    \/ Quit
    \/ Launch
    \/ IoReset

Spec == Init /\ [][Next]_vars

\* The user eventually decides on what is on the screen.
Fairness == WF_vars(Decide)

FairSpec == Spec /\ Fairness

-----------------------------------------------------------------------------
(* Properties *)

\* Every variable keeps the type its comment gives.
TypeOK ==
    /\ running \in BOOLEAN
    /\ N_storage \in Storage
    /\ G_context \in Context
    /\ prev_chunk \in 0..MaxPackets
    /\ screen \in Screen
    /\ callback \in Callbacks
    /\ owed \in BOOLEAN
    /\ reply \in Reply
    /\ unsolicited \in BOOLEAN
    /\ signatures \in Seq(SignatureRecord)
    /\ swap \in SwapState

\* A page of a signing request is on the screen
SigningPage ==
    /\ running
    /\ \/ screen.view \in {"clear_review", "blind_review", "blind_choice", "enabled"}
       \/ screen.view = "address" /\ callback # "validate_pubkey"

\* While a signing request is on the screen its command waits for the answer,
\* and what the callback will sign is what is shown: the same bytes, the path
\* of the request, parsed and not yet decided (G_context is read again when
\* the user approves, not when the page was made).
ReviewHoldsRequest ==
    SigningPage =>
        /\ owed
        /\ callback \in {"validate_transaction", "message_choice"}
        /\ G_context.req_type = "CONFIRM_TRANSACTION"
        /\ G_context.state = "STATE_PARSED"
        /\ screen.content = G_context.raw_tx
        /\ screen.path = G_context.bip32_path
        /\ G_context.bip32_path \in Paths

\* The sequence number kept outside the context and the data inside it never
\* drift apart, whatever was refused, resent or reset in between: a request
\* under way holds exactly the chunks 1 to prev_chunk.
SequenceMatchesData ==
    running /\ ~NoRequest => Len(G_context.raw_tx) = prev_chunk

\* The length check of handler_sign_tx never refuses a chunk that the sequence
\* number and P1_MAX let through: raw_tx has room for every packet.  (The
\* sequence number has moved on when it does, so the chunk could not be
\* resent as the comment there promises.)
ExpectedChunkFits ==
    running /\ ~NoRequest /\ ~AlreadyParsed /\ prev_chunk < MaxPackets =>
        G_context.raw_tx_len + MaxLc <= MaxTransactionLen

\* At most one signature is returned for a first chunk, however many refused
\* reviews, failed signatures and further chunks follow it.
OneSignaturePerRequest == Len(signatures) <= 1

\* A review whose content cannot all be read is shown only while blind
\* signing is enabled: there is no way past the question.
BlindReviewAllowed ==
    running /\ screen.view \in {"blind_review", "enabled"} =>
        N_storage.allow_blind_signing

\* A review without the blind signing check lets the user read all of the
\* content: the check and the display use the same limits.
ClearReviewIsReadable ==
    running /\ screen.view = "clear_review" =>
        screen.visible \in {"fields", "whole"}

\* While an address waits for confirmation, approving it returns the key of
\* the path on the screen.
AddressHoldsKey ==
    running /\ owed /\ screen.view = "address" =>
        /\ callback = "validate_pubkey"
        /\ screen.path \in Paths
        /\ G_context.pk_info = screen.path

\* A step that returns a signature
Signs == signatures' # signatures /\ signatures' # <<>>

\* The approval of the review it is over, or the end of a swap
SignsTheReview ==
    LET signed == signatures'[Len(signatures')] IN
    IF CalledFromSwap
    THEN swap'.result = "success" /\ ~running'
    ELSE /\ screen.view \in {"clear_review", "blind_review"}
         /\ signed.path = screen.path
         /\ signed.content = screen.content

\* A signature is returned only by an approval, of a review, and it is over
\* the bytes and with the path of that review; in a swap, where the review
\* was in the Exchange app, it ends the app with a success.
SignedAsReviewed == [][Signs => SignsTheReview]_vars

\* Once a swap has its response nothing more is signed, answered or reported
\* in it, whatever the host sends and however the link is reset: all that can
\* happen is a launch for another swap, with nothing left of this one
\* (sign_tx.c:121-149, app_main.c:76-115).
SwapSignsOnce ==
    [][swap.response_ready =>
        /\ UNCHANGED reply
        /\ \/ UNCHANGED <<signatures, swap>>
           \/ signatures' = <<>> /\ swap' = NoSwap]_vars

\* The Exchange app is told of a success exactly when a signature was
\* returned.
SwapResultIsTruthful ==
    (swap.result = "success") <=> (CalledFromSwap /\ signatures # <<>>)

\* Every command is answered, if the user decides on every page.
EveryCommandAnswered == owed ~> ~owed

(* The inductive invariant: the properties above and what they rest on *)

\* The app is gone as soon as the swap response is ready.
AppGoneAfterSwap == swap.response_ready => ~running

\* Each chunk of a request brought at most MaxLc bytes.
LengthBound ==
    running /\ ~NoRequest => G_context.raw_tx_len <= MaxLc * prev_chunk

\* A request that is not approved has no signature yet.
UndecidedIsUnsigned ==
    running /\ ~NoRequest /\ G_context.state # "STATE_APPROVED" =>
        signatures = <<>>

\* A request under way has an Aptos path.
RequestHasPath ==
    running /\ ~NoRequest => G_context.bip32_path \in Paths

\* The address page runs the address callback, and in a swap nothing but the
\* address page is ever put to the user.
PageRunsItsCallback ==
    running => /\ screen.view = "address" => callback = "validate_pubkey"
               /\ CalledFromSwap => ~SigningPage

\* While the app runs the swap is undecided; outside a swap it stays so.
SwapIsPending ==
    /\ ~swap.response_ready => swap.result = "pending"
    /\ ~CalledFromSwap => ~swap.response_ready

IInv ==
    /\ TypeOK
    /\ ReviewHoldsRequest
    /\ SequenceMatchesData
    /\ LengthBound
    /\ RequestHasPath
    /\ UndecidedIsUnsigned
    /\ OneSignaturePerRequest
    /\ PageRunsItsCallback
    /\ BlindReviewAllowed
    /\ ClearReviewIsReadable
    /\ AddressHoldsKey
    /\ AppGoneAfterSwap
    /\ SwapIsPending
    /\ SwapResultIsTruthful

(* What the repository says of the program, where the code does otherwise *)

\* get_public_key.h:43 - "zero if success, error code otherwise": an address
\* is shown only for a key that was derived.
AddressShownIsDerived ==
    running /\ screen.view = "address" => screen.path \in Paths

-----------------------------------------------------------------------------
(* The request, as the host sees it *)

RequestPhase ==
    IF ~running \/ NoRequest THEN "closed"
    ELSE CASE G_context.state = "STATE_NONE"     -> "open"
           [] G_context.state = "STATE_PARSED"   -> "review"
           [] G_context.state = "STATE_APPROVED" -> "closed"

Request == INSTANCE SigningRequest WITH
    Delegated <- CalledFromSwap,
    phase <- RequestPhase,
    path <- IF RequestPhase = "closed" THEN NoPath ELSE G_context.bip32_path,
    chunks <- IF RequestPhase = "closed" THEN <<>> ELSE G_context.raw_tx

\* The app implements the abstract signing request.
ImplementsRequest == Request!Spec
=============================================================================
