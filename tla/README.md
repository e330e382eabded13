# Verification of app-aptos

TLA+ models, TLC runs and TLAPS proofs for the Aptos app of the Ledger devices
(`src/src`, about 5,500 lines of C).  The app receives commands (APDUs) from a
host, derives keys, shows addresses and transactions to the user, and signs what
the user approves.  It is a single thread, but not a sequential program: a
command that needs the user returns without an answer, the answer is sent later
by a callback of the screen, and everything both of them need to agree on is
kept in global variables.

## 1. Inventory

| component | state it keeps | operations | what makes it correct |
|---|---|---|---|
| command loop, dispatcher (`app_main.c`, `apdu/`) | none of its own; enters and leaves | receive, check class, instruction, P1, P2, dispatch | every command is answered once; a reset of the link leaves no half request |
| signing request (`handler/sign_tx.c`) | `G_context`, static `prev_chunk` | first chunk, later chunk, last chunk | the data under review is exactly the chunks sent, in order; one signature per request |
| public key (`handler/get_public_key.c`) | `G_context` (same memory as the request) | return or show a key | the key returned is the key of the path shown |
| version, name (`handler/get_*.c`) | none | answer | - |
| callbacks (`ui/action/validate.c`) | `G_context.state` | approve, reject an address, a transaction | what is signed is what was shown |
| screens, Nano (`ui/bagl_*.c`) | `g_validate_callback`, `g_allow_blind_sign_ctx`, text buffers | show, approve, reject, allow blind signing, settings | content that cannot be read in full goes through the blind signing gate |
| screens, touch (`ui/nbgl_*.c`) | `blind_sign_ctx`, text buffers | the same, with status pages | the same |
| settings (`common_settings.c`, `app_main.c`) | `N_storage`, in NVM | initialise, change | kept over restarts; read when a page is made |
| text of a review (`common_display.c`) | `g_*` text buffers | format the fields of a call | the text names what is signed |
| parser (`transaction/`) | the structured transaction in `G_context` | classify bytes, read a transaction | accepts only what it read to the end; a displayed field is the signed field |
| BCS reader (`bcs/`) | an offset into the buffer | read integers, lengths, bytes | never past the end; one value per encoding |
| swap (`swap/`) | the parameters copied from the Exchange app, `G_swap_response_ready` | copy, check, finalise; check an address; print an amount | one transaction per consent; the result reported is true |
| numbers (`common/`) | none | print an amount with its decimals, read hexadecimal digits | a text reads as its number; no overflow |
| cryptography (`crypto.c`, `address.c`) | none | derive, sign, hash | the device's |

How they interact: the loop calls a handler; the handler writes `G_context` and
either sends an answer or puts a page on the screen; the page holds a callback;
the callback reads `G_context` again, signs, sends the answer and goes back to
the main page.  `G_context.pk_info` and `G_context.tx_info` are a union.  The
Exchange app starts this app as a library, or as an app with
`G_called_from_swap` set, and takes its result from memory they share.

What is hard here, and hard to test (the full list, with lines, is `hazards` in
`PROJECT.json`): the callback re-reads a context that may have changed since the
page was made; the context outlives the decision, so later chunks find it; a
static survives a reset that clears the context; an error is answered in the
middle of a command that then goes on; two limits for one buffer are computed in
two places; each user interface has its own callbacks, and each must answer.

## 2. Modules

| module | what it is |
|---|---|
| `SigningRequest.tla` | the abstract specification: what the host is promised about a signing request |
| `AptosApp.tla` | the app: loop, dispatcher, handlers, `G_context`, screens of both user interfaces, settings, swap protocol |
| `AptosAppProofs.tla` | its invariants and action properties, proved |
| `AptosAppRefinement.tla` | the app implements `SigningRequest`, proved |
| `TxParser.tla` | the parser of a request: `transaction_deserialize` and what it calls |
| `TxParserProofs.tla` | its theorems |
| `Review.tla` | the texts of a review: the prepare functions, their buffers and the pages; extends `TxParser` |
| `ReviewProofs.tla` | its theorems: it implements `TxParser`, and what its pages show |
| `Uleb128.tla` | the reader of numbers: lengths and variants |
| `BcsString.tla` | strings and byte sequences, with the check of UTF-8; extends `Uleb128` |
| `BcsStringProofs.tla` | the theorems of both |
| `Powers.tla`, `PowersProofs.tla` | powers as a recursion; what the proofs about digits rest on: induction, recursion, powers, division |
| `SwapSession.tla`, `SwapSessionProofs.tla` | what a swap agrees on, and what decides whether a transaction is it; its theorems |
| `PrintableAmount.tla` | the text of an amount that the Exchange app asks for |
| `AddressCheck.tla` | the check that an address is the user's own |
| `SwapLibrary.tla`, `SwapLibraryProofs.tla` | one call of the app as a library: composes the three modules above; its theorems, with those of the text of an amount |
| `MCAptosApp`, `MCReview`, `MCBcsString`, `MCPrintableAmount`, `MCSwapLibrary` | instances for TLC |

`Review` and `SwapLibrary` stand beside `AptosApp` and refine its inputs: whether
a request parses, as what, and what its page then says (`Review`), and whether a
transaction passes the swap check (`SwapLibrary`).  `BcsString` refines the reads
of lengths and strings that are single steps of `TxParser`.

### AptosApp

One step of a command is a whole turn of the loop, from `io_recv_command` to the
return of `apdu_dispatcher`: nothing of the app can run in between.  Between two
turns the callbacks of the screen run, one per step.  A restart of the app
(`Launch`) and a reset of the link (`IoReset`) are possible at any time.

| variable | code |
|---|---|
| `running` | `app_main` is in its loop |
| `N_storage` | `N_storage`, in NVM |
| `G_context` | `G_context`: `state`, `req_type`, `bip32_path`, the key or the chunks and their length |
| `prev_chunk` | the static of `handler_sign_tx` |
| `screen` | the page: which one, for which path and content, how much of it can be read |
| `callback` | `g_validate_callback` (BAGL), the callback given to the page (NBGL) |
| `owed` | the command under way has no answer yet (the SDK's io layer) |
| `reply` | the last answer |
| `unsolicited` | an answer found no command waiting |
| `signatures` | ghost: the signatures returned since the last first chunk |
| `swap` | `G_swap_response_ready` and the result the Exchange app finds |

| action | code |
|---|---|
| `RefusedFrame`, `GetInfo` | `apdu_dispatcher`, `handler_get_version`, `handler_get_app_name` |
| `GetPublicKeyRefused`, `GetPublicKey`, `ShowAddress` | `handler_get_public_key`, without and with display |
| `SignTxRefused`, `SignStart` | the checks of P1 and P2, the first chunk |
| `SignChunkRefused`, `SignChunkKept`, `SignChunkMalformed`, `SignChunkReview`, `SignChunkSwap` | a later chunk: refused; kept (or too long); last and not parsed; last and shown; last, in a swap |
| `Approve`, `Reject` | the approve and reject buttons with the callback they run |
| `AllowBlindSigning`, `DismissStatus` | the way through the blind signing gate |
| `ChangeSettings`, `Quit` | the main menu |
| `Launch`, `IoReset` | start, and `EXCEPTION_IO_RESET` |

Abstractions.  A chunk is a model value with a size.  The parser's outcome is an
input: an error, or one of five shapes, told apart because they are displayed in
different ways (a recognised call; another transaction; a text; a text with a NUL
in the middle; other bytes).  A key is the path it is derived from, a signature
is the path and the content it is over, both may fail.  The swap check of a
transaction is an input; only a recognised call may pass it.  Errors of the
formatting functions other than that of the path cannot occur with the sizes of
the buffers and are left out.  Paging and scrolling change no state of the app.

### TxParser

The grammar of a request is data: for each `*_deserialize` function the sequence
of the reads it makes (`Header`, `EntryFunction`, `CoinTransfer`, ...), each with
the `parser_status_e` it returns when it fails.  A step is one read through one of
the two cursors, `buf` and `footer`; `stage` and `pending` are the place in the
code.  The values that the parser branches on (variants, lengths, names) are chosen
when they are read, and all others are left out, so a behaviour stands for all the
requests with these values.  No byte is chosen twice: all that is chosen is read
by `buf`, which only goes forward, and what `footer` reads is never looked at, so
the two may overlap without contradicting each other.
The lengths of the fields are those of the code, and the limit of a request is a
constant, `MAX_TRANSACTION_PACKETS`, as it is in the code: the `Makefile` sets 106,
90 or 70 packets for the devices, `constants.h` two for builds that set none (unit
tests, fuzzing).  `determine_function_type` looks at the last byte
of the module's address, and the model keeps this one bit of it.

### Review

A step after the last read of the parser: `ui_prepare_transaction` and what it
calls.  A text is not put together character by character.  It is a record of the
fields of the request that it was made from, of the coin it names to the reader,
and of the greatest length it can have; so a text that is stale, incomplete or cut
off can be told from one that is not.  The six buffers (`texts`) are globals and
keep their texts between requests, which is what `Leftover` is; so is the union of
the arguments, of which a page may show only the fields that were read for this
request.  `Page` says which buffers a kind of call shows, for the Nano and for the
touch screens.

A name is an identifier with a length and holds no zero byte; those of a coin may
be the same letters in another case, of which `get_token_info` sees nothing
(`SameInAnyCase` is `_strcasecmp`).  The tickers of `TOKEN_MAPPING` are three
entries, one of each kind.

### Uleb128 and BcsString

`bytes`, `offset`, `shift`, `tmp_value` are the variables of
`bcs_read_u32_from_uleb128`, a step is a turn of its loop, and the reference is
`Encoding`, the digits of a number as the format defines them.

`BcsString` goes on where the number ends.  `bcs_read_string` turns UTF-8 into
ASCII, with a question mark for each character that is not (`try_utf8_to_ascii`):
a turn of that loop is a step.  `bcs_read_dynamic_bytes` copies.  The code
tells characters by masks of their bytes; the reference (`IsUtf8`) by the numbers
they encode: a text is UTF-8 if it can be cut into the shortest encodings of
numbers that are characters.

### SwapSession

`params` is `create_transaction_parameters_t`, `G_swap_validated` the global of
`handle_swap_sign_transaction.c`, which holds whatever the Exchange app left in
the memory until the parameters are copied.  `CopyParameters` is
`swap_copy_transaction_parameters`, including the recipient that is only partly
parsed; `SignTransaction` and `RejectTransaction` are the two results of
`swap_check_validity` for a parsed transaction.  A fee is a product modulo 2^64.
`Printable` are the amounts that `print_amount` prints; one on which it does not
return (`PrintableAmount` below) is not among them, so the check fails in the model
where the device hangs.  Neither signs, so what is said of signatures is not affected.

### PrintableAmount

`base` and `num_digits` are the variables of the loop in `print_amount`, a step is
a turn of it; the formatting after the loop (`adjust_decimals`) is a step.  The
reference is `Value`, the number a text reads as.  `AmountAssumption` says of the
sizes that the first number that is too long for a text is still an amount
(10^19 < 2^64, with 21 bytes), so the base does not wrap as long as its digits
are printed.

### AddressCheck

`swap_handle_check_address`: the parameters are refused, the key is derived, the
address is made and compared, a step each.  A key or an address is the path that
it was made from.  `get_public_key` answers its errors to a host that did not ask,
and if that send succeeds, returns success without a key: `public_key` is then
whatever the stack held (`OnStack`), and `answered` remembers the error.

### SwapLibrary

`library_main`: a launch makes one call, `command` says which, and the variables
of the other two keep one value.  A library has no state between its calls, as
its memory is the Exchange app's.

### The SDK

Assumptions about the SDK, which is not part of the repository: the host works
in lock step, so a command is received only when the last one is answered; a send
with no command waiting returns an error; a reset of the link enters `app_main`
again without clearing the statics; once `G_swap_response_ready` is set, a send
ends the app and hands over the result; `snprintf` with `%.*s` copies the bytes
after a NUL (the Nano's check for a NUL in a short message reads the copy,
`bagl_display.c:436`).

## 3. Runs

| run | question | result |
|---|---|---|
| `AptosApp_bagl` | Nano: types, review, sequence, length, gate, address, signatures; every command is answered; the app implements `SigningRequest` | holds |
| `AptosApp_nbgl` | touch screens: signed as reviewed, and the gate, with their own callbacks | holds |
| `AptosApp_swap` | in a swap: one signature, a true result; `SigningRequest` with delegated consent | holds |
| `Review_pages` | every request, every path through the grammar, both kinds of page: no read leaves the buffer, and a page shows this request, with the exceptions named below | holds |
| `BcsString_reads` | a number is read if and only if it is the one encoding of a number in range; a string if and only if it is UTF-8 and fits | holds |
| `SwapLibrary_calls` | what a swap signs was agreed on and what was agreed on is signed; a printed amount reads as the amount; an address matches if and only if it is that of the path | holds |
| `Finding_unanswered` | touch screens: every command is answered | violated |
| `Finding_address` | an address is shown only for a derived key | violated |
| `Finding_footer` | the footer of a recognised call follows its payload | violated |
| `Finding_shown_coin` | what is shown as AptosCoin is AptosCoin | violated |
| `Finding_amount` | the text of an amount is made in finite time | violated |
| `Finding_coin` | the coin that is moved is the agreed one | violated |

The properties of `AptosApp`:

- `ReviewHoldsRequest`: while a review is on the screen its command waits, the
  page runs the signing callback, and the context holds what is shown.
- `SignedAsReviewed`: a step that returns a signature is the approval of a page
  with that content and path, or the end of a swap with a success.
- `SequenceMatchesData`, `ExpectedChunkFits`: the number kept outside the context
  and the data inside agree over refusals, resends, resets; what the number lets
  through fits in the buffer.
- `OneSignaturePerRequest`: although a request may be reviewed several times.
- `BlindReviewAllowed`, `ClearReviewIsReadable`: no way around the gate, and no
  content without the gate that is not shown in full.
- `AddressHoldsKey`: approving an address returns the key of the path shown.
- `SwapSignsOnce`: once the response of a swap is ready no step signs or answers
  anything until the app is launched again.
- `SwapResultIsTruthful`: the Exchange app is told of a success only if the
  signature was handed over.
- `EveryCommandAnswered`: liveness, see below.
- `ImplementsRequest`: refinement; `RequestPhase` maps `req_type` and `state` to
  the phases of the abstract request.

Of `TxParser` and `Review`:

- `ReadsInsideBuffer`: although the start of the footer is `size - 25` in
  unsigned arithmetic, checked by nobody, no slice leaves the request.
- `TransferIsReadWhole`: each byte of an accepted `aptos_account::transfer` is in
  exactly one field.  `HeaderApartFromFooter`: in every accepted call the gas and
  the expiration are not read out of the sender.
- `TextIsTerminated`: a text that is shown as a C string has its 0 byte.
- `ShownIsOfThisRequest`: no page has a text that an earlier request left in a
  buffer, or an argument that no read of this request has written.  A review of a
  transaction with data, which the parser does not read further, shows the fee of
  the zeroed structure.
- `ClearShowsArguments`: without the gate, everything that the parser reads of
  the call's arguments, its function and its fee are shown.  Left out by the code,
  and named in the property: the type argument of a fungible asset's transfer, and
  on the touch screens the address of the module that a delegation calls.
- `ClearTextIsWhole`: no text of such a page is cut off by the size of its buffer,
  but for the coin type, and the last decimals of an amount behind a ticker of nine
  letters.
- `NamedCoinIsMoved`: such a page names a coin.  Behind a ticker it is the coin of
  the call in any case of its letters, which is all that the lookup compares; without
  one it is the coin of the call to the letter.  AptosCoin is also named for a coin
  whose names begin those of AptosCoin.

Of `Uleb128` and `BcsString`:

- `AcceptedIsCanonical`, `RefusedIsNoNumber`: the two halves of "a number is read
  if and only if it is encoded as BCS wants it".
- `StringIsConverted`, `RefusedIsNoString`: the two halves for strings: what comes
  out is what the bytes encode, and only what is no UTF-8, does not fit or is not
  all there is refused.  `BytesAreCopied`: the same for byte sequences.

Of the swap modules:

- `SignedIsAgreed`, `AgreedIsNotRejected`: the two halves of the swap check.  A
  destination that is not an address has a part of its own in the first (the receiver
  is what was read of it, then zeros), and is left out of the second.
- `TextIsAmount`, `OnlyUnprintableFails`: the two halves of the amount's text.
- `MatchIsDerived`, `OwnAddressMatches`: the two halves of the address check.  After
  an error that was sent there is no key of the path; the first then says that the
  address is that of a key which the stack held, the second nothing.

`TypeOK`, `ReviewTypeOK`, `StringTypeOK` and `AmountTypeOK` are the type
invariants; those of the buffers bound the offsets and the room as well.

### Bounds

`MCAptosApp`: two chunks, of one and of two bytes, with `MaxLc = 2`; requests of
three packets, two in the run of the touch screens; `g_struct` of four bytes.
So a request can be shorter and as long as its buffer, a text (up to four bytes)
and raw bytes fall on both sides of their limits, and a chunk can be resent,
skipped and sent after the last.  Two Aptos paths, one of which is too long to be
printed, one foreign path, one that cannot be read.  The actions of a command
treat all chunks alike, and the proofs below hold for all bounds.

`MCReview` has fields of the lengths of the code and the 106 packets of the Nano S
Plus: every size from 0 to 540, three more than the longest call of its names with
its footer, and the three around 27030, which is what `raw_tx` holds.  Names that the
app does not know are empty, four bytes long, or longer than one digit of a length
can say; the numbers are all that the parser expects anywhere and one of two digits;
`size_t` is smaller, 2^16 for 2^32, larger than any offset in either case.  The
buffers have the sizes of the code.  The theorems hold for any number of packets.

`MCBcsString` has digits of two bits and numbers of five, so that the last digit
is shorter than the others, as it is with seven and 32, and all buffers of up to
five bytes, two more than the longest number.  The texts are up to four bytes,
the longest character, of the first and last byte of each range that UTF-8 tells
apart, behind lengths that are right, one too large, or three; the result has room
for one byte or for four.

`MCSwapLibrary` has numbers of two bits, so that fees wrap, addresses of two
bytes, two coins and one amount that cannot be printed; amounts of eleven bits,
which have up to four digits, and temporaries of five bytes, as the code has 64
bits, 20 digits and 21 bytes; paths of up to three elements, as many as the check
of a path looks at, of the two it looks for and one other.  The base of
`print_amount` wraps to zero after as many factors of ten as there are bits, in
both widths.

### Fairness

`WF_vars(Decide)` in `AptosApp`: the user eventually decides on, or dismisses, the
page that is up.  The app itself needs none: a command is one step, and a
callback is one step of the user's decision.  Nothing is assumed about the host.
`PrintableAmount` has `WF_vars(Next)`: the app is called as a library, and nothing
else runs until it returns.

### Findings

They are `findings` in `PROJECT.json`, each with the line it contradicts.

1. On touch screens, the refusal of a message is not answered
   (`nbgl_display_message.c:43`): the host waits for ever.
2. `get_public_key` answers its own errors and returns success, so the address
   page is shown for a key that was not derived, with no command waiting.
3. `tx_raw_deserialize` compares the end of the payload with the start of the
   footer only for `aptos_account::transfer`; any other recognised call is accepted
   with bytes left over, or with a footer that overlaps its arguments.
4. `print_amount` does not return for the largest amounts: the base that counts
   digits wraps, without having exceeded them, and stays zero
   (`common/parse.c:121`).  In 64 bits: from 17909126868192198656 on, the largest
   value that a power of ten has modulo 2^64.
5. The ticker that is saved is compared with nothing: a swap of one coin signs a
   transfer of the same amount of another.
6. `is_coin_type_aptos` compares the module and the name of a coin over the
   lengths that the request gives, and its address not at all: other coins are
   shown as `0x1::aptos_coin::AptosCoin`, with the ticker APT
   (`common_display.c:323`).

More facts are visible in the models or their source without a run of their own.

- In builds with swap support the request is not reset when it is finished, so
  the check at `sign_tx.c:80`, which its comment calls unreachable, is what
  protects it.
- After a refusal the request is open again (`Reopen` in `SigningRequest`) and a
  chunk with the next number continues it.
- `get_token_info` compares without regard to the case of letters, of which Move
  takes account: a coin of the same account whose names differ from those of a
  listed coin in case only gets its ticker, on a page without its type
  (`common_display.c:409`).  This is why `NamedCoinIsMoved` is stated with
  `SameInAnyCase`: with `coin = CoinMoved` in its place TLC refutes it.
- A destination of a swap that cannot be parsed is logged, and the copy of the swap
  parameters reports success with the bytes parsed so far as the recipient
  (`handle_swap_sign_transaction.c:91`).  `SignedIsAgreed` allows this and nothing
  else for such a destination.
- An error of `get_public_key` that was sent lets the address check go on with
  whatever key the stack holds.  Whether it can be sent, in a call of the library
  that no host waits for, is up to the SDK.
- The failure of a send is modelled where the code reads it.  In a swap it does not:
  the SDK ends the app with the send.
- `TOKEN_MAPPING` has an entry (`THL`) whose address has 63 digits; the texts it
  is compared with have 64, so it is never found.

Each property of a passing run has a mutant in its module, a changed form of
one definition as a plausible mistake in the code would change it, which the
property must catch (`mutants` in `PROJECT.json`).

## 4. Proofs

### AptosApp

`AptosAppProofs.tla` proves, for all values of the constants that satisfy
`ChunkAssumption`, `PathAssumption` and `BuildAssumption` (any set of chunks and
sizes, any number of packets, any size of `g_struct`, any set of paths, both user
interfaces, in and outside a swap):

- `TypeCorrect`: `Spec => []TypeOK`.
- `Invariance`: `Spec => []IInv`, the inductive invariant.
- `ReviewIsFaithful`, `SequenceIsFaithful`, `EveryExpectedChunkFits`,
  `SignedOnce`, `GateIsKept`, `ClearTextFits`, `AddressIsOfKey`, `SwapIsHonest`:
  the invariants of the runs, one each.
- `SignsOnlyWhatWasReviewed`: `Spec => SignedAsReviewed`.
- `SwapSignsAtMostOnce`: `Spec => SwapSignsOnce`.

The properties are not inductive one by one.  `IInv` adds to them: `LengthBound`
(at most `MaxLc` bytes per chunk, from which `ExpectedChunkFits` follows),
`RequestHasPath`, `AppGoneAfterSwap` (the app does not run once its response is
ready, from which `SwapSignsOnce` follows), `UndecidedIsUnsigned` (a request that is not approved has no
signature yet, which makes `OneSignaturePerRequest` inductive), `PageRunsItsCallback`
and `SwapIsPending`.  The argument: when a command arrives nothing is owed
(`Receive`), and a review is always owed (`ReviewHoldsRequest`), so no review is
on the screen and the command may change the context; when a callback runs, the
page is a review only if the context is the one it was made from (`PageMeans`).
The lemmas follow this: one per action, each for the conjuncts about the screen
(`ScreenInv`), the request (`RequestInv`) and the swap (`SwapInv`).

`AptosAppRefinement.tla` proves `AppImplementsRequest`:
`Spec => ImplementsRequest`, by step simulation from `IInv`, one lemma per action.
A chunk in its order finds the request open, and with room for it, because the
number kept outside the context counts the chunks inside (`ExpectedIsOpen`); a
page that is approved or refused shows a request under review
(`DecidedIsReview`).  All that gives a request up, whatever it leaves in the
context, is one abstract step (`Drops`).

### TxParser and Review

`TxParserProofs.tla` proves, for requests of all sizes that `size_t` counts, any
limit of them, all lengths of names and all numbers (`SizesAssumption`,
`NumbersAssumption`):

- `ParserTypeCorrect`, `ParserInvariance`: `IInv` says which reads each stage may
  have before it (`PendingOfStage`), what is known of the transaction there
  (`TransactionOfStage`), that no cursor is past the end (`CursorsInside`), and
  what a text has been given (`TextIsTerminated`).
- `ParserReadsInside`: `ReadsInsideBuffer`.  That `size - 25` does not wrap rests
  on the prefix, which is longer than the footer and has been read by then.
- `ParserTerminatesTexts`: `TextIsTerminated`.
- `ParserKeepsFooterApart`: `HeaderApartFromFooter`, from a second invariant
  (`Apart`).  The sender and the sequence number end at 72.  When the call is known
  `buf` has read 104 bytes, so the request has as many, and its footer, which is 25
  bytes long, starts behind 72.
- `ParserReadsCall`: a call that is accepted has been read by the grammar of its
  own type, nothing skipped, from a third invariant (`Covered`): what a stage has
  read and what it has still before it are together its grammar.
- `ParserReadsTransferWhole`: `TransferIsReadWhole`, from a fourth (`Tiles`): the
  fields that a cursor has read tile what it has passed, each byte in one of them,
  and at the end of a transfer the two cursors have passed the whole request
  between them.  It needs `Apart`, as the fields are told apart by their places.

`ReviewProofs.tla` proves `ReviewImplementsParser` (`ReviewSpec => Spec`: what a
review does leaves the parser alone), and from it `ReviewReadsInside`, the four
promises of the parser.  The properties of the pages rest on one invariant more,
`PageStays`: the buffers keep their types, and the page that is up is the one of
the request that the parser has accepted and rests on.  With `Covered` it follows
what every page shows, one lemma per kind of page (`TransferPages`,
`DelegationPage`, `GatedPage`, ...; together `KnownPage`):

- `ReviewTypeCorrect`: `ReviewTypeOK`.
- `ReviewShowsThisRequest`: `ShownIsOfThisRequest`; a text on a page has just been
  prepared, and the fields it is made from have been read.
- `ClearOnlyForKnownCalls`, `ClearPagesShowArguments` (`ClearShowsArguments`),
  `ClearTextsAreWhole` (`ClearTextIsWhole`) and `ClearPagesNameCoin`
  (`NamedCoinIsMoved`): the pages that are shown without the gate.  The last one
  rests on what the lookup finds (`AmountOfCoin`): an entry that is the coin, if the
  case of letters is ignored.

### Uleb128 and BcsString

`BcsStringProofs.tla` proves the six properties of the readers for digits and
numbers of any width (`WidthAssumption`) and for buffers, results and limits of any
size (`StringAssumption`, `DigitsAssumption`: the bytes that a number may take are
digits with or without another one behind; with eight bits every byte is).

- `NumbersAreCanonical`, `OnlyNoNumberIsRefused`: from `NumberInv`, which says that
  `tmp_value` is the number whose digits are the bytes read so far
  (`DigitsAreRead`), and that the result is right for it.  A number is told by its
  digits (`SameDigits`), and the digits of `Encoding` are as many as the number
  needs (`NumDigitsIs`), so that what is accepted is the encoding and what is
  refused begins with none.
- `StringTypeCorrect`, `BytesReadAreThere`: from `CallInv`, which adds where the
  call is and which of its errors its state explains (`PhaseIsRight`).
- `StringReadIsConverted`, `OnlyNoStringIsRefused`: from `StringInv`, which adds
  `Conversion`: the text up to the cursor has been cut into characters, what was
  written is their conversion, and there is no other way to cut it.  The last part
  (`NoOtherWay`) is what makes a refusal right: from each cut a text goes on to the
  next one (`NextCut`), and only one length makes a character of what comes next.
  That the masks of `try_utf8_to_ascii` and the reference agree is a lemma about
  the bytes of one character (`CharIs`), by the four lengths.

### SwapSession and SwapLibrary

`SwapSessionProofs.tla` proves, for all widths of the numbers, lengths of an
address, coins, and contents of the memory before the call (`SwapAssumption`):

- `SessionTypeCorrect`, `SessionInvariance`: the inductive invariant says that
  between the copy and the check `G_swap_validated` is the copy of parameters that
  were not refused, and that the outcome is that of the check against it.
- `SwapSignsAgreed`, `SwapRejectsOnlyOthers`: `SignedIsAgreed` and
  `AgreedIsNotRejected`, from it and from two lemmas about the copy (its type, and
  that a destination that parses is copied as it is).

`SwapLibraryProofs.tla` carries both of them over to the library
(`LibraryTypeCorrect`, `LibrarySignsAgreed`), and proves the address check for all paths and all
contents of the stack: `LibraryChecksAddress` (`MatchIsDerived`) and
`LibraryKnowsOwnAddress` (`OwnAddressMatches`).  The invariant, `AddressOfPath`,
says that where no error was sent, the key is that of the path of the parameters;
`KeyOfStack`, that where one was, the key is as the stack had it.

It also proves the text of an amount, for any width of the numbers, any decimals
and any size of the temporaries (`AmountAssumption`): `LibraryAmountTypes`
(`AmountTypeOK`), `LibraryPrintsAmount` (`TextIsAmount`) and
`LibraryPrintsPrintable` (`OnlyUnprintableFails`).  The invariant, `AmountInv`,
says of the loop (`Counting`) that the base is the power of ten of the digits
counted, as long as they are few enough to be printed, and that every power that
was counted is one the amount reaches.  After that the base has wrapped, and all
that is known of it is that it is a multiple of as many twos as there are digits:
it is zero when they are `Width`, which bounds `num_digits`.  Then the formatting:
the digits spell the amount (`DigitsSpell`), the first so many of them stand for
the amount without the others (`PrefixValue`), an amount that ends in zeros is a
multiple of their power (`ZerosAtEnd`), and the parts of a text are found again at
its point (`PartsOfText`).

### Induction over data

The library states induction for an operator that is a parameter, which the
provers cannot instantiate.  `PowersProofs.tla` states it for sets instead: a set of
numbers that has 0 and with each number the next has them all (`Induction`), which
follows from the well-foundedness of the numbers (`LeastNumber`), and with it that
recursive functions over numbers exist (`Recursion`).  A proof names the set of the
numbers for which its claim holds.  The facts about powers, and so about digits,
are proved in this way.

### Only model-checked

- `EveryCommandAnswered` and `CallReturns`: liveness under fairness, which the
  provers do not reach.
- The findings, which are counterexamples.

Every invariant and every other property of a passing run is proved, for all values
of the constants that satisfy the assumptions named above.  Where the runs check `ImplementsRequest`, the
theorem is `AppImplementsRequest`.

## 5. Not modelled, and the plan

Left out for good: the cryptography (`crypto.c` and the device's library: a key,
an address and a signature are what they are made from), `swap_parse_config` of
the SDK (its result, a coin or an error, is an input), layout and wording of
pages, the fuzzing harness, the tests.

Left open:

1. The fee that a review shows is a product of two 64-bit numbers kept in 64 bits
   (`common_display.c:276`).  `Review` has it as a text of its two fields, and
   nothing in the repository says what is to be shown of a product that wraps; the
   same product is a number in `SwapSession`, where it wraps.
2. A composition in which the outcome of a parse, the gate and the outcome of a
   swap check in `AptosApp` are those of `Review` and `SwapSession`.
