--------------------------- MODULE AptosAppProofs ---------------------------
(***************************************************************************)
(* Proofs about AptosApp, for every number and size of chunks, every set   *)
(* of paths, both user interfaces, in and outside a swap.                  *)
(***************************************************************************)
EXTENDS AptosApp, TLAPS

USE ChunkAssumption, PathAssumption, BuildAssumption

-----------------------------------------------------------------------------
(* Lemmas on the data *)

\* A context without data is well typed, whatever it is made for.
LEMMA FreshContextType ==
    ASSUME NEW r \in RequestTypes
    PROVE  FreshContext(r) \in Context
  BY DEF FreshContext, Context, RequestTypes, States, AnyPath

LEMMA StatusType ==
    ASSUME NEW sw \in StatusWords
    PROVE  Status(sw) \in Reply
  BY DEF Status, Reply, AnyPath

LEMMA PageType ==
    ASSUME NEW v \in Views
    PROVE  Page(v) \in Screen
  BY DEF Page, Screen, Visible, AnyPath

\* Appending a chunk keeps the context well typed.
LEMMA AppendedType ==
    ASSUME G_context \in Context, NEW c \in Chunks
    PROVE  /\ Appended(c) \in Context
           /\ Parsed(c) \in Context
  <1>1. Append(G_context.raw_tx, c) \in Seq(Chunks)
    BY DEF Context
  <1>2. G_context.raw_tx_len + Size[c] \in Nat
    BY DEF Context
  <1> QED
    BY <1>1, <1>2 DEF Appended, Parsed, Context, States

\* Every review page is well typed.
LEMMA ReviewPageType ==
    ASSUME NEW ctx \in Context, NEW s \in Shapes
    PROVE  ReviewPage(s, ctx) \in Screen
  <1>1. ReviewView(s, ctx.raw_tx_len) \in Views
    BY DEF ReviewView, Views
  <1>2. ReadableContent(s, ctx.raw_tx_len) \in Visible
    BY DEF ReadableContent, Visible, Shapes
  <1> QED
    BY <1>1, <1>2 DEF ReviewPage, Screen, Context

\* The replies that carry a key or a signature are well typed.
LEMMA ReplyTypes ==
    ASSUME NEW ctx \in Context, NEW key \in Paths \union {NoPath}
    PROVE  /\ PubkeyReply(key) \in Reply
           /\ SignatureReply(ctx) \in Reply
           /\ [Status("SW_OK") EXCEPT !.body = "info"] \in Reply
  <1>1. <<>> \in Seq(Chunks)
    OBVIOUS
  <1>2. PubkeyReply(key) \in Reply
    BY <1>1 DEF PubkeyReply, Reply, StatusWords, AnyPath
  <1>3. SignatureReply(ctx) \in Reply
    BY DEF SignatureReply, Reply, StatusWords, Context
  <1>4. [Status("SW_OK") EXCEPT !.body = "info"] \in Reply
    BY <1>1 DEF Status, Reply, StatusWords, AnyPath
  <1> QED
    BY <1>2, <1>3, <1>4

\* Bounds add up, and are transitive.
LEMMA SumBound ==
    ASSUME NEW a \in Nat, NEW b \in Nat, NEW x \in Nat, NEW y \in Nat,
           NEW z \in Nat, a <= x, b <= y
    PROVE  /\ a + b <= x + y
           /\ x + y <= z => a + b <= z
  OBVIOUS

-----------------------------------------------------------------------------
(* Type correctness *)

LEMMA InitType == Init => TypeOK
  <1> SUFFICES ASSUME Init PROVE TypeOK
    OBVIOUS
  <1>1. G_context \in Context
    BY FreshContextType DEF Init, RequestTypes
  <1>2. screen \in Screen
    BY PageType DEF Init, Views
  <1>3. reply \in Reply
    BY StatusType DEF Init, StatusWords
  <1>4. prev_chunk \in 0..MaxPackets /\ signatures \in Seq(SignatureRecord)
    BY DEF Init
  <1>5. swap \in SwapState
    BY DEF Init, NoSwap, SwapState
  <1>6. N_storage \in Storage
    BY DEF Init, Storage
  <1> QED
    BY <1>1, <1>2, <1>3, <1>4, <1>5, <1>6 DEF Init, TypeOK, Callbacks

LEMMA EnterType ==
    ASSUME TypeOK, EnterMain
    PROVE  /\ running' \in BOOLEAN
           /\ N_storage' \in Storage
           /\ G_context' \in Context
           /\ screen' \in Screen
           /\ owed' \in BOOLEAN
           /\ reply' \in Reply
           /\ unsolicited' \in BOOLEAN
           /\ signatures' \in Seq(SignatureRecord)
  <1>1. G_context' \in Context
    BY FreshContextType DEF EnterMain, RequestTypes
  <1>2. screen' \in Screen
    BY PageType DEF EnterMain, Views, MainPage
  <1>3. N_storage' \in Storage
    BY DEF EnterMain, InitStorage, TypeOK, Storage
  <1>4. signatures' \in Seq(SignatureRecord)
    BY DEF EnterMain
  <1> QED
    BY <1>1, <1>2, <1>3, <1>4 DEF EnterMain, TypeOK

\* Every command keeps the types.
LEMMA CommandType == TypeOK /\ Command => TypeOK'
  <1> SUFFICES ASSUME TypeOK, Command PROVE TypeOK'
    OBVIOUS
  <1> USE DEF TypeOK
  <1>1. CASE RefusedFrame
    <2>1. PICK sw \in StatusWords : Respond(Status(sw))
      BY <1>1 DEF RefusedFrame, StatusWords
    <2> QED
      BY <1>1, <2>1, StatusType DEF RefusedFrame, Respond, Quiet
  <1>2. ASSUME NEW p1 \in P1s, NEW p2 \in P2s,
               \/ GetInfo(p1, p2)
               \/ GetPublicKeyRefused(p1, p2)
               \/ SignTxRefused(p1, p2)
        PROVE  TypeOK'
    <2>1. \E r \in Reply : Respond(r)
      BY <1>2, StatusType, ReplyTypes
         DEF GetInfo, GetPublicKeyRefused, SignTxRefused, StatusWords
    <2>2. Quiet
      BY <1>2 DEF GetInfo, GetPublicKeyRefused, SignTxRefused
    <2> QED
      BY <2>1, <2>2 DEF Respond, Quiet
  <1>3. ASSUME NEW path \in PathData, GetPublicKey(path)
        PROVE  TypeOK'
    <2>1. PICK d \in Derivation(path) :
            /\ G_context' = PubkeyContext(path, d.pk)
            /\ IF d.err = "SW_OK"
               THEN Respond(PubkeyReply(path)) /\ UNCHANGED running
               ELSE /\ reply' = Status(d.err)
                    /\ owed' = FALSE
                    /\ unsolicited' = TRUE
                    /\ Leave
      BY <1>3 DEF GetPublicKey
    <2>2. /\ d.pk \in Paths \union {NoPath}
          /\ d.err \in StatusWords
          /\ d.err = "SW_OK" => path \in Paths
      BY <2>1 DEF Derivation, PathData, StatusWords
    <2>3. G_context' \in Context
      BY <2>1, <2>2, FreshContextType
         DEF PubkeyContext, FreshContext, Context, RequestTypes, PathData, AnyPath
    <2>4. reply' \in Reply
      BY <2>1, <2>2, StatusType, ReplyTypes, <2>3 DEF Respond
    <2> QED
      BY <1>3, <2>1, <2>3, <2>4 DEF GetPublicKey, Respond, Leave
  <1>4. ASSUME NEW path \in PathData, ShowAddress(path)
        PROVE  TypeOK'
    <2>1. PICK d \in Derivation(path), printable \in Printable(path) :
            /\ G_context' = PubkeyContext(path, d.pk)
            /\ callback' = AddressCallback(printable)
            /\ screen' = IF printable
                         THEN [Page("address") EXCEPT !.path = path]
                         ELSE screen
            /\ IF d.err = "SW_OK"
               THEN IF printable
                    THEN owed' = TRUE /\ UNCHANGED <<reply, unsolicited, running>>
                    ELSE /\ Respond(Status("SW_DISPLAY_BIP32_PATH_FAIL"))
                         /\ UNCHANGED running
               ELSE /\ reply' = Status(d.err)
                    /\ owed' = FALSE
                    /\ IF printable
                       THEN UNCHANGED <<unsolicited, running>>
                       ELSE unsolicited' = TRUE /\ Leave
      BY <1>4 DEF ShowAddress
    <2>2. /\ d.pk \in Paths \union {NoPath}
          /\ d.err \in StatusWords
      BY <2>1 DEF Derivation, PathData, StatusWords
    <2>3. G_context' \in Context
      BY <2>1, <2>2, FreshContextType
         DEF PubkeyContext, FreshContext, Context, RequestTypes, PathData, AnyPath
    <2>4. reply' \in Reply
      BY <2>1, <2>2, StatusType DEF Respond, StatusWords
    <2>5. screen' \in Screen
      BY <2>1, PageType DEF Page, Screen, Views, PathData, AnyPath
    <2>6. callback' \in Callbacks
      BY <2>1 DEF AddressCallback, Callbacks
    <2> QED
      BY <1>4, <2>1, <2>3, <2>4, <2>5, <2>6 DEF ShowAddress, Respond, Leave
  <1>5. ASSUME NEW path \in PathData, SignStart(path)
        PROVE  TypeOK'
    <2>1. G_context' \in Context
      <3>1. PICK r \in RequestTypes :
              G_context' = [FreshContext(r) EXCEPT !.bip32_path = path]
        BY <1>5 DEF SignStart, RequestTypes
      <3>2. FreshContext(r) \in Context
        BY FreshContextType
      <3> QED
        BY <3>1, <3>2 DEF Context, PathData, AnyPath
    <2>2. \E r \in Reply : Respond(r)
      BY <1>5, StatusType DEF SignStart, StatusWords
    <2>3. /\ prev_chunk' \in 0..MaxPackets
          /\ signatures' \in Seq(SignatureRecord)
      BY <1>5 DEF SignStart
    <2> QED
      BY <1>5, <2>1, <2>2, <2>3 DEF SignStart, Respond
  <1>6. ASSUME NEW chunk \in 1..MaxPackets, SignChunkRefused(chunk)
        PROVE  TypeOK'
    <2>1. G_context' \in Context
      BY <1>6 DEF SignChunkRefused, Context, RequestTypes
    <2>2. \E r \in Reply : Respond(r)
      BY <1>6, StatusType DEF SignChunkRefused, StatusWords
    <2> QED
      BY <1>6, <2>1, <2>2 DEF SignChunkRefused, Respond
  <1>7. ASSUME NEW chunk \in 1..MaxPackets, NEW data \in Chunks,
               NEW more \in BOOLEAN, SignChunkKept(chunk, more, data)
        PROVE  TypeOK'
    <2>1. G_context' \in Context
      BY <1>7, AppendedType DEF SignChunkKept
    <2>2. \E r \in Reply : Respond(r)
      BY <1>7, StatusType DEF SignChunkKept, StatusWords
    <2>3. prev_chunk' \in 0..MaxPackets
      BY <1>7 DEF SignChunkKept
    <2> QED
      BY <1>7, <2>1, <2>2, <2>3 DEF SignChunkKept, Respond
  <1>8. ASSUME NEW chunk \in 1..MaxPackets, NEW data \in Chunks,
               SignChunkMalformed(chunk, data)
        PROVE  TypeOK'
    <2>1. G_context' \in Context
      BY <1>8, AppendedType DEF SignChunkMalformed, Context, RequestTypes
    <2>2. \E r \in Reply : Respond(r)
      BY <1>8, StatusType DEF SignChunkMalformed, StatusWords
    <2>3. /\ prev_chunk' \in 0..MaxPackets
          /\ signatures' \in Seq(SignatureRecord)
      BY <1>8 DEF SignChunkMalformed
    <2> QED
      BY <1>8, <2>1, <2>2, <2>3 DEF SignChunkMalformed, Respond
  <1>9. ASSUME NEW chunk \in 1..MaxPackets, NEW data \in Chunks,
               SignChunkReview(chunk, data)
        PROVE  TypeOK'
    <2>1. Parsed(data) \in Context
      BY AppendedType
    <2>2. screen' \in Screen /\ callback' \in Callbacks
      BY <1>9, <2>1, ReviewPageType
         DEF SignChunkReview, ReviewCallback, Callbacks
    <2> QED
      BY <1>9, <2>1, <2>2 DEF SignChunkReview
  <1>10. ASSUME NEW chunk \in 1..MaxPackets, NEW data \in Chunks,
                SignChunkSwap(chunk, data)
         PROVE  TypeOK'
    <2>0. Parsed(data) \in Context
      BY AppendedType
    <2>1. G_context' \in Context
      BY <1>10, <2>0 DEF SignChunkSwap, Context, States
    <2>2. \E r \in Reply : RespondAndLeave(r)
      BY <1>10, <2>0, StatusType, ReplyTypes DEF SignChunkSwap, StatusWords
    <2>3. Signature(Parsed(data)) \in SignatureRecord
      BY <2>0 DEF Signature, SignatureRecord, Context
    <2>4. prev_chunk' \in 0..MaxPackets
      BY <1>10 DEF SignChunkSwap
    <2>5. signatures' \in Seq(SignatureRecord)
      <3>1. signatures' \in {signatures, Append(signatures, Signature(Parsed(data)))}
        BY <1>10 DEF SignChunkSwap
      <3>2. signatures \in Seq(SignatureRecord)
        OBVIOUS
      <3> QED
        BY ONLY <2>3, <3>1, <3>2
    <2>6. swap' \in SwapState
      BY <2>2 DEF RespondAndLeave, SwapState
    <2> QED
      BY <1>10, <2>1, <2>2, <2>4, <2>5, <2>6
         DEF SignChunkSwap, RespondAndLeave, Respond, Leave
  <1> QED
    BY <1>1, <1>2, <1>3, <1>4, <1>5, <1>6, <1>7, <1>8, <1>9, <1>10
       DEF Command, SignChunk

\* The callbacks of the screen, the settings and the end of the app keep the
\* types.
LEMMA ScreenType ==
    ASSUME TypeOK, Decide \/ ChangeSettings \/ Quit \/ Launch \/ IoReset
    PROVE  TypeOK'
  <1> USE DEF TypeOK
  <1>0. ClosingPage \in Screen /\ Page("home") \in Screen
    BY PageType DEF ClosingPage, Views
  <1>1. CASE Approve
    <2>1. CASE ApproveAddress
      <3>1. PubkeyReply(G_context.pk_info) \in Reply
        BY ReplyTypes DEF Context
      <3> QED
        BY <1>0, <1>1, <2>1, <3>1 DEF Approve, ApproveAddress, Answer, Respond
    <2>2. CASE ApproveTransaction
      <3>1. Signature(G_context) \in SignatureRecord
        BY DEF Signature, SignatureRecord, Context
      <3>2. \E r \in Reply : Answer(r)
        BY <2>2, StatusType, ReplyTypes DEF ApproveTransaction, StatusWords
      <3>3. G_context' \in Context
        BY <2>2 DEF ApproveTransaction, Context, States
      <3>4. signatures' \in Seq(SignatureRecord)
        BY <2>2, <3>1 DEF ApproveTransaction
      <3> QED
        BY <1>0, <1>1, <3>2, <3>3, <3>4 DEF Approve, Answer, Respond
    <2> QED
      BY <1>1, <2>1, <2>2 DEF Approve
  <1>2. CASE Reject
    <2>1. G_context' \in Context
      BY <1>2 DEF Reject, RejectAddress, RejectTransaction, RejectMessage,
                  Context, States
    <2>2. (\E r \in Reply : Answer(r)) \/ UNCHANGED io
      BY <1>2, StatusType DEF Reject, RejectAddress, RejectTransaction,
                              RejectMessage, StatusWords
    <2> QED
      BY <1>0, <1>2, <2>1, <2>2 DEF Reject, Answer, Respond, io
  <1>3. CASE AllowBlindSigning
    BY <1>3 DEF AllowBlindSigning, Storage, Screen, Views, io
  <1>4. CASE DismissStatus
    <2>1. screen' \in Screen
      BY <1>0, <1>4 DEF DismissStatus, Screen, Views
    <2> QED
      BY <1>4, <2>1 DEF DismissStatus, io
  <1>5. CASE ChangeSettings
    <2>1. N_storage' \in Storage
      BY <1>5 DEF ChangeSettings, Storage
    <2> QED
      BY <1>5, <2>1 DEF ChangeSettings, io
  <1>6. CASE Quit
    BY <1>6 DEF Quit, Leave, io
  <1>7. CASE Launch
    <2>1. /\ prev_chunk' \in 0..MaxPackets
          /\ callback' \in Callbacks
          /\ swap' \in SwapState
      BY <1>7 DEF Launch, Callbacks, NoSwap, SwapState
    <2>2. EnterMain
      BY <1>7 DEF Launch
    <2> QED
      BY <2>1, <2>2, EnterType
  <1>8. CASE IoReset
    <2>1. EnterMain /\ UNCHANGED <<prev_chunk, callback, swap>>
      BY <1>8 DEF IoReset
    <2> QED
      BY <2>1, EnterType
  <1> QED
    BY <1>1, <1>2, <1>3, <1>4, <1>5, <1>6, <1>7, <1>8 DEF Decide

LEMMA NextType == TypeOK /\ [Next]_vars => TypeOK'
  <1>1. TypeOK /\ UNCHANGED vars => TypeOK'
    BY DEF TypeOK, vars
  <1> QED
    BY <1>1, CommandType, ScreenType DEF Next

\* Type correctness: in every reachable state every variable has its type.
THEOREM TypeCorrect == Spec => []TypeOK
  BY InitType, NextType, PTL DEF Spec

-----------------------------------------------------------------------------
(* The inductive invariant *)

\* The host sends a command only when nothing is owed, so no signing request
\* is on the screen when a command arrives, and no swap is decided.
LEMMA IdleAtCommand ==
    ASSUME IInv, Receive
    PROVE  /\ running /\ ~owed
           /\ ~SigningPage
           /\ ~swap.response_ready
           /\ swap.result = "pending"
           /\ CalledFromSwap => signatures = <<>>
  BY DEF IInv, Receive, ReviewHoldsRequest, AppGoneAfterSwap, SwapIsPending,
         SwapResultIsTruthful

\* The conjuncts about the screen, and those about the swap
ScreenInv ==
    /\ ReviewHoldsRequest
    /\ PageRunsItsCallback
    /\ BlindReviewAllowed
    /\ ClearReviewIsReadable
    /\ AddressHoldsKey

RequestInv ==
    /\ SequenceMatchesData
    /\ LengthBound
    /\ RequestHasPath
    /\ UndecidedIsUnsigned
    /\ OneSignaturePerRequest

SwapInv ==
    /\ AppGoneAfterSwap
    /\ SwapIsPending
    /\ SwapResultIsTruthful

LEMMA IInvParts == IInv <=> TypeOK /\ ScreenInv /\ RequestInv /\ SwapInv
  BY DEF IInv, ScreenInv, RequestInv, SwapInv

\* A command that leaves the screen, its callback and the settings alone and
\* is answered at once keeps the conjuncts about the screen.
LEMMA AnsweredScreen ==
    ASSUME IInv, Receive, owed' = FALSE, running' \in BOOLEAN,
           UNCHANGED <<screen, callback, N_storage>>
    PROVE  ScreenInv'
  <1>1. ~SigningPage'
    BY IdleAtCommand DEF SigningPage
  <1> QED
    BY <1>1, IdleAtCommand
       DEF IInv, ScreenInv, ReviewHoldsRequest, PageRunsItsCallback,
           BlindReviewAllowed, ClearReviewIsReadable, AddressHoldsKey

\* A command that returns no signature keeps the conjuncts about the swap.
LEMMA UnsignedSwap ==
    ASSUME IInv, Receive, UNCHANGED swap, running' \in BOOLEAN,
           signatures' = signatures \/ signatures' = <<>>
    PROVE  SwapInv'
  BY IdleAtCommand
     DEF IInv, SwapInv, AppGoneAfterSwap, SwapIsPending, SwapResultIsTruthful

\* A step after which there is no request under way keeps the conjuncts about
\* the request.
LEMMA NoRequestLeft ==
    ASSUME IInv, ~running' \/ G_context.req_type' # "CONFIRM_TRANSACTION",
           signatures' = signatures \/ signatures' = <<>>
    PROVE  RequestInv'
  BY DEF IInv, RequestInv, SequenceMatchesData, LengthBound, NoRequest,
         RequestHasPath, UndecidedIsUnsigned, OneSignaturePerRequest

\* So does a step that changes nothing of the request.
LEMMA RequestKept ==
    ASSUME IInv, UNCHANGED <<G_context, prev_chunk, signatures>>,
           running' => running
    PROVE  RequestInv'
  BY DEF IInv, RequestInv, SequenceMatchesData, LengthBound, NoRequest,
         RequestHasPath, UndecidedIsUnsigned, OneSignaturePerRequest

LEMMA QuietStep ==
    ASSUME IInv, Receive, Quiet, owed' = FALSE
    PROVE  ScreenInv' /\ RequestInv' /\ SwapInv'
  BY AnsweredScreen, UnsignedSwap, RequestKept DEF Quiet, IInv, TypeOK

\* GET_PUBLIC_KEY drops the request under way.
LEMMA PublicKeyStep ==
    ASSUME IInv, NEW path \in PathData, GetPublicKey(path)
    PROVE  ScreenInv' /\ RequestInv' /\ SwapInv'
  <1>1. /\ Receive /\ owed' = FALSE /\ running' \in BOOLEAN
        /\ UNCHANGED <<screen, callback, N_storage, swap, signatures>>
    BY DEF GetPublicKey, Respond, Leave, IInv, TypeOK
  <1>2. G_context.req_type' # "CONFIRM_TRANSACTION"
    BY DEF GetPublicKey, PubkeyContext, FreshContext
  <1> QED
    BY <1>1, <1>2, AnsweredScreen, NoRequestLeft, UnsignedSwap

LEMMA ShowAddressStep ==
    ASSUME IInv, NEW path \in PathData, ShowAddress(path)
    PROVE  ScreenInv' /\ RequestInv' /\ SwapInv'
  <1>1. /\ Receive /\ running' \in BOOLEAN
        /\ UNCHANGED <<N_storage, swap, signatures>>
    BY DEF ShowAddress, Respond, Leave, IInv, TypeOK
  <1>2. G_context.req_type' # "CONFIRM_TRANSACTION"
    BY DEF ShowAddress, PubkeyContext, FreshContext
  <1>3. PICK d \in Derivation(path), printable \in Printable(path) :
          /\ G_context' = PubkeyContext(path, d.pk)
          /\ callback' = AddressCallback(printable)
          /\ screen' = IF printable
                       THEN [Page("address") EXCEPT !.path = path]
                       ELSE screen
          /\ owed' = (d.err = "SW_OK" /\ printable)
    BY DEF ShowAddress, Respond
  <1>4. CASE printable
    <2>1. screen'.view = "address" /\ screen'.path = path
      BY <1>3, <1>4 DEF Page
    <2>2. callback' = "validate_pubkey"
      BY <1>3, <1>4 DEF AddressCallback
    <2>3. owed' => path \in Paths /\ G_context'.pk_info = path
      <3>1. d.err = "SW_OK" => path \in Paths /\ d.pk = path
        BY <1>3 DEF Derivation, PathData
      <3>2. G_context'.pk_info = d.pk
        BY <1>3 DEF PubkeyContext, FreshContext
      <3>3. owed' => d.err = "SW_OK"
        BY <1>3
      <3> QED
        BY <3>1, <3>2, <3>3
    <2>4. ScreenInv'
      BY <2>1, <2>2, <2>3
         DEF ScreenInv, ReviewHoldsRequest, PageRunsItsCallback, SigningPage,
             BlindReviewAllowed, ClearReviewIsReadable, AddressHoldsKey
    <2> QED
      BY <1>1, <1>2, <2>4, NoRequestLeft, UnsignedSwap
  <1>5. CASE ~printable
    <2>1. screen' = screen /\ owed' = FALSE
      BY <1>3, <1>5
    <2>2. callback' \in {callback, "validate_pubkey"}
      BY <1>3, <1>5 DEF AddressCallback
    <2>3. ScreenInv'
      BY <1>1, <2>1, <2>2, IdleAtCommand
         DEF IInv, ScreenInv, ReviewHoldsRequest, PageRunsItsCallback,
             SigningPage, BlindReviewAllowed, ClearReviewIsReadable,
             AddressHoldsKey
    <2> QED
      BY <1>1, <1>2, <2>3, NoRequestLeft, UnsignedSwap
  <1> QED
    BY <1>4, <1>5 DEF Printable

\* The first chunk starts with no data and sequence number zero.
LEMMA SignStartStep ==
    ASSUME IInv, NEW path \in PathData, SignStart(path)
    PROVE  ScreenInv' /\ RequestInv' /\ SwapInv'
  <1>1. /\ Receive /\ owed' = FALSE /\ running' \in BOOLEAN
        /\ signatures' = <<>> /\ prev_chunk' = 0
        /\ UNCHANGED <<screen, callback, N_storage, swap>>
    BY DEF SignStart, Respond, IInv, TypeOK
  <1>2. G_context'.raw_tx = <<>> /\ G_context'.raw_tx_len = 0
    BY DEF SignStart, FreshContext
  <1>3. RequestInv'
    <2>1. Len(G_context'.raw_tx) = prev_chunk'
      BY <1>1, <1>2
    <2>2. G_context'.raw_tx_len <= MaxLc * prev_chunk'
      BY <1>1, <1>2
    <2>3. ~NoRequest' => G_context'.bip32_path \in Paths
      BY DEF SignStart, FreshContext, NoRequest
    <2> QED
      BY <1>1, <2>1, <2>2, <2>3
         DEF RequestHasPath, RequestInv, SequenceMatchesData, LengthBound, NoRequest,
             UndecidedIsUnsigned, OneSignaturePerRequest
  <1> QED
    BY <1>1, <1>3, AnsweredScreen, UnsignedSwap

\* A refused chunk changes nothing but, at most, the request type of a
\* context that holds no request.
LEMMA RefusedChunkStep ==
    ASSUME IInv, NEW chunk \in 1..MaxPackets, SignChunkRefused(chunk)
    PROVE  ScreenInv' /\ RequestInv' /\ SwapInv'
  <1>1. /\ Receive /\ owed' = FALSE /\ running' \in BOOLEAN
        /\ UNCHANGED <<screen, callback, N_storage, swap, signatures,
                       prev_chunk, running>>
    BY DEF SignChunkRefused, Respond, IInv, TypeOK
  <1>2. RequestInv'
    <2>1. CASE UNCHANGED G_context
      BY <1>1, <2>1, RequestKept
    <2>2. CASE G_context' = [G_context EXCEPT !.req_type = "REQUEST_UNDEFINED"]
      <3>1. G_context.req_type' # "CONFIRM_TRANSACTION"
        BY <2>2 DEF IInv, TypeOK, Context
      <3> QED
        BY <1>1, <3>1, NoRequestLeft
    <2> QED
      BY <2>1, <2>2 DEF SignChunkRefused
  <1> QED
    BY <1>1, <1>2, AnsweredScreen, UnsignedSwap

\* A chunk in sequence, with its data, keeps the sequence number and the
\* length in step, and leaves room for the packets still to come.
LEMMA ChunkInSequence ==
    ASSUME IInv, Receive, NEW chunk \in 1..MaxPackets, NEW data \in Chunks,
           Expected(chunk)
    PROVE  /\ chunk = prev_chunk + 1
           /\ Len(Append(G_context.raw_tx, data)) = chunk
           /\ G_context.raw_tx_len + Size[data] <= MaxLc * chunk
           /\ Fits(data)
           /\ signatures = <<>>
  <1>1. /\ running /\ ~NoRequest /\ G_context.state = "STATE_NONE"
        /\ prev_chunk \in Nat /\ chunk \in Nat /\ chunk <= MaxPackets
        /\ G_context.raw_tx \in Seq(Chunks)
        /\ G_context.raw_tx_len \in Nat
        /\ Size[data] \in Nat /\ Size[data] <= MaxLc
        /\ MaxLc \in Nat /\ MaxPackets \in Nat
    BY IdleAtCommand
       DEF Expected, AlreadyParsed, IInv, TypeOK, Context, States
  <1>2. chunk = prev_chunk + 1
    BY DEF Expected, OutOfOrder
  <1>3. Len(Append(G_context.raw_tx, data)) = chunk
    BY <1>1, <1>2 DEF IInv, SequenceMatchesData
  <1>4. G_context.raw_tx_len <= MaxLc * prev_chunk
    BY <1>1 DEF IInv, LengthBound
  <1>5. MaxLc * chunk = MaxLc * prev_chunk + MaxLc
    BY <1>1, <1>2
  <1>6. /\ MaxLc * chunk \in Nat
        /\ MaxLc * prev_chunk \in Nat
        /\ MaxPackets * MaxLc \in Nat
    BY <1>1
  <1>7. MaxLc * chunk <= MaxPackets * MaxLc
    BY <1>1
  <1>8. /\ G_context.raw_tx_len + Size[data] <= MaxLc * prev_chunk + MaxLc
        /\ MaxLc * prev_chunk + MaxLc <= MaxPackets * MaxLc =>
              G_context.raw_tx_len + Size[data] <= MaxPackets * MaxLc
    BY ONLY <1>1, <1>4, <1>6, SumBound
  <1>9. Fits(data)
    BY ONLY <1>5, <1>7, <1>8 DEF Fits, MaxTransactionLen
  <1>10. signatures = <<>>
    BY <1>1 DEF IInv, UndecidedIsUnsigned
  <1> QED
    BY <1>2, <1>3, <1>5, <1>8, <1>9, <1>10

\* The context after a chunk in sequence satisfies the conjuncts about the
\* request, decided or not.
LEMMA ChunkKeepsRequest ==
    ASSUME IInv, Receive, NEW chunk \in 1..MaxPackets, NEW data \in Chunks,
           Expected(chunk), prev_chunk' = chunk,
           G_context'.raw_tx = Appended(data).raw_tx,
           G_context'.raw_tx_len = Appended(data).raw_tx_len,
           UNCHANGED <<G_context.req_type, G_context.bip32_path, signatures>>
    PROVE  RequestInv'
  <1>1. /\ G_context'.raw_tx = Append(G_context.raw_tx, data)
        /\ G_context'.raw_tx_len = G_context.raw_tx_len + Size[data]
    BY DEF Appended, IInv, TypeOK, Context
  <1> QED
    BY <1>1, ChunkInSequence
       DEF RequestInv, SequenceMatchesData, LengthBound, UndecidedIsUnsigned,
           OneSignaturePerRequest, RequestHasPath, IInv, NoRequest, Expected,
           Receive

LEMMA KeptChunkStep ==
    ASSUME IInv, NEW chunk \in 1..MaxPackets, NEW data \in Chunks,
           NEW more \in BOOLEAN, SignChunkKept(chunk, more, data)
    PROVE  ScreenInv' /\ RequestInv' /\ SwapInv'
  <1>1. /\ Receive /\ Expected(chunk) /\ owed' = FALSE
        /\ running' \in BOOLEAN /\ prev_chunk' = chunk
        /\ UNCHANGED <<screen, callback, N_storage, swap, signatures>>
    BY DEF SignChunkKept, Respond, IInv, TypeOK
  <1>2. G_context' = Appended(data)
    BY <1>1, ChunkInSequence DEF SignChunkKept
  <1>3. UNCHANGED <<G_context.req_type, G_context.bip32_path>>
    BY <1>2 DEF Appended, IInv, TypeOK, Context
  <1> QED
    BY <1>1, <1>2, <1>3, ChunkKeepsRequest, AnsweredScreen, UnsignedSwap

LEMMA MalformedChunkStep ==
    ASSUME IInv, NEW chunk \in 1..MaxPackets, NEW data \in Chunks,
           SignChunkMalformed(chunk, data)
    PROVE  ScreenInv' /\ RequestInv' /\ SwapInv'
  <1>1. /\ Receive /\ owed' = FALSE /\ running' \in BOOLEAN
        /\ UNCHANGED <<screen, callback, N_storage, swap, signatures>>
    BY DEF SignChunkMalformed, Respond, IInv, TypeOK
  <1>2. G_context.req_type' # "CONFIRM_TRANSACTION"
    BY DEF SignChunkMalformed, Appended, IInv, TypeOK, Context
  <1> QED
    BY <1>1, <1>2, AnsweredScreen, NoRequestLeft, UnsignedSwap

\* The limits of the display and those of the blind signing check agree: what
\* is not gated can be read in full.
LEMMA UngatedIsReadable ==
    ASSUME NEW s \in Shapes, NEW len \in Nat, ~Gated(s, len)
    PROVE  ReadableContent(s, len) \in {"fields", "whole"}
  <1>1. StructSize \in Nat /\ (UI = "bagl" \/ UI = "nbgl")
    OBVIOUS
  <1>2. /\ BytesShortEnough(len) => 2 * len + 1 <= StructSize
        /\ TextShortEnough(len) => len + 1 <= StructSize
    BY <1>1 DEF TextShortEnough, BytesShortEnough
  <1>3. CASE s = "known_call"
    BY <1>3 DEF ReadableContent
  <1>4. CASE s \in {"other_tx", "split_text"}
    BY <1>4 DEF Gated
  <1>5. CASE s = "bytes"
    BY <1>2, <1>5 DEF Gated, ReadableContent
  <1>6. CASE s = "text"
    <2>1. UI = "nbgl" \/ N_storage.show_full_message \/ len + 1 <= StructSize
      BY <1>1, <1>2, <1>6 DEF Gated
    <2> QED
      BY <1>6, <2>1 DEF ReadableContent
  <1> QED
    BY <1>3, <1>4, <1>5, <1>6 DEF Shapes

LEMMA ReviewStep ==
    ASSUME IInv, NEW chunk \in 1..MaxPackets, NEW data \in Chunks,
           SignChunkReview(chunk, data)
    PROVE  ScreenInv' /\ RequestInv' /\ SwapInv'
  <1>1. /\ Receive /\ Expected(chunk) /\ owed' = TRUE /\ running' = running
        /\ prev_chunk' = chunk /\ ~CalledFromSwap
        /\ G_context' = Parsed(data)
        /\ UNCHANGED <<N_storage, swap, signatures>>
    BY DEF SignChunkReview
  <1>2. PICK s \in Shapes : /\ screen' = ReviewPage(s, Parsed(data))
                            /\ callback' = ReviewCallback(s)
    BY DEF SignChunkReview
  <1>3. Parsed(data) \in Context
    BY AppendedType DEF IInv, TypeOK
  <1>4. /\ screen'.view \in {"clear_review", "blind_review", "blind_choice"}
        /\ screen'.view = "clear_review" => ~Gated(s, Parsed(data).raw_tx_len)
        /\ screen'.view = "blind_review" => N_storage'.allow_blind_signing
        /\ screen'.visible = ReadableContent(s, Parsed(data).raw_tx_len)
        /\ screen'.path = G_context'.bip32_path
        /\ screen'.content = G_context'.raw_tx
    BY <1>1, <1>2 DEF ReviewPage, ReviewView
  <1>5. G_context'.state = "STATE_PARSED"
    BY <1>1, AppendedType DEF Parsed, Context, IInv, TypeOK
  <1>6. /\ G_context'.req_type = G_context.req_type
        /\ G_context'.bip32_path = G_context.bip32_path
        /\ G_context'.raw_tx = Appended(data).raw_tx
        /\ G_context'.raw_tx_len = Appended(data).raw_tx_len
    BY <1>1 DEF Parsed, Appended, Context, IInv, TypeOK
  <1>7. G_context.req_type = "CONFIRM_TRANSACTION"
    BY <1>1 DEF Expected, NoRequest
  <1>8. G_context.bip32_path \in Paths
    BY <1>1, <1>7 DEF IInv, RequestHasPath, Receive, NoRequest
  <1>9. ScreenInv'
    <2>1. ReviewHoldsRequest'
      BY <1>1, <1>2, <1>4, <1>5, <1>6, <1>7, <1>8
         DEF ReviewHoldsRequest, ReviewCallback
    <2>2. PageRunsItsCallback'
      BY <1>1, <1>4 DEF PageRunsItsCallback
    <2>3. BlindReviewAllowed'
      BY <1>4 DEF BlindReviewAllowed
    <2>4. ClearReviewIsReadable'
      BY <1>3, <1>4, UngatedIsReadable DEF ClearReviewIsReadable, Context
    <2>5. AddressHoldsKey'
      BY <1>4 DEF AddressHoldsKey
    <2> QED
      BY <2>1, <2>2, <2>3, <2>4, <2>5 DEF ScreenInv
  <1> QED
    BY <1>1, <1>6, <1>9, ChunkKeepsRequest, UnsignedSwap DEF IInv, TypeOK

\* The app leaves with the last chunk of a swap, with at most one signature.
LEMMA SwapStep ==
    ASSUME IInv, NEW chunk \in 1..MaxPackets, NEW data \in Chunks,
           SignChunkSwap(chunk, data)
    PROVE  ScreenInv' /\ RequestInv' /\ SwapInv'
  <1>1. /\ Receive /\ CalledFromSwap /\ running' = FALSE
        /\ swap'.response_ready = TRUE
    BY DEF SignChunkSwap, RespondAndLeave, Leave
  <1>2. signatures = <<>>
    BY <1>1, IdleAtCommand
  <1>3. \/ /\ signatures' = Append(signatures, Signature(Parsed(data)))
           /\ swap'.result = "success"
        \/ signatures' = signatures /\ swap'.result # "success"
    BY DEF SignChunkSwap, RespondAndLeave, SignatureReply, Status
  <1>4. /\ Len(signatures') <= 1
        /\ swap'.result = "success" <=> signatures' # <<>>
    <2> DEFINE s == Signature(Parsed(data))
    <2>1. Append(<<>>, s) # <<>> /\ Len(Append(<<>>, s)) <= 1 /\ Len(<<>>) <= 1
      OBVIOUS
    <2> HIDE DEF s
    <2>2. \/ signatures' = Append(<<>>, s) /\ swap'.result = "success"
          \/ signatures' = <<>> /\ swap'.result # "success"
      BY <1>2, <1>3 DEF s
    <2> QED
      BY <2>1, <2>2
  <1>5. ScreenInv'
    BY <1>1
       DEF ScreenInv, ReviewHoldsRequest, PageRunsItsCallback, SigningPage,
           BlindReviewAllowed, ClearReviewIsReadable, AddressHoldsKey
  <1>6. RequestInv'
    BY <1>1, <1>4
       DEF RequestInv, SequenceMatchesData, LengthBound, RequestHasPath,
           UndecidedIsUnsigned, OneSignaturePerRequest
  <1>7. SwapInv'
    BY <1>1, <1>4
       DEF SwapInv, AppGoneAfterSwap, SwapIsPending, SwapResultIsTruthful
  <1> QED
    BY <1>5, <1>6, <1>7

\* Every command keeps the invariant.
LEMMA CommandStep == IInv /\ Command => ScreenInv' /\ RequestInv' /\ SwapInv'
  <1> SUFFICES ASSUME IInv, Command
               PROVE  ScreenInv' /\ RequestInv' /\ SwapInv'
    OBVIOUS
  <1>1. CASE RefusedFrame
    BY <1>1, QuietStep DEF RefusedFrame, Respond
  <1>2. ASSUME NEW x \in P1s, NEW y \in P2s,
               GetInfo(x, y) \/ GetPublicKeyRefused(x, y) \/ SignTxRefused(x, y)
        PROVE  ScreenInv' /\ RequestInv' /\ SwapInv'
    BY <1>2, QuietStep DEF GetInfo, GetPublicKeyRefused, SignTxRefused, Respond
  <1>3. ASSUME NEW chunk \in 1..MaxPackets, SignChunk(chunk)
        PROVE  ScreenInv' /\ RequestInv' /\ SwapInv'
    BY <1>3, RefusedChunkStep, KeptChunkStep, MalformedChunkStep, ReviewStep,
       SwapStep DEF SignChunk
  <1> QED
    BY <1>1, <1>2, <1>3, PublicKeyStep, ShowAddressStep, SignStartStep
       DEF Command

-----------------------------------------------------------------------------
(* The callbacks of the screen *)

\* Pages on which nothing is asked satisfy the conjuncts about the screen.
LEMMA PlainPage ==
    ASSUME NEW v \in {"off", "home", "status"}, screen' = Page(v)
    PROVE  ScreenInv'
  BY DEF Page, ScreenInv, ReviewHoldsRequest, PageRunsItsCallback, SigningPage,
         BlindReviewAllowed, ClearReviewIsReadable, AddressHoldsKey

\* On a page that is answered, either the address callback runs or the
\* request under review is the one in G_context, undecided and unsigned; no
\* swap review exists.
LEMMA PageMeans ==
    ASSUME IInv, running, screen.view \in Decidable \union {"blind_choice", "enabled"}
    PROVE  \/ callback = "validate_pubkey" /\ screen.view = "address"
           \/ /\ SigningPage
              /\ ~CalledFromSwap
              /\ callback \in {"validate_transaction", "message_choice"}
              /\ owed
              /\ ~NoRequest
              /\ G_context.state = "STATE_PARSED"
              /\ signatures = <<>>
              /\ screen.content = G_context.raw_tx
              /\ screen.path = G_context.bip32_path
              /\ screen.view # "address"
  BY DEF IInv, Decidable, SigningPage, ReviewHoldsRequest, PageRunsItsCallback,
         UndecidedIsUnsigned, NoRequest

\* A step that decides nothing about a swap and returns no signature while
\* one is possible keeps the conjuncts about the swap.
LEMMA NoSwapStep ==
    ASSUME IInv, UNCHANGED <<swap, running>>,
           CalledFromSwap => signatures' = signatures
    PROVE  SwapInv'
  BY DEF IInv, SwapInv, AppGoneAfterSwap, SwapIsPending, SwapResultIsTruthful

\* The context changes in its state only, with the signature if it is
\* approved.
LEMMA DecidedRequest ==
    ASSUME IInv, running, ~NoRequest, signatures = <<>>,
           UNCHANGED <<running, prev_chunk>>,
           NEW s \in States, G_context' = [G_context EXCEPT !.state = s],
           \/ signatures' = signatures
           \/ s = "STATE_APPROVED" /\ Len(signatures') <= 1
    PROVE  RequestInv'
  <1>1. /\ G_context'.state = s
        /\ UNCHANGED <<G_context.req_type, G_context.raw_tx,
                       G_context.raw_tx_len, G_context.bip32_path>>
    BY DEF IInv, TypeOK, Context
  <1>2. SequenceMatchesData' /\ LengthBound' /\ RequestHasPath'
    BY <1>1
       DEF IInv, SequenceMatchesData, LengthBound, RequestHasPath, NoRequest
  <1>3. UndecidedIsUnsigned'
    BY <1>1 DEF UndecidedIsUnsigned
  <1>4. OneSignaturePerRequest'
    BY DEF IInv, OneSignaturePerRequest
  <1> QED
    BY <1>2, <1>3, <1>4 DEF RequestInv

LEMMA ApproveStep ==
    ASSUME IInv, Approve
    PROVE  ScreenInv' /\ RequestInv' /\ SwapInv'
  <1>1. /\ running /\ screen' = ClosingPage
        /\ screen.view \in Decidable
        /\ UNCHANGED <<running, N_storage, prev_chunk, callback, swap>>
    BY DEF Approve
  <1>2. ScreenInv'
    BY <1>1, PlainPage DEF ClosingPage
  <1>3. CASE ApproveAddress
    <2>1. UNCHANGED <<G_context, signatures>>
      BY <1>3 DEF ApproveAddress
    <2> QED
      BY <1>1, <1>2, <2>1, RequestKept, NoSwapStep
  <1>4. CASE ApproveTransaction
    <2>1. /\ ~CalledFromSwap /\ ~NoRequest /\ signatures = <<>>
      BY <1>1, <1>4, PageMeans DEF ApproveTransaction
    <2>2. \/ /\ G_context' = [G_context EXCEPT !.state = "STATE_APPROVED"]
             /\ \/ signatures' = Append(signatures, Signature(G_context))
                \/ signatures' = signatures
          \/ /\ G_context' = [G_context EXCEPT !.state = "STATE_NONE"]
             /\ signatures' = signatures
      BY <1>4 DEF ApproveTransaction
    <2>3. Len(Append(signatures, Signature(G_context))) <= 1
      BY <2>1
    <2>4. RequestInv'
      BY <1>1, <2>1, <2>2, <2>3, DecidedRequest DEF States
    <2> QED
      BY <1>1, <1>2, <2>1, <2>4, NoSwapStep
  <1> QED
    BY <1>3, <1>4 DEF Approve

LEMMA RejectStep ==
    ASSUME IInv, Reject
    PROVE  ScreenInv' /\ RequestInv' /\ SwapInv'
  <1>1. /\ running /\ screen' = ClosingPage
        /\ screen.view \in Decidable \union {"blind_choice"}
        /\ UNCHANGED <<running, N_storage, prev_chunk, callback, signatures,
                       swap>>
    BY DEF Reject
  <1>2. ScreenInv' /\ SwapInv'
    BY <1>1, PlainPage, NoSwapStep DEF ClosingPage
  <1>3. CASE UNCHANGED G_context
    BY <1>1, <1>2, <1>3, RequestKept
  <1>4. CASE RejectTransaction
    <2>1. /\ ~NoRequest /\ signatures = <<>>
      BY <1>1, <1>4, PageMeans DEF RejectTransaction
    <2>2. G_context' = [G_context EXCEPT !.state = "STATE_NONE"]
      BY <1>4 DEF RejectTransaction
    <2> QED
      BY <1>1, <1>2, <2>1, <2>2, DecidedRequest DEF States
  <1> QED
    BY <1>3, <1>4 DEF Reject, RejectAddress, RejectMessage

LEMMA AllowBlindSigningStep ==
    ASSUME IInv, AllowBlindSigning
    PROVE  ScreenInv' /\ RequestInv' /\ SwapInv'
  <1>1. /\ running /\ screen.view = "blind_choice"
        /\ UNCHANGED <<running, G_context, prev_chunk, callback, owed,
                       signatures, swap>>
        /\ N_storage'.allow_blind_signing = TRUE
        /\ screen'.view \in {"blind_review", "enabled"}
        /\ screen'.path = screen.path
        /\ screen'.content = screen.content
    BY DEF AllowBlindSigning, io, IInv, TypeOK, Storage, Screen
  <1>2. SigningPage
    BY <1>1 DEF SigningPage
  <1>3. ScreenInv'
    BY <1>1, <1>2
       DEF IInv, ScreenInv, ReviewHoldsRequest, PageRunsItsCallback, SigningPage,
           BlindReviewAllowed, ClearReviewIsReadable, AddressHoldsKey
  <1> QED
    BY <1>1, <1>3, RequestKept, NoSwapStep

LEMMA DismissStatusStep ==
    ASSUME IInv, DismissStatus
    PROVE  ScreenInv' /\ RequestInv' /\ SwapInv'
  <1>1. /\ running
        /\ UNCHANGED <<running, N_storage, G_context, prev_chunk, callback,
                       owed, signatures, swap>>
    BY DEF DismissStatus, io
  <1>2. CASE screen' = Page("home")
    BY <1>1, <1>2, PlainPage, RequestKept, NoSwapStep
  <1>3. CASE /\ screen.view = "enabled"
             /\ screen' = [screen EXCEPT !.view = "blind_review"]
    <2>1. /\ SigningPage
          /\ screen'.view = "blind_review"
          /\ screen'.path = screen.path
          /\ screen'.content = screen.content
      BY <1>1, <1>3 DEF SigningPage, IInv, TypeOK, Screen
    <2>2. ScreenInv'
      BY <1>1, <1>3, <2>1
         DEF IInv, ScreenInv, ReviewHoldsRequest, PageRunsItsCallback,
             SigningPage, BlindReviewAllowed, ClearReviewIsReadable,
             AddressHoldsKey
    <2> QED
      BY <1>1, <2>2, RequestKept, NoSwapStep
  <1> QED
    BY <1>2, <1>3 DEF DismissStatus

-----------------------------------------------------------------------------
(* Settings, end and start of the app *)

LEMMA SettingsStep ==
    ASSUME IInv, ChangeSettings
    PROVE  ScreenInv' /\ RequestInv' /\ SwapInv'
  <1>1. /\ screen.view = "home"
        /\ UNCHANGED <<running, G_context, prev_chunk, screen, callback, owed,
                       signatures, swap>>
    BY DEF ChangeSettings, io
  <1>2. ScreenInv'
    BY <1>1
       DEF IInv, ScreenInv, ReviewHoldsRequest, PageRunsItsCallback, SigningPage,
           BlindReviewAllowed, ClearReviewIsReadable, AddressHoldsKey
  <1> QED
    BY <1>1, <1>2, RequestKept, NoSwapStep

LEMMA QuitStep ==
    ASSUME IInv, Quit
    PROVE  ScreenInv' /\ RequestInv' /\ SwapInv'
  <1>1. running' = FALSE /\ UNCHANGED <<signatures, swap>>
    BY DEF Quit, Leave
  <1> QED
    BY <1>1
       DEF IInv, ScreenInv, ReviewHoldsRequest, PageRunsItsCallback, SigningPage,
           BlindReviewAllowed, ClearReviewIsReadable, AddressHoldsKey,
           RequestInv, SequenceMatchesData, LengthBound, RequestHasPath,
           UndecidedIsUnsigned, OneSignaturePerRequest,
           SwapInv, AppGoneAfterSwap, SwapIsPending, SwapResultIsTruthful

\* After a launch, or a reset of the link while the app runs, there is no
\* request, no question on the screen, and a swap is undecided.
LEMMA EnterStep ==
    ASSUME IInv, Launch \/ IoReset
    PROVE  ScreenInv' /\ RequestInv' /\ SwapInv'
  <1>1. EnterMain
    BY DEF Launch, IoReset
  <1>2. ScreenInv'
    BY <1>1, PlainPage DEF EnterMain, MainPage
  <1>3. RequestInv'
    <2>1. /\ G_context.req_type' # "CONFIRM_TRANSACTION"
          /\ signatures' = <<>>
      BY <1>1 DEF EnterMain, FreshContext
    <2> QED
      BY <2>1, NoRequestLeft
  <1>4. /\ ~swap'.response_ready
        /\ swap'.result = "pending"
    BY DEF Launch, NoSwap, IoReset, IInv, AppGoneAfterSwap, SwapIsPending
  <1>5. SwapInv'
    BY <1>1, <1>4
       DEF EnterMain, SwapInv, AppGoneAfterSwap, SwapIsPending,
           SwapResultIsTruthful
  <1> QED
    BY <1>2, <1>3, <1>5

-----------------------------------------------------------------------------
(* The theorems *)

LEMMA InitIInv == Init => IInv
  <1> SUFFICES ASSUME Init PROVE IInv
    OBVIOUS
  <1>1. /\ running = FALSE
        /\ signatures = <<>>
        /\ swap.response_ready = FALSE
        /\ swap.result = "pending"
    BY DEF Init, NoSwap
  <1>2. ScreenInv
    BY <1>1
       DEF ScreenInv, ReviewHoldsRequest, PageRunsItsCallback, SigningPage,
           BlindReviewAllowed, ClearReviewIsReadable, AddressHoldsKey
  <1>3. RequestInv
    BY <1>1
       DEF RequestInv, SequenceMatchesData, LengthBound, RequestHasPath,
           UndecidedIsUnsigned, OneSignaturePerRequest
  <1>4. SwapInv
    BY <1>1 DEF SwapInv, AppGoneAfterSwap, SwapIsPending, SwapResultIsTruthful
  <1> QED
    BY <1>2, <1>3, <1>4, InitType, IInvParts

LEMMA NextIInv == IInv /\ [Next]_vars => IInv'
  <1> SUFFICES ASSUME IInv, [Next]_vars PROVE IInv'
    OBVIOUS
  <1>1. TypeOK'
    BY NextType DEF IInv
  <1>2. CASE UNCHANGED vars
    <2>1. UNCHANGED <<G_context, prev_chunk, signatures, running, swap, screen,
                      callback, owed, N_storage>>
      BY <1>2 DEF vars
    <2>2. ScreenInv'
      BY <2>1
         DEF IInv, ScreenInv, ReviewHoldsRequest, PageRunsItsCallback,
             SigningPage, BlindReviewAllowed, ClearReviewIsReadable,
             AddressHoldsKey
    <2>3. RequestInv' /\ SwapInv'
      BY <2>1, RequestKept, NoSwapStep
    <2> QED
      BY <1>1, <2>2, <2>3, IInvParts DEF IInv, ScreenInv, RequestInv, SwapInv
  <1>3. CASE Next
    <2>1. ScreenInv' /\ RequestInv' /\ SwapInv'
      BY <1>3, CommandStep, ApproveStep, RejectStep, AllowBlindSigningStep,
         DismissStatusStep, SettingsStep, QuitStep, EnterStep DEF Next, Decide
    <2> QED
      BY <1>1, <2>1 DEF IInv, ScreenInv, RequestInv, SwapInv
  <1> QED
    BY <1>2, <1>3

\* The inductive invariant holds in every reachable state.
THEOREM Invariance == Spec => []IInv
  BY InitIInv, NextIInv, PTL DEF Spec

\* What a callback of the screen signs is what the screen shows.
THEOREM ReviewIsFaithful == Spec => []ReviewHoldsRequest
  <1>1. IInv => ReviewHoldsRequest
    BY DEF IInv
  <1> QED
    BY <1>1, Invariance, PTL

\* The sequence number and the data of a request never drift apart.
THEOREM SequenceIsFaithful == Spec => []SequenceMatchesData
  <1>1. IInv => SequenceMatchesData
    BY DEF IInv
  <1> QED
    BY <1>1, Invariance, PTL

\* A chunk that is let through by its sequence number always fits.
THEOREM EveryExpectedChunkFits == Spec => []ExpectedChunkFits
  <1>1. IInv => ExpectedChunkFits
    <2> SUFFICES ASSUME IInv, running, ~NoRequest, prev_chunk < MaxPackets
                 PROVE  G_context.raw_tx_len + MaxLc <= MaxTransactionLen
      BY DEF ExpectedChunkFits
    <2>1. /\ prev_chunk \in Nat /\ MaxLc \in Nat /\ MaxPackets \in Nat
          /\ G_context.raw_tx_len \in Nat
          /\ prev_chunk + 1 <= MaxPackets
      BY DEF IInv, TypeOK, Context
    <2>2. G_context.raw_tx_len <= MaxLc * prev_chunk
      BY DEF IInv, LengthBound
    <2>3. /\ MaxLc * prev_chunk \in Nat
          /\ MaxPackets * MaxLc \in Nat
          /\ MaxLc * prev_chunk + MaxLc = MaxLc * (prev_chunk + 1)
          /\ MaxLc * (prev_chunk + 1) <= MaxPackets * MaxLc
      BY <2>1
    <2>4. MaxLc <= MaxLc
      BY <2>1
    <2>5. G_context.raw_tx_len + MaxLc <= MaxPackets * MaxLc
      BY ONLY <2>1, <2>2, <2>3, <2>4, SumBound
    <2> QED
      BY <2>5 DEF MaxTransactionLen
  <1> QED
    BY <1>1, Invariance, PTL

\* A request yields at most one signature.
THEOREM SignedOnce == Spec => []OneSignaturePerRequest
  <1>1. IInv => OneSignaturePerRequest
    BY DEF IInv
  <1> QED
    BY <1>1, Invariance, PTL

\* What the screen cannot show in full is reviewed only while blind signing is
\* enabled.
THEOREM GateIsKept == Spec => []BlindReviewAllowed
  <1>1. IInv => BlindReviewAllowed
    BY DEF IInv
  <1> QED
    BY <1>1, Invariance, PTL

\* A review without the gate has room for all of its text, whatever the size of
\* the buffer it is shown from.
THEOREM ClearTextFits == Spec => []ClearReviewIsReadable
  <1>1. IInv => ClearReviewIsReadable
    BY DEF IInv
  <1> QED
    BY <1>1, Invariance, PTL

\* An address waits for its decision with the key it was made of.
THEOREM AddressIsOfKey == Spec => []AddressHoldsKey
  <1>1. IInv => AddressHoldsKey
    BY DEF IInv
  <1> QED
    BY <1>1, Invariance, PTL

\* The Exchange app is told the truth about the swap.
THEOREM SwapIsHonest == Spec => []SwapResultIsTruthful
  <1>1. IInv => SwapResultIsTruthful
    BY DEF IInv
  <1> QED
    BY <1>1, Invariance, PTL

\* After the response of a swap the app can only be launched again.
LEMMA OnlyLaunchAfterSwap == IInv /\ Next /\ swap.response_ready => Launch
  <1> SUFFICES ASSUME IInv, Next, swap.response_ready PROVE Launch
    OBVIOUS
  <1>1. ~running
    BY DEF IInv, AppGoneAfterSwap
  <1>2. ~Command
    BY <1>1
       DEF Command, RefusedFrame, GetInfo, GetPublicKeyRefused, SignTxRefused,
           GetPublicKey, ShowAddress, SignStart, SignChunk, SignChunkRefused,
           SignChunkKept, SignChunkMalformed, SignChunkReview, SignChunkSwap, Receive
  <1>3. ~Decide
    BY <1>1 DEF Decide, Approve, Reject, AllowBlindSigning, DismissStatus
  <1>4. ~ChangeSettings /\ ~Quit /\ ~IoReset
    BY <1>1 DEF ChangeSettings, Quit, IoReset
  <1> QED
    BY <1>2, <1>3, <1>4 DEF Next

\* A swap signs at most once: with its response it is over.
THEOREM SwapSignsAtMostOnce == Spec => SwapSignsOnce
  <1> DEFINE Over == /\ UNCHANGED reply
                     /\ \/ UNCHANGED <<signatures, swap>>
                        \/ signatures' = <<>> /\ swap' = NoSwap
  <1>1. IInv /\ [Next]_vars => [swap.response_ready => Over]_vars
    <2>1. Launch => Over
      BY DEF Launch, EnterMain
    <2> QED
      BY <2>1, OnlyLaunchAfterSwap
  <1> QED
    BY <1>1, Invariance, PTL DEF Spec, SwapSignsOnce

\* Only an approval and the end of a swap return a signature.
LEMMA OnlyApprovalsSign ==
    ASSUME IInv, Next
    PROVE  \/ ~Signs
           \/ Approve /\ ApproveTransaction
           \/ \E chunk \in 1..MaxPackets, data \in Chunks :
                 SignChunkSwap(chunk, data)
  <1>1. CASE Command
    <2>1. CASE RefusedFrame
      BY <2>1 DEF RefusedFrame, Quiet, Signs
    <2>2. ASSUME NEW x \in P1s, NEW y \in P2s,
                 GetInfo(x, y) \/ GetPublicKeyRefused(x, y) \/ SignTxRefused(x, y)
          PROVE  ~Signs
      BY <2>2 DEF GetInfo, GetPublicKeyRefused, SignTxRefused, Quiet, Signs
    <2>3. ASSUME NEW path \in PathData,
                 GetPublicKey(path) \/ ShowAddress(path) \/ SignStart(path)
          PROVE  ~Signs
      BY <2>3 DEF GetPublicKey, ShowAddress, SignStart, Signs
    <2>4. ASSUME NEW chunk \in 1..MaxPackets, SignChunkRefused(chunk)
          PROVE  ~Signs
      BY <2>4 DEF SignChunkRefused, Signs
    <2>5. ASSUME NEW chunk \in 1..MaxPackets, NEW data \in Chunks,
                 \/ \E more \in BOOLEAN : SignChunkKept(chunk, more, data)
                 \/ SignChunkMalformed(chunk, data)
                 \/ SignChunkReview(chunk, data)
          PROVE  ~Signs
      BY <2>5 DEF SignChunkKept, SignChunkMalformed, SignChunkReview, Signs
    <2> QED
      BY <1>1, <2>1, <2>2, <2>3, <2>4, <2>5 DEF Command, SignChunk
  <1>2. CASE Approve
    BY <1>2 DEF Approve, ApproveAddress, Signs
  <1>3. CASE Reject \/ AllowBlindSigning \/ DismissStatus
    BY <1>3 DEF Reject, AllowBlindSigning, DismissStatus, Signs
  <1>4. CASE ChangeSettings \/ Quit
    BY <1>4 DEF ChangeSettings, Quit, Signs
  <1>5. CASE Launch \/ IoReset
    BY <1>5 DEF Launch, IoReset, EnterMain, Signs
  <1> QED
    BY <1>1, <1>2, <1>3, <1>4, <1>5 DEF Next, Decide

LEMMA SignsWhatWasReviewed == IInv /\ Next => (Signs => SignsTheReview)
  <1> SUFFICES ASSUME IInv, Next, Signs PROVE SignsTheReview
    OBVIOUS
  <1>1. CASE Approve /\ ApproveTransaction
    <2>1. /\ running
          /\ screen.view \in Decidable
          /\ callback \in {"validate_transaction", "message_choice"}
      BY <1>1 DEF Approve, ApproveTransaction
    <2>2. /\ ~CalledFromSwap
          /\ signatures = <<>>
          /\ screen.content = G_context.raw_tx
          /\ screen.path = G_context.bip32_path
          /\ screen.view \in {"clear_review", "blind_review"}
      BY <2>1, PageMeans DEF Decidable
    <2> DEFINE s == Signature(G_context)
    <2>3. s.path = screen.path /\ s.content = screen.content
      BY <2>2 DEF Signature
    <2>4. signatures' = Append(signatures, Signature(G_context))
      BY <1>1 DEF ApproveTransaction, Signs
    <2> HIDE DEF s
    <2>5. signatures' = Append(<<>>, s)
      BY <2>2, <2>4 DEF s
    <2>6. Append(<<>>, s)[Len(Append(<<>>, s))] = s
      OBVIOUS
    <2> QED
      BY <2>2, <2>3, <2>5, <2>6 DEF SignsTheReview
  <1>2. ASSUME NEW chunk \in 1..MaxPackets, NEW data \in Chunks,
               SignChunkSwap(chunk, data)
        PROVE  SignsTheReview
    <2>1. CalledFromSwap /\ ~running'
      BY <1>2 DEF SignChunkSwap, RespondAndLeave, Leave
    <2>2. swap'.result = "success"
      BY <1>2 DEF SignChunkSwap, RespondAndLeave, SignatureReply, Status, Signs
    <2> QED
      BY <2>1, <2>2 DEF SignsTheReview
  <1> QED
    BY <1>1, <1>2, OnlyApprovalsSign

\* Every signature is over the content and with the path of the page that was
\* approved; in a swap it ends the app with a success.
THEOREM SignsOnlyWhatWasReviewed == Spec => SignedAsReviewed
  <1>1. IInv /\ [Next]_vars => [Signs => SignsTheReview]_vars
    BY SignsWhatWasReviewed
  <1> QED
    BY <1>1, Invariance, PTL DEF Spec, SignedAsReviewed
=============================================================================
