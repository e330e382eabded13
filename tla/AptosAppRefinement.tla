------------------------- MODULE AptosAppRefinement -------------------------
(***************************************************************************)
(* The app implements the abstract signing request: every step of the app, *)
(* seen through RequestPhase, is a step of SigningRequest or none.         *)
(***************************************************************************)
EXTENDS AptosAppProofs

-----------------------------------------------------------------------------
(* The mapping *)

AbstractPath == IF RequestPhase = "closed" THEN NoPath ELSE G_context.bip32_path
AbstractChunks == IF RequestPhase = "closed" THEN <<>> ELSE G_context.raw_tx

\* A step of the abstract request, or none.
RequestStep ==
    Request!Next \/ UNCHANGED <<RequestPhase, AbstractPath, AbstractChunks, signatures>>

\* The phase of a request in the terms of its context, before and after a step.
LEMMA PhaseOf ==
    /\ ~running \/ NoRequest => RequestPhase = "closed"
    /\ running /\ ~NoRequest /\ G_context.state = "STATE_NONE" => RequestPhase = "open"
    /\ running /\ ~NoRequest /\ G_context.state = "STATE_PARSED" => RequestPhase = "review"
    /\ running /\ ~NoRequest /\ G_context.state = "STATE_APPROVED" => RequestPhase = "closed"
BY DEF RequestPhase

LEMMA PhaseAfter ==
    /\ ~running' \/ NoRequest' => RequestPhase' = "closed"
    /\ running' /\ ~NoRequest' /\ G_context'.state = "STATE_NONE" => RequestPhase' = "open"
    /\ running' /\ ~NoRequest' /\ G_context'.state = "STATE_PARSED" => RequestPhase' = "review"
    /\ running' /\ ~NoRequest' /\ G_context'.state = "STATE_APPROVED" => RequestPhase' = "closed"
BY DEF RequestPhase

\* A step that leaves the context alone is none of the request.
LEMMA Stutters ==
    ASSUME UNCHANGED <<running, G_context, signatures>>
    PROVE  RequestStep
BY DEF RequestStep, AbstractPath, AbstractChunks, RequestPhase, NoRequest

\* A request that is gone afterwards was dropped.
LEMMA Drops ==
    ASSUME RequestPhase' = "closed", signatures' \in {signatures, <<>>}
    PROVE  RequestStep
BY DEF RequestStep, Request!Next, Request!Drop, Request!Closed

-----------------------------------------------------------------------------
(* The steps *)

LEMMA RefusedMaps ==
    ASSUME NEW p1, NEW p2,
           \/ RefusedFrame \/ GetInfo(p1, p2)
           \/ GetPublicKeyRefused(p1, p2) \/ SignTxRefused(p1, p2)
    PROVE  RequestStep
BY Stutters DEF RefusedFrame, GetInfo, GetPublicKeyRefused, SignTxRefused, Quiet

\* A public key command gives up the request under way.
LEMMA PublicKeyMaps ==
    ASSUME NEW path, GetPublicKey(path) \/ ShowAddress(path)
    PROVE  RequestStep
<1>1. \E key : G_context' = PubkeyContext(path, key)
  BY DEF GetPublicKey, ShowAddress
<1>2. NoRequest'
  BY <1>1 DEF NoRequest, PubkeyContext, FreshContext
<1>3. signatures' = signatures
  BY DEF GetPublicKey, ShowAddress
<1> QED
  BY <1>2, <1>3, PhaseAfter, Drops

\* A first chunk opens a request for its path, or gives one up.
LEMMA StartMaps ==
    ASSUME NEW path \in PathData, SignStart(path)
    PROVE  RequestStep
<1>1. CASE path \in Paths
  <2>1. /\ running' /\ signatures' = <<>>
        /\ G_context' = [FreshContext("CONFIRM_TRANSACTION") EXCEPT !.bip32_path = path]
    BY <1>1 DEF SignStart, Receive
  <2>2. /\ ~NoRequest' /\ G_context'.state = "STATE_NONE"
        /\ G_context'.bip32_path = path /\ G_context'.raw_tx = <<>>
    BY <2>1 DEF NoRequest, FreshContext
  <2>3. RequestPhase' = "open"
    BY <2>1, <2>2, PhaseAfter
  <2>4. Request!Open(path)
    BY <2>1, <2>2, <2>3 DEF Request!Open
  <2> QED
    BY <1>1, <2>4 DEF RequestStep, Request!Next
<1>2. CASE path \notin Paths
  <2>1. NoRequest'
    BY <1>2 DEF SignStart, NoRequest, FreshContext
  <2>2. signatures' = <<>>
    BY DEF SignStart
  <2> QED
    BY <2>1, <2>2, PhaseAfter, Drops
<1> QED
  BY <1>1, <1>2

\* A chunk that is refused leaves the request, or there was none.
LEMMA RefusedChunkMaps ==
    ASSUME TypeOK, NEW chunk, SignChunkRefused(chunk)
    PROVE  RequestStep
<1>1. running' = running /\ signatures' = signatures
  BY DEF SignChunkRefused
<1>2. CASE G_context' = G_context
  BY <1>1, <1>2, Stutters
<1>3. CASE G_context' = [G_context EXCEPT !.req_type = "REQUEST_UNDEFINED"]
  <2>1. NoRequest'
    BY <1>3 DEF NoRequest, TypeOK, Context
  <2> QED
    BY <1>1, <2>1, PhaseAfter, Drops
<1> QED
  BY <1>2, <1>3 DEF SignChunkRefused

\* A chunk in its order finds the request open, with room for it.
LEMMA ExpectedIsOpen ==
    ASSUME IInv, Receive, NEW chunk \in 1..MaxPackets, Expected(chunk)
    PROVE  /\ RequestPhase = "open"
           /\ Len(G_context.raw_tx) < MaxPackets
           /\ running /\ ~NoRequest /\ G_context.state = "STATE_NONE"
<1>1. running /\ ~NoRequest /\ G_context.state = "STATE_NONE"
  BY DEF IInv, TypeOK, Context, States, Receive, Expected, AlreadyParsed
<1>2. chunk = prev_chunk + 1 /\ prev_chunk \in 0..MaxPackets
  BY DEF IInv, TypeOK, Expected, OutOfOrder
<1>3. Len(G_context.raw_tx) = prev_chunk
  BY <1>1 DEF IInv, SequenceMatchesData
<1> QED
  BY <1>1, <1>2, <1>3, PhaseOf, ChunkAssumption

\* What a chunk leaves in the context, as the request has it.
LEMMA AppendedIs ==
    ASSUME IInv, NEW data
    PROVE  /\ Appended(data).raw_tx = Append(G_context.raw_tx, data)
           /\ Appended(data).bip32_path = G_context.bip32_path
           /\ Appended(data).req_type = G_context.req_type
           /\ Appended(data).state = G_context.state
           /\ Parsed(data).raw_tx = Append(G_context.raw_tx, data)
           /\ Parsed(data).bip32_path = G_context.bip32_path
           /\ Parsed(data).req_type = G_context.req_type
           /\ Parsed(data).state = "STATE_PARSED"
BY DEF IInv, TypeOK, Context, Appended, Parsed

LEMMA KeptMaps ==
    ASSUME IInv, NEW chunk \in 1..MaxPackets, NEW more, NEW data \in Chunks,
           SignChunkKept(chunk, more, data)
    PROVE  RequestStep
<1>1. /\ Receive /\ Expected(chunk)
      /\ running' = running /\ signatures' = signatures
  BY DEF SignChunkKept
<1>2. /\ RequestPhase = "open" /\ Len(G_context.raw_tx) < MaxPackets
      /\ running /\ ~NoRequest /\ G_context.state = "STATE_NONE"
  BY <1>1, ExpectedIsOpen
<1>3. CASE Fits(data)
  <2>1. G_context' = Appended(data)
    BY <1>3 DEF SignChunkKept
  <2>2. /\ G_context'.raw_tx = Append(G_context.raw_tx, data)
        /\ G_context'.bip32_path = G_context.bip32_path
        /\ ~NoRequest' /\ G_context'.state = "STATE_NONE"
    BY <1>2, <2>1, AppendedIs DEF NoRequest
  <2>3. RequestPhase' = "open"
    BY <1>1, <1>2, <2>2, PhaseAfter
  <2>4. Request!Add(data)
    BY <1>1, <1>2, <2>2, <2>3 DEF Request!Add, Request!Extend
  <2> QED
    BY <2>4 DEF RequestStep, Request!Next
<1>4. CASE ~Fits(data)
  BY <1>1, <1>4, Stutters DEF SignChunkKept
<1> QED
  BY <1>3, <1>4

LEMMA MalformedMaps ==
    ASSUME IInv, NEW chunk, NEW data, SignChunkMalformed(chunk, data)
    PROVE  RequestStep
<1>1. G_context' = [Appended(data) EXCEPT !.req_type = "REQUEST_UNDEFINED"]
      /\ signatures' = signatures
  BY DEF SignChunkMalformed
<1>2. NoRequest'
  BY <1>1 DEF NoRequest, Appended, IInv, TypeOK, Context
<1> QED
  BY <1>1, <1>2, PhaseAfter, Drops

LEMMA ReviewMaps ==
    ASSUME IInv, NEW chunk \in 1..MaxPackets, NEW data \in Chunks,
           SignChunkReview(chunk, data)
    PROVE  RequestStep
<1>1. /\ Receive /\ Expected(chunk) /\ ~CalledFromSwap
      /\ running' = running /\ signatures' = signatures
      /\ G_context' = Parsed(data)
  BY DEF SignChunkReview
<1>2. /\ RequestPhase = "open" /\ Len(G_context.raw_tx) < MaxPackets
      /\ running /\ ~NoRequest
  BY <1>1, ExpectedIsOpen
<1>3. /\ G_context'.raw_tx = Append(G_context.raw_tx, data)
      /\ G_context'.bip32_path = G_context.bip32_path
      /\ ~NoRequest' /\ G_context'.state = "STATE_PARSED"
  BY <1>1, <1>2, AppendedIs DEF NoRequest
<1>4. RequestPhase' = "review"
  BY <1>1, <1>2, <1>3, PhaseAfter
<1>5. Request!Submit(data)
  BY <1>1, <1>2, <1>3, <1>4 DEF Request!Submit, Request!Extend
<1> QED
  BY <1>5 DEF RequestStep, Request!Next

LEMMA SwapMaps ==
    ASSUME IInv, NEW chunk \in 1..MaxPackets, NEW data \in Chunks,
           SignChunkSwap(chunk, data)
    PROVE  RequestStep
<1>1. Receive /\ Expected(chunk) /\ CalledFromSwap
  BY DEF SignChunkSwap
<1>2. RequestPhase = "open" /\ Len(G_context.raw_tx) < MaxPackets
  BY <1>1, ExpectedIsOpen
<1>3. ~running'
  BY DEF SignChunkSwap, RespondAndLeave, Leave
<1>4. RequestPhase' = "closed"
  BY <1>3, PhaseAfter
<1>5. CASE signatures' = Append(signatures, Signature(Parsed(data)))
  <2>1. Signature(Parsed(data)) =
          [path |-> G_context.bip32_path, content |-> Append(G_context.raw_tx, data)]
    BY AppendedIs DEF Signature
  <2>2. Request!SignDelegated(data)
    BY <1>1, <1>2, <1>4, <1>5, <2>1 DEF Request!SignDelegated, Request!Closed
  <2> QED
    BY <2>2 DEF RequestStep, Request!Next
<1>6. CASE signatures' = signatures
  BY <1>4, <1>6, Drops
<1> QED
  BY <1>5, <1>6 DEF SignChunkSwap

\* The page that is approved or refused shows a request under review.
LEMMA DecidedIsReview ==
    ASSUME IInv, running, screen.view \in Decidable \union {"blind_choice"},
           callback # "validate_pubkey"
    PROVE  /\ RequestPhase = "review"
           /\ ~NoRequest /\ G_context.state = "STATE_PARSED"
<1>1. SigningPage
  BY DEF SigningPage, Decidable
<1> QED
  BY <1>1, PhaseOf DEF IInv, ReviewHoldsRequest, NoRequest

LEMMA ReopenMaps ==
    ASSUME IInv, running, ~NoRequest, RequestPhase = "review",
           UNCHANGED <<running, signatures>>,
           G_context' = [G_context EXCEPT !.state = "STATE_NONE"]
    PROVE  RequestStep
<1>1. /\ G_context'.raw_tx = G_context.raw_tx
      /\ G_context'.bip32_path = G_context.bip32_path
      /\ ~NoRequest' /\ G_context'.state = "STATE_NONE"
  BY DEF NoRequest, IInv, TypeOK, Context
<1>2. RequestPhase' = "open"
  BY <1>1, PhaseAfter
<1>3. Request!Reopen
  BY <1>1, <1>2 DEF Request!Reopen
<1> QED
  BY <1>3 DEF RequestStep, Request!Next

LEMMA ApproveMaps ==
    ASSUME IInv, Approve
    PROVE  RequestStep
<1>1. running /\ running' = running /\ screen.view \in Decidable
  BY DEF Approve
<1>2. CASE ApproveAddress
  BY <1>1, <1>2, Stutters DEF ApproveAddress
<1>3. CASE ApproveTransaction
  <2>1. /\ RequestPhase = "review"
        /\ ~NoRequest /\ G_context.state = "STATE_PARSED" /\ owed
    <3>1. callback # "validate_pubkey"
      BY <1>3 DEF ApproveTransaction
    <3>2. SigningPage
      BY <1>1, <3>1 DEF SigningPage, Decidable
    <3>3. owed
      BY <3>2 DEF IInv, ReviewHoldsRequest
    <3> QED
      BY <1>1, <3>1, <3>3, DecidedIsReview
  <2>2. CASE /\ G_context' = [G_context EXCEPT !.state = "STATE_APPROVED"]
             /\ signatures' = Append(signatures, Signature(G_context))
    <3>1. RequestPhase' = "closed"
      <4>1. ~NoRequest' /\ G_context'.state = "STATE_APPROVED"
        BY <2>1, <2>2 DEF NoRequest, IInv, TypeOK, Context
      <4> QED
        BY <1>1, <4>1, PhaseAfter
    <3>2. Request!Sign
      BY <2>1, <2>2, <3>1 DEF Request!Sign, Request!Closed, Signature
    <3> QED
      BY <3>2 DEF RequestStep, Request!Next
  <2>3. CASE /\ G_context' = [G_context EXCEPT !.state = "STATE_NONE"]
             /\ signatures' = signatures
    BY <1>1, <2>1, <2>3, ReopenMaps
  <2> QED
    BY <1>3, <2>1, <2>2, <2>3 DEF ApproveTransaction
<1> QED
  BY <1>2, <1>3 DEF Approve

LEMMA RejectMaps ==
    ASSUME IInv, Reject
    PROVE  RequestStep
<1>1. /\ running /\ running' = running /\ signatures' = signatures
      /\ screen.view \in Decidable \union {"blind_choice"}
  BY DEF Reject
<1>2. CASE RejectAddress \/ RejectMessage
  BY <1>1, <1>2, Stutters DEF RejectAddress, RejectMessage
<1>3. CASE RejectTransaction
  <2>1. RequestPhase = "review" /\ ~NoRequest
    BY <1>1, <1>3, DecidedIsReview DEF RejectTransaction
  <2> QED
    BY <1>1, <1>3, <2>1, ReopenMaps DEF RejectTransaction
<1> QED
  BY <1>2, <1>3 DEF Reject

\* The start, the end and a reset of the app give the request up.
LEMMA EnterMaps ==
    ASSUME Launch \/ IoReset
    PROVE  RequestStep
<1>1. G_context' = FreshContext("REQUEST_UNDEFINED") /\ signatures' = <<>>
  BY DEF Launch, IoReset, EnterMain
<1>2. NoRequest'
  BY <1>1 DEF NoRequest, FreshContext
<1> QED
  BY <1>1, <1>2, PhaseAfter, Drops

LEMMA CommandMaps ==
    ASSUME IInv, Command
    PROVE  RequestStep
<1>1. CASE RefusedFrame
  BY <1>1, RefusedMaps
<1>2. ASSUME NEW p1 \in P1s, NEW p2 \in P2s,
             GetInfo(p1, p2) \/ GetPublicKeyRefused(p1, p2) \/ SignTxRefused(p1, p2)
      PROVE  RequestStep
  BY <1>2, RefusedMaps
<1>3. ASSUME NEW path \in PathData, GetPublicKey(path) \/ ShowAddress(path) \/ SignStart(path)
      PROVE  RequestStep
  BY <1>3, PublicKeyMaps, StartMaps
<1>4. ASSUME NEW chunk \in 1..MaxPackets, SignChunk(chunk)
      PROVE  RequestStep
  <2>1. CASE SignChunkRefused(chunk)
    BY <2>1, RefusedChunkMaps DEF IInv
  <2>2. CASE \E data \in Chunks, more \in BOOLEAN : SignChunkKept(chunk, more, data)
    BY <2>2, KeptMaps
  <2>3. CASE \E data \in Chunks : SignChunkMalformed(chunk, data)
    BY <2>3, MalformedMaps
  <2>4. CASE \E data \in Chunks : SignChunkReview(chunk, data)
    BY <2>4, ReviewMaps
  <2>5. CASE \E data \in Chunks : SignChunkSwap(chunk, data)
    BY <2>5, SwapMaps
  <2> QED
    BY <1>4, <2>1, <2>2, <2>3, <2>4, <2>5 DEF SignChunk
<1> QED
  BY <1>1, <1>2, <1>3, <1>4 DEF Command

LEMMA NextMaps == IInv /\ [Next]_vars => RequestStep
<1> SUFFICES ASSUME IInv, [Next]_vars PROVE RequestStep
  OBVIOUS
<1>1. CASE Command
  BY <1>1, CommandMaps
<1>2. CASE Approve
  BY <1>2, ApproveMaps
<1>3. CASE Reject
  BY <1>3, RejectMaps
<1>4. CASE AllowBlindSigning \/ DismissStatus \/ ChangeSettings
  BY <1>4, Stutters DEF AllowBlindSigning, DismissStatus, ChangeSettings
<1>5. CASE Quit
  <2>1. ~running' /\ signatures' = signatures
    BY <1>5 DEF Quit, Leave
  <2> QED
    BY <2>1, PhaseAfter, Drops
<1>6. CASE Launch \/ IoReset
  BY <1>6, EnterMaps
<1>7. CASE UNCHANGED vars
  BY <1>7, Stutters DEF vars
<1> QED
  BY <1>1, <1>2, <1>3, <1>4, <1>5, <1>6, <1>7 DEF Next, Decide

LEMMA RequestStepIsAStep == RequestStep => [Request!Next]_(Request!requestVars)
BY DEF RequestStep, Request!requestVars, AbstractPath, AbstractChunks

LEMMA InitMaps == Init => Request!Init
<1> SUFFICES ASSUME Init PROVE Request!Init
  OBVIOUS
<1>1. ~running /\ signatures = <<>>
  BY DEF Init
<1>2. RequestPhase = "closed"
  BY <1>1, PhaseOf
<1> QED
  BY <1>1, <1>2 DEF Request!Init

\* Whatever the host and the user do, what the host sees of a signing request
\* is a behaviour of the abstract one.
THEOREM AppImplementsRequest == Spec => ImplementsRequest
BY InitMaps, NextMaps, RequestStepIsAStep, Invariance, PTL DEF Spec, ImplementsRequest, Request!Spec
=============================================================================
