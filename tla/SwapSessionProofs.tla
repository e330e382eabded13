-------------------------- MODULE SwapSessionProofs --------------------------
(***************************************************************************)
(* What SwapSession promises, for all addresses, amounts and coins, and    *)
(* whatever the memory of the app holds when the Exchange app calls it.    *)
(***************************************************************************)
EXTENDS SwapSession, TLAPS

-----------------------------------------------------------------------------
(* What the copy holds *)

\* A copy that was not refused is a value of swap_validated_t.
LEMMA CopyType ==
    ASSUME params \in Parameters, ~Refused
    PROVE  Copy \in Validated
<1> DEFINE coin == IF params.coin_configuration = Null
                   THEN [ticker |-> APT, decimals |-> AptDecimals]
                   ELSE params.coin_configuration
<1>1. params.amount \in Amounts /\ params.fee_amount \in Amounts
  BY DEF Parameters, Refused
<1>2. coin \in Coins
  BY SwapAssumption DEF Parameters, Refused, Coins, SwapAssumption
<1>3. Recipient(params.destination_address) \in Addresses
  <2>1. params.destination_address \in Destinations
    BY DEF Parameters, Refused
  <2> QED
    BY <2>1, SwapAssumption DEF Recipient, Destinations, Addresses, SwapAssumption
<1> QED
  BY <1>1, <1>2, <1>3 DEF Copy, Validated, Coins

\* The recipient in the copy is the agreed one, where the destination can be
\* parsed.
LEMMA CopyKeepsRecipient ==
    ASSUME NEW d \in Destinations, WellFormed(d)
    PROVE  Recipient(d) = d.address
BY SwapAssumption DEF Destinations, WellFormed, Recipient, Addresses, SwapAssumption

-----------------------------------------------------------------------------
(* Types *)

\* A call begins well typed, and every step keeps the types.
LEMMA InitType == Init => TypeOK
BY SwapAssumption DEF Init, TypeOK, SwapAssumption

LEMMA NextType == TypeOK /\ [Next]_vars => TypeOK'
<1> SUFFICES ASSUME TypeOK, [Next]_vars PROVE TypeOK'
  OBVIOUS
<1>1. CASE RefuseParameters
  BY <1>1 DEF RefuseParameters, TypeOK
<1>2. CASE CopyParameters
  <2>1. Copy \in Validated
    BY <1>2, CopyType DEF CopyParameters, TypeOK
  <2>2. Copy.initialized
    BY DEF Copy
  <2> QED
    BY <1>2, <2>1, <2>2 DEF CopyParameters, Committed, TypeOK
<1>3. CASE SignTransaction
  BY <1>3 DEF SignTransaction, Return, TypeOK
<1>4. CASE RejectTransaction
  BY <1>4 DEF RejectTransaction, Return, TypeOK
<1>5. CASE UNCHANGED vars
  BY <1>5 DEF vars, TypeOK
<1> QED
  BY <1>1, <1>2, <1>3, <1>4, <1>5 DEF Next

\* Every variable keeps its type, and nothing is checked against a copy that
\* is not initialized: the type invariant of SwapSession.
THEOREM SessionTypeCorrect == Spec => []TypeOK
  BY InitType, NextType, PTL DEF Spec

-----------------------------------------------------------------------------
(* The inductive invariant *)

\* What is checked against is the copy of what was agreed, and stays it.
CopyIsOfAgreed ==
    (stage = "copied" \/ outcome \in {"signed", "SW_SWAP_CHECKING_FAIL"}) =>
        ~Refused /\ G_swap_validated = Copy

\* The outcome is that of the check, and the last thing that happens: only
\* what the check accepts is signed, only what it refuses is rejected.
OutcomeIsOfCheck ==
    /\ outcome # "none" => stage = "returned"
    /\ outcome = "signed" => Valid(transaction)
    /\ outcome = "SW_SWAP_CHECKING_FAIL" =>
        ~Valid(transaction) /\ transaction \in Transactions \union OtherRequests

IInv == TypeOK /\ CopyIsOfAgreed /\ OutcomeIsOfCheck

\* A call begins with nothing copied, and every step keeps the two conditions.
LEMMA InitIInv == Init => IInv
BY InitType DEF Init, IInv, CopyIsOfAgreed, OutcomeIsOfCheck

LEMMA NextIInv == IInv /\ [Next]_vars => IInv'
<1> SUFFICES ASSUME TypeOK, CopyIsOfAgreed, OutcomeIsOfCheck, [Next]_vars
             PROVE  CopyIsOfAgreed' /\ OutcomeIsOfCheck'
  BY NextType DEF IInv
<1>1. CASE RefuseParameters
  BY <1>1 DEF RefuseParameters, CopyIsOfAgreed, OutcomeIsOfCheck
<1>2. CASE CopyParameters
  <2>1. CopyIsOfAgreed'
    BY <1>2 DEF CopyParameters, Committed, CopyIsOfAgreed, Refused, Copy
  <2>2. OutcomeIsOfCheck'
    BY <1>2 DEF CopyParameters, OutcomeIsOfCheck, TypeOK
  <2> QED
    BY <2>1, <2>2
<1>3. CASE SignTransaction
  BY <1>3 DEF SignTransaction, Return, CopyIsOfAgreed, OutcomeIsOfCheck, Refused, Copy,
              Valid, ValidAmount
<1>4. CASE RejectTransaction
  BY <1>4 DEF RejectTransaction, Return, CopyIsOfAgreed, OutcomeIsOfCheck, Refused, Copy,
              Valid, ValidAmount
<1>5. CASE UNCHANGED vars
  BY <1>5 DEF vars, CopyIsOfAgreed, OutcomeIsOfCheck, Refused, Copy, Valid, ValidAmount
<1> QED
  BY <1>1, <1>2, <1>3, <1>4, <1>5 DEF Next

\* The invariant of a swap, whatever the Exchange app and the host send.
THEOREM SessionInvariance == Spec => []IInv
  BY InitIInv, NextIInv, PTL DEF Spec

-----------------------------------------------------------------------------
(* The check *)

\* The invariant implies it.
LEMMA SignsAgreed == IInv => SignedIsAgreed
<1> DEFINE destination == Agreed.destination_address
<1> SUFFICES ASSUME IInv, Signed
             PROVE  /\ transaction.known_type \in TransferTypes
                    /\ transaction.amount = Agreed.amount
                    /\ GasFee(transaction) = Agreed.fee_amount
                    /\ WellFormed(destination) => transaction.receiver = destination.address
                    /\ \A i \in 1 .. ADDRESS_LEN :
                          transaction.receiver[i] =
                              IF i <= destination.parsed THEN destination.address[i] ELSE 0
  BY DEF SignedIsAgreed
<1>1. Valid(transaction) /\ ~Refused /\ G_swap_validated = Copy
  BY DEF IInv, CopyIsOfAgreed, OutcomeIsOfCheck, Signed
<1>2. destination \in Destinations
  BY <1>1 DEF IInv, TypeOK, Parameters, Refused, Agreed
<1>3. transaction.receiver = Recipient(destination)
  BY <1>1 DEF Valid, Copy, Agreed
<1>4. WellFormed(destination) => transaction.receiver = destination.address
  BY <1>2, <1>3, CopyKeepsRecipient
<1>5. \A i \in 1 .. ADDRESS_LEN :
          transaction.receiver[i] =
              IF i <= destination.parsed THEN destination.address[i] ELSE 0
  BY <1>3 DEF Recipient
<1> QED
  BY <1>1, <1>4, <1>5 DEF Valid, ValidAmount, Copy, Agreed

\* A swap signs the agreed amount to the agreed destination, or to what could
\* be read of it and zeros, with the agreed fee in 64 bits.
THEOREM SwapSignsAgreed == Spec => []SignedIsAgreed
  BY SignsAgreed, SessionInvariance, PTL

\* The invariant implies it.
LEMMA RejectsOnlyOthers == IInv => AgreedIsNotRejected
<1> SUFFICES ASSUME IInv,
                    outcome = "SW_SWAP_CHECKING_FAIL",
                    transaction \notin OtherRequests,
                    transaction.amount = Agreed.amount,
                    GasFee(transaction) = Agreed.fee_amount,
                    transaction.receiver = Agreed.destination_address.address,
                    WellFormed(Agreed.destination_address),
                    <<transaction.amount, G_swap_validated.decimals>> \in Printable
             PROVE  FALSE
  BY DEF AgreedIsNotRejected
<1>1. ~Valid(transaction) /\ ~Refused /\ G_swap_validated = Copy
  BY DEF IInv, CopyIsOfAgreed, OutcomeIsOfCheck
<1>2. params.destination_address \in Destinations
  BY <1>1 DEF IInv, TypeOK, Parameters, Refused
<1>3. Recipient(params.destination_address) = params.destination_address.address
  BY <1>2, CopyKeepsRecipient DEF Agreed
<1>4. transaction \in Transactions
  BY DEF IInv, OutcomeIsOfCheck
<1>5. /\ transaction.tx_variant = "TX_RAW"
      /\ transaction.payload_variant = "PAYLOAD_ENTRY_FUNCTION"
      /\ transaction.known_type \in TransferTypes
  BY <1>4 DEF Transactions
<1> QED
  BY <1>1, <1>3, <1>5 DEF Valid, ValidAmount, Copy, Agreed

\* What was agreed is not rejected, unless its amount cannot be printed.
THEOREM SwapRejectsOnlyOthers == Spec => []AgreedIsNotRejected
  BY RejectsOnlyOthers, SessionInvariance, PTL
=============================================================================
