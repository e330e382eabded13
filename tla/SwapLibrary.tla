----------------------------- MODULE SwapLibrary -----------------------------
(***************************************************************************)
(* The app as a library of the Exchange app.  A swap calls it several      *)
(* times: to check an address (AddressCheck), to print an amount or a fee  *)
(* (PrintableAmount), and to sign (SwapSession).  Each call is a launch of *)
(* its own that runs one of the three and ends: the Exchange app takes the *)
(* memory back, and nothing of one call is left to the next.               *)
(*                                                                         *)
(* The module extends SwapSession and instantiates the other two, each over*)
(* variables of its own.  Those of a call that is not made keep one value. *)
(***************************************************************************)
EXTENDS SwapSession

CONSTANTS
    Width, MAX_AMOUNT_STR_LEN, AmountDecimals, Point,  \* of PrintableAmount
    Elements, Purpose, CoinType, MaxPath, OnStack      \* of AddressCheck

VARIABLES
    command,  \* the call the Exchange app makes
    amount_params, amount_pc, base, num_digits, printable_amount,
    address_params, address_pc, public_key, answered, result

sessionVars == vars
amountVars == <<amount_params, amount_pc, base, num_digits, printable_amount>>
addressVars == <<address_params, address_pc, public_key, answered, result>>

Amount ==
    INSTANCE PrintableAmount
        WITH params <- amount_params, pc <- amount_pc, Decimals <- AmountDecimals,
             NoCoin <- Null, MalformedCoin <- Malformed

Address == INSTANCE AddressCheck WITH params <- address_params, pc <- address_pc

ASSUME LibraryAssumption ==
    /\ Amount!AmountAssumption
    /\ MaxPath \in Nat
    /\ {Purpose, CoinType} \subseteq Elements
    /\ OnStack \subseteq Address!Paths

\* The variables of a call that is not made: those of a call without
\* parameters that has not run.
NoSession ==
    /\ params = [extra_id |-> "null", destination_address |-> Null, amount |-> Null,
                 fee_amount |-> TooLong, coin_configuration |-> Null]
    /\ G_swap_validated =
           [initialized |-> FALSE, ticker |-> Null, decimals |-> AptDecimals,
            amount |-> 0, fee |-> 0, recipient |-> ZeroAddress]
    /\ stage = "called"
    /\ outcome = "none"
    /\ transaction = << >>

NoAmount ==
    /\ amount_params = [amount |-> TooLong, is_fee |-> FALSE, coin |-> Null]
    /\ amount_pc = "called"
    /\ base = 1
    /\ num_digits = 0
    /\ printable_amount = << >>

NoAddress ==
    /\ address_params =
           [address_parameters |-> [kind |-> "empty", path |-> << >>],
            address_to_check |-> [kind |-> "null", prefix |-> "0x", of |-> << >>]]
    /\ address_pc = "called"
    /\ public_key = << >>
    /\ answered = {}
    /\ result = 0

LibraryInit ==
    \/ command = "SIGN_TRANSACTION" /\ Init /\ NoAmount /\ NoAddress
    \/ command = "GET_PRINTABLE_AMOUNT" /\ NoSession /\ Amount!Init /\ NoAddress
    \/ command = "CHECK_ADDRESS" /\ NoSession /\ NoAmount /\ Address!Init

SignCall ==
    /\ command = "SIGN_TRANSACTION"
    /\ Next
    /\ UNCHANGED <<command, amountVars, addressVars>>

AmountCall ==
    /\ command = "GET_PRINTABLE_AMOUNT"
    /\ Amount!Next
    /\ UNCHANGED <<command, sessionVars, addressVars>>

AddressCall ==
    /\ command = "CHECK_ADDRESS"
    /\ Address!Next
    /\ UNCHANGED <<command, sessionVars, amountVars>>

LibraryNext == SignCall \/ AmountCall \/ AddressCall

LibrarySpec == LibraryInit /\ [][LibraryNext]_<<command, sessionVars, amountVars, addressVars>>

-----------------------------------------------------------------------------
(* Properties: those of SwapSession, and of the other two by their names *)

AmountTypeOK == Amount!TypeOK
TextIsAmount == Amount!TextIsAmount
OnlyUnprintableFails == Amount!OnlyUnprintableFails
MatchIsDerived == Address!MatchIsDerived
OwnAddressMatches == Address!OwnAddressMatches
=============================================================================
