--------------------------- MODULE MCSwapLibrary ----------------------------
(***************************************************************************)
(* The instance of SwapLibrary for TLC.                                    *)
(*                                                                         *)
(* SIGN_TRANSACTION: numbers of two bits, so that fees wrap; addresses of  *)
(* two bytes with two values, so that a destination may be cut off before, *)
(* within or after the part that is not zero; the largest amount cannot be *)
(* printed, nor any amount but zero with the larger decimals.              *)
(*                                                                         *)
(* GET_PRINTABLE_AMOUNT: amounts of eleven bits have up to four digits, and*)
(* the temporary texts have one byte more, as those of the code have 21 for*)
(* the 20 digits of 64 bits.  In eleven bits the first power of ten that   *)
(* wraps, 10000, leaves 1808, so there are amounts below and above it, as  *)
(* there are in 64 bits.                                                   *)
(*                                                                         *)
(* CHECK_ADDRESS: paths of up to three elements, as many as a path needs,  *)
(* of the two that matter and one that does not; the stack holds the key of*)
(* no path, of a path that is too short, or of an account.                  *)
(***************************************************************************)
EXTENDS SwapLibrary

CONSTANT USDC

MCPrintable == {<<a, d>> \in Amounts \X Decimals : a = 0 \/ (a < U64 - 1 /\ d = 2)}
MCGarbage ==
    {[initialized |-> b, ticker |-> APT, decimals |-> 2, amount |-> 1, fee |-> 0,
      recipient |-> [i \in 1 .. ADDRESS_LEN |-> 1]] : b \in BOOLEAN}
MCTickers == {APT, USDC}
MCAmountDecimals == 0 .. 4
MCOnStack == {<< >>, <<Purpose, CoinType>>, <<Purpose, CoinType, 0>>}
=============================================================================
