---------------------------- MODULE AddressCheck ----------------------------
(***************************************************************************)
(* swap_handle_check_address: the Exchange app asks whether an address is  *)
(* the user's own, before it has coins sent there.  The path of the address*)
(* comes with the question; the app derives its key, makes the address of  *)
(* the key and compares the two.                                           *)
(*                                                                         *)
(* The key is derived by get_public_key, which is written for the command  *)
(* of that name: it sends its errors to a host and returns what io_send_sw *)
(* returns, and a zero means success to the caller.                        *)
(***************************************************************************)
EXTENDS Integers, Sequences

CONSTANTS
    Elements,  \* the elements a path may have
    Purpose,   \* 44'
    CoinType,  \* 637'
    MaxPath,   \* the elements a path may have at most
    OnStack    \* the keys that the stack may hold when the call begins

Paths == UNION {[1 .. n -> Elements] : n \in 0 .. MaxPath}

\* The length of the path checked without an account.
IsPrefixed(path) == Len(path) >= 2 /\ path[1] = Purpose /\ path[2] = CoinType

\* validate_aptos_bip32_path
IsAptosPath(path) == Len(path) >= 3 /\ path[1] = Purpose /\ path[2] = CoinType

\* Keys and addresses are told apart by the paths that they are made of; the
\* empty path stands for a key that is of no path.
\* The parameters of a path: none, bytes that end before the path does, or a
\* path with at least one element.
PathParameters ==
    [kind : {"empty", "cut"}, path : {<< >>}] \union [kind : {"path"}, path : Paths \ {<< >>}]

\* A text to check: of the address of a path in 66 characters, in upper or
\* lower case, with its prefix or with other characters in its place; of
\* another length; or none.
AddressTexts ==
    [kind : {"null", "other length"}, prefix : {"0x"}, of : {<< >>}] \union
    [kind : {"lower", "upper", "not hex"}, prefix : {"0x", "0X", "??"}, of : Paths \ {<< >>}]

Parameters == [address_parameters : PathParameters, address_to_check : AddressTexts]

VARIABLES
    params,      \* the path, and the address to check
    pc,          \* "called", "address" when there is a key, "done" or "failed"
    public_key,  \* raw_public_key, a variable on the stack
    answered,    \* the errors of get_public_key that were sent to the host
    result       \* params->result

vars == <<params, pc, public_key, answered, result>>

-----------------------------------------------------------------------------

BadParameters ==
    \/ params.address_parameters.kind = "empty"
    \/ params.address_to_check.kind \in {"null", "other length"}

Return(value) ==
    /\ pc' = "done"
    /\ result' = value

RefuseParameters ==
    /\ pc = "called"
    /\ BadParameters
    /\ Return(0)
    /\ UNCHANGED <<params, public_key, answered>>

\* What get_public_key may find wrong with a path.
Errors(parameters) ==
    IF parameters.kind = "cut" THEN {"SW_WRONG_DATA_LENGTH"}
    ELSE IF IsAptosPath(parameters.path) THEN {"none", "SW_GET_PUB_KEY_FAIL"}
    ELSE {"SW_GET_PUB_KEY_FAIL"}

\* A key of the path, or an error that has been sent.  If io_send_sw returns
\* zero, the call goes on with the key it has: raw_public_key has not been
\* written, and holds what was on the stack.
GetPublicKey ==
    /\ pc = "called"
    /\ ~BadParameters
    /\ \E error \in Errors(params.address_parameters), io_send_sw \in {0, -1} :
        /\ IF error = "none"
           THEN public_key' = params.address_parameters.path /\ UNCHANGED answered
           ELSE answered' = answered \union {error} /\ UNCHANGED public_key
        /\ IF error # "none" /\ io_send_sw # 0
           THEN Return(0)
           ELSE pc' = "address" /\ UNCHANGED result
    /\ UNCHANGED params

\* address_from_pubkey fails if the device cannot hash.
AddressFails ==
    /\ pc = "address"
    /\ pc' = "failed"
    /\ UNCHANGED <<params, public_key, answered, result>>

\* strcmp: format_prefixed_hex writes upper case behind "0x".
SameText(text) == text.kind = "upper" /\ text.prefix = "0x" /\ text.of = public_key

\* _strcasecmp, which ignores the case of the prefix too.
SameTextInAnyCase(text) ==
    text.kind \in {"upper", "lower"} /\ text.prefix \in {"0x", "0X"} /\ text.of = public_key

Matches(text) == SameTextInAnyCase(text)

CompareAddress ==
    /\ pc = "address"
    /\ Return(IF Matches(params.address_to_check) THEN 1 ELSE 0)
    /\ UNCHANGED <<params, public_key, answered>>

Init ==
    /\ params \in Parameters
    /\ pc = "called"
    /\ public_key \in OnStack
    /\ answered = {}
    /\ result = 0

Next == RefuseParameters \/ GetPublicKey \/ AddressFails \/ CompareAddress

Spec == Init /\ [][Next]_vars

-----------------------------------------------------------------------------
(* Properties *)

\* The address of a path, whatever the case of its letters.
IsAddressOf(text, path) ==
    text.kind \in {"upper", "lower"} /\ text.prefix \in {"0x", "0X"} /\ text.of = path

\* An address is only taken for the user's own if it is that of the path that
\* was given, and the path is one of Aptos with an account: at least three
\* elements.  After an error of get_public_key that the app has sent to a host
\* that did not ask (handle_check_address.c:75) there is no key of the path; the
\* address is then that of a key that the stack held, and of nothing else.
MatchIsDerived ==
    result = 1 =>
        IF answered = {}
        THEN LET path == params.address_parameters.path
             IN  /\ Len(path) > 2 /\ path[1] = Purpose /\ path[2] = CoinType
                 /\ IsAddressOf(params.address_to_check, path)
        ELSE \E key \in OnStack : IsAddressOf(params.address_to_check, key)

\* The user's own address is recognised, in upper and in lower case: where
\* nothing failed, an answer of zero means that it was another one.
OwnAddressMatches ==
    pc = "done" /\ result = 0 /\ ~BadParameters /\ answered = {} =>
        ~IsAddressOf(params.address_to_check, params.address_parameters.path)
=============================================================================
