--------------------------- MODULE PrintableAmount ---------------------------
(***************************************************************************)
(* swap_handle_get_printable_amount and print_amount: the Exchange app     *)
(* asks for the text of an amount.  The digits are counted in a loop whose *)
(* base is an unsigned number of Width bits (64) and wraps; what follows   *)
(* is straight-line code.  A text is a sequence of digits with at most one *)
(* Point, the empty one standing for an error.                             *)
(***************************************************************************)
EXTENDS Powers, Sequences

CONSTANTS
    Width,               \* the bits of an amount
    MAX_AMOUNT_STR_LEN,  \* the room of the two temporary texts, with the 0 byte
    Decimals,            \* the decimals a coin may have
    AptDecimals,         \* APT_DECIMAL_PRECISION
    TooLong,             \* an amount of more than eight bytes
    NoCoin,              \* no coin configuration
    MalformedCoin,       \* one that swap_parse_config refuses
    Point                \* the decimal point

Limit == Power(2, Width)
Amounts == 0 .. Limit - 1

\* Assumed by SwapLibrary.
AmountAssumption ==
    /\ Width \in Nat
    /\ MAX_AMOUNT_STR_LEN \in Nat \ {0, 1}
    \* The first number that is too long for a text is an amount: 21 bytes
    \* have room for 19 digits, and 10^19 < 2^64.
    /\ Power(10, MAX_AMOUNT_STR_LEN - 2) < Limit
    /\ Decimals \subseteq Nat
    /\ AptDecimals \in Nat
    /\ TooLong \notin Amounts
    /\ {NoCoin, MalformedCoin} \intersect Decimals = {}
    /\ Point \notin 0 .. 9

\* The call: an amount that may be too long to be a number, and a coin that
\* may be missing or malformed.
Parameters ==
    [amount : Amounts \union {TooLong}, is_fee : BOOLEAN,
     coin : Decimals \union {NoCoin, MalformedCoin}]

VARIABLES params, pc, base, num_digits, printable_amount

vars == <<params, pc, base, num_digits, printable_amount>>

IsApt == params.is_fee \/ params.coin = NoCoin
decimals == IF IsApt THEN AptDecimals ELSE params.coin

-----------------------------------------------------------------------------
(* adjust_decimals *)

Zeros(n) == [i \in 1 .. n |-> 0]

\* Zeros kept where they end the fraction.
Untrimmed(whole, fraction) ==
    IF fraction = << >> THEN whole ELSE whole \o << Point >> \o fraction

\* The last nonzero digit of the fraction ends the text; a fraction of zeros
\* goes with its point.
Trimmed(whole, fraction) ==
    LET kept == CHOOSE n \in 0 .. Len(fraction) :
                    /\ n > 0 => fraction[n] # 0
                    /\ \A i \in n + 1 .. Len(fraction) : fraction[i] = 0
    IN  IF kept = 0 THEN whole ELSE whole \o << Point >> \o SubSeq(fraction, 1, kept)

\* The room counted without the 0 byte at the end.
AdjustWithoutEnd(src) ==
    IF Len(src) <= decimals
    THEN IF MAX_AMOUNT_STR_LEN < decimals + 2 THEN << >>
         ELSE Trimmed(<< 0 >>, Zeros(decimals - Len(src)) \o src)
    ELSE IF MAX_AMOUNT_STR_LEN < Len(src) + 1 THEN << >>
         ELSE Trimmed(SubSeq(src, 1, Len(src) - decimals),
                      SubSeq(src, Len(src) - decimals + 1, Len(src)))

AdjustDecimals(src) ==
    IF Len(src) <= decimals
    THEN IF MAX_AMOUNT_STR_LEN < decimals + 3 THEN << >>
         ELSE Trimmed(<< 0 >>, Zeros(decimals - Len(src)) \o src)
    ELSE IF MAX_AMOUNT_STR_LEN < Len(src) + 2 THEN << >>
         ELSE Trimmed(SubSeq(src, 1, Len(src) - decimals),
                      SubSeq(src, Len(src) - decimals + 1, Len(src)))

-----------------------------------------------------------------------------
(* print_amount *)

Return(text) ==
    /\ printable_amount' = text
    /\ pc' = "done"

\* The coin and the amount are parsed; zero is printed at once.
Begin ==
    /\ pc = "called"
    /\ IF params.amount = TooLong \/ (~IsApt /\ params.coin = MalformedCoin)
       THEN Return(<< >>)
       ELSE IF params.amount = 0 THEN Return(<< 0 >>)
       ELSE pc' = "count" /\ UNCHANGED printable_amount
    /\ UNCHANGED <<params, base, num_digits>>

\* One turn of the loop.  A base of zero stays zero: num_digits is left alone
\* then, it is never looked at again.
CountDigit ==
    /\ pc = "count"
    /\ base <= params.amount
    /\ base' = (base * 10) % Limit
    /\ num_digits' = IF base = 0 THEN num_digits ELSE num_digits + 1
    /\ UNCHANGED <<params, pc, printable_amount>>

\* The digits, from base / 10 down.
DigitsOf(n) ==
    [i \in 1 .. n |-> (params.amount \div (base \div Power(10, i))) % 10]

\* Room kept for a sign as well.
FitsWithSign == num_digits <= MAX_AMOUNT_STR_LEN - 3

\* sizeof(tmp) - 2: no room is left for the digit that a point would take.
FitsText == num_digits <= MAX_AMOUNT_STR_LEN - 2

PrintText ==
    /\ pc = "count"
    /\ base > params.amount
    /\ Return(IF FitsText THEN AdjustDecimals(DigitsOf(num_digits)) ELSE << >>)
    /\ UNCHANGED <<params, base, num_digits>>

Init ==
    /\ params \in Parameters
    /\ pc = "called"
    /\ base = 1
    /\ num_digits = 0
    /\ printable_amount = << >>

Next == Begin \/ CountDigit \/ PrintText

Spec == Init /\ [][Next]_vars

\* The call runs alone.
FairSpec == Spec /\ WF_vars(Next)

-----------------------------------------------------------------------------
(* Properties *)

Done == pc = "done"
Printed == Done /\ printable_amount # << >>

\* The number that a sequence of digits stands for.
Value(digits) ==
    LET value[n \in 0 .. Len(digits)] ==
            IF n = 0 THEN 0 ELSE 10 * value[n - 1] + digits[n]
    IN  value[Len(digits)]

Points(text) == {i \in DOMAIN text : text[i] = Point}
Whole(text) ==
    SubSeq(text, 1, IF Points(text) = {} THEN Len(text)
                    ELSE (CHOOSE i \in Points(text) : TRUE) - 1)
Fraction(text) ==
    IF Points(text) = {} THEN << >> ELSE SubSeq(text, Len(Whole(text)) + 2, Len(text))

\* The call keeps its types, and no text outgrows the temporary it is made in.
TypeOK ==
    /\ params \in Parameters
    /\ pc \in {"called", "count", "done"}
    /\ base \in 0 .. Limit - 1
    /\ num_digits \in 0 .. Width
    /\ Len(printable_amount) < MAX_AMOUNT_STR_LEN

\* The text that is printed reads as the amount that was asked for, at the
\* place the decimals of the coin give the point, and in one way only: no
\* zeros in front of the number or behind the fraction.
TextIsAmount ==
    Printed =>
        LET whole == Whole(printable_amount)
            fraction == Fraction(printable_amount)
        IN  /\ Len(fraction) <= decimals
            /\ Value(whole \o fraction) * Power(10, decimals - Len(fraction)) = params.amount
            /\ Len(whole) >= 1
            /\ Len(whole) > 1 => whole[1] # 0
            /\ fraction # << >> => fraction[Len(fraction)] # 0

\* An error is reported only for a call that is malformed, for an amount with
\* as many digits as the largest one, or for decimals that leave no room.
OnlyUnprintableFails ==
    Done /\ printable_amount = << >> =>
        \/ params.amount = TooLong
        \/ ~IsApt /\ params.coin = MalformedCoin
        \/ params.amount >= Power(10, MAX_AMOUNT_STR_LEN - 2)
        \/ decimals + 3 > MAX_AMOUNT_STR_LEN

\* handle_get_printable_amount.c:10: "Set empty printable_amount on error,
\* printable amount otherwise": a call ends, with one or with the other.
CallReturns == <>Done
=============================================================================
