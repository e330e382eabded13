------------------------------ MODULE Uleb128 ------------------------------
(***************************************************************************)
(* bcs_read_u32_from_uleb128: a number in digits of Base (128), the lowest *)
(* first; a byte of Base or more says that another digit follows.  The     *)
(* loop takes a digit at a time.  BCS wants one encoding for every number, *)
(* so the loop has to refuse what is too large, too long or padded.        *)
(*                                                                         *)
(* The number has Width bits (32) and a digit DigitBits of them (7): Width *)
(* is no multiple of DigitBits, which leaves the last digit fewer bits     *)
(* than the others.                                                        *)
(***************************************************************************)
EXTENDS Powers, Sequences

CONSTANTS DigitBits, Width, MaxBytes  \* MaxBytes bounds the length of the buffer

ASSUME WidthAssumption ==
    /\ DigitBits \in Nat \ {0}
    /\ Width \in Nat
    /\ DigitBits < Width
    /\ MaxBytes \in Nat

Base == Power(2, DigitBits)
Limit == Power(2, Width)
Byte == 0 .. 2 * Base - 1

VARIABLES
    bytes,      \* the buffer, from the cursor on
    offset,     \* how much of it is read
    shift,      \* the weight of the next digit, in bits
    tmp_value,  \* the digits read so far
    result      \* "reading", "true" or "false"

vars == <<bytes, offset, shift, tmp_value, result>>

\* The loop left one digit early, as if the last one had to be whole.
NoWholeDigit ==
    /\ result = "reading"
    /\ shift + DigitBits > Width \/ offset = Len(bytes)
    /\ result' = "false"
    /\ UNCHANGED <<bytes, offset, shift, tmp_value>>

\* The end of the buffer, or all the shifts used up.
NoDigit ==
    /\ result = "reading"
    /\ shift >= Width \/ offset = Len(bytes)
    /\ result' = "false"
    /\ UNCHANGED <<bytes, offset, shift, tmp_value>>

\* A padded number let through.
OutcomeIfPadded(value, byte) ==
    IF value >= Limit THEN "false"
    ELSE IF byte < Base THEN "true" ELSE "reading"

\* Too large, or its last digit a zero in front of the others.
Outcome(value, byte) ==
    IF value >= Limit \/ (shift > 0 /\ byte = 0) THEN "false"
    ELSE IF byte < Base THEN "true" ELSE "reading"

\* One turn of the loop; tmp_value has 64 bits, so the digit that is too much
\* is still in it when it is compared with UINT32_MAX.
Digit ==
    /\ result = "reading"
    /\ shift < Width
    /\ offset < Len(bytes)
    /\ LET byte == bytes[offset + 1]
           value == tmp_value + (byte % Base) * Power(2, shift)
       IN  /\ tmp_value' = value
           /\ result' = Outcome(value, byte)
    /\ offset' = offset + 1
    /\ shift' = shift + DigitBits
    /\ UNCHANGED bytes

Init ==
    /\ bytes \in UNION {[1 .. n -> Byte] : n \in 0 .. MaxBytes}
    /\ offset = 0
    /\ shift = 0
    /\ tmp_value = 0
    /\ result = "reading"

Next == NoDigit \/ Digit

Spec == Init /\ [][Next]_vars

-----------------------------------------------------------------------------
(* The reference: the encoding of a number *)

\* A number has as many digits as it needs, and one at least.
IsNumDigits(value, n) == value < Power(Base, n) /\ (n > 1 => value >= Power(Base, n - 1))
NumDigits(value) == CHOOSE n \in 1 .. Width : IsNumDigits(value, n)

Encoding(value) ==
    [i \in 1 .. NumDigits(value) |->
        ((value \div Power(Base, i - 1)) % Base) + (IF i < NumDigits(value) THEN Base ELSE 0)]

BeginsWith(number) ==
    /\ Len(number) <= Len(bytes)
    /\ SubSeq(bytes, 1, Len(number)) = number

-----------------------------------------------------------------------------
(* Properties *)

\* The loop keeps its types, and what it goes on with fits the result: only
\* the digit read last can exceed it, by less than tmp_value has room for.
TypeOK ==
    /\ offset \in 0 .. Len(bytes)
    /\ tmp_value \in 0 .. Limit * Base - 1
    /\ result \in {"reading", "true", "false"}
    /\ result = "reading" => tmp_value < Limit /\ shift = DigitBits * offset

\* A number that is read is in range, and what was taken from the buffer is
\* its one encoding: no padding, no second way to write a length or a variant
\* (decoder.c:116-124).
AcceptedIsCanonical ==
    result = "true" => tmp_value < Limit /\ SubSeq(bytes, 1, offset) = Encoding(tmp_value)

\* A number is only refused where there is none: every encoding of a number in
\* range is read, those that use the last, shorter digit included.
RefusedIsNoNumber ==
    result = "false" => \A value \in 0 .. Limit - 1 : ~BeginsWith(Encoding(value))
=============================================================================
