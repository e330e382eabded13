-------------------------- MODULE BcsStringProofs --------------------------
(***************************************************************************)
(* Proofs about the BCS reader: the ULEB128 numbers it accepts are the     *)
(* canonical encodings in range and no others, and a string that it        *)
(* accepts is UTF-8, converted character by character.                     *)
(***************************************************************************)
EXTENDS BcsString, PowersProofs, FiniteSetTheorems, SequenceTheorems

-----------------------------------------------------------------------------
(* Numbers and their digits *)

\* The numbers of Uleb128 and their bounds.
LEMMA BaseAndLimit ==
    /\ Base \in Nat /\ Base >= 2
    /\ Limit \in Nat \ {0}
    /\ Limit <= Power(Base, Width)
    /\ Byte = 0 .. 2 * Base - 1
    /\ \A n \in Nat : Power(Base, n) \in Nat \ {0} /\ Power(Base, n + 1) = Base * Power(Base, n)
    /\ \A n \in Nat : Power(Base, n) = Power(2, DigitBits * n)
<1>1. DigitBits \in Nat \ {0} /\ Width \in Nat /\ DigitBits < Width
  BY WidthAssumption
<1>2. \A n \in Nat : Power(2, n) \in Nat \ {0}
  BY PowerPositive
<1>3. Base \in Nat /\ Base >= 2
  <2>1. DigitBits - 1 \in Nat /\ (DigitBits - 1) + 1 = DigitBits
    BY <1>1
  <2>2. Power(2, DigitBits) = 2 * Power(2, DigitBits - 1)
    BY <2>1, PowerIs
  <2> QED
    BY <1>2, <2>1, <2>2 DEF Base
<1>4. Limit \in Nat \ {0}
  BY <1>1, <1>2 DEF Limit
<1>5. \A n \in Nat : Power(Base, n) \in Nat \ {0} /\ Power(Base, n + 1) = Base * Power(Base, n)
  <2>1. Base \in Nat \ {0} /\ Base \in Int
    BY <1>3
  <2>2. \A n \in Nat : Power(Base, n) \in Nat \ {0}
    BY <2>1, PowerPositive
  <2>3. \A n \in Nat : Power(Base, n + 1) = Base * Power(Base, n)
    BY <2>1, PowerIs
  <2> QED
    BY <2>2, <2>3
<1>6. \A n \in Nat : Power(Base, n) = Power(2, DigitBits * n)
  BY <1>1, PowerProduct DEF Base
<1>7. Limit <= Power(Base, Width)
  <2>1. Width <= DigitBits * Width /\ DigitBits * Width \in Nat
    BY <1>1
  <2>2. Power(2, Width) <= Power(2, DigitBits * Width)
    BY <1>1, <2>1, PowerOrder
  <2> QED
    BY <1>1, <1>6, <2>2 DEF Limit
<1> QED
  BY <1>3, <1>4, <1>5, <1>6, <1>7 DEF Byte

\* The digit of a number at a place, counted from 1, the lowest first.
DigitAt(value, i) == (value \div Power(Base, i - 1)) % Base

\* Numbers with the same lower digits have the same remainder.
LEMMA SameDigits ==
    ASSUME NEW a \in Nat, NEW b \in Nat, NEW n \in Nat,
           \A i \in 1 .. n : DigitAt(a, i) = DigitAt(b, i)
    PROVE  a % Power(Base, n) = b % Power(Base, n)
<1> DEFINE T == {k \in Nat : k <= n => a % Power(Base, k) = b % Power(Base, k)}
<1>1. T \subseteq Nat
  OBVIOUS
<1>2. 0 \in T
  <2>1. Power(Base, 0) = 1
    BY BaseAndLimit, PowerIs
  <2> QED
    BY <2>1
<1>3. ASSUME NEW k \in T PROVE k + 1 \in T
  <2> SUFFICES ASSUME k + 1 <= n
               PROVE  a % Power(Base, k + 1) = b % Power(Base, k + 1)
    OBVIOUS
  <2>1. k \in Nat /\ a % Power(Base, k) = b % Power(Base, k) /\ k + 1 \in 1 .. n /\ (k + 1) - 1 = k
    OBVIOUS
  <2>2. (a \div Power(Base, k)) % Base = (b \div Power(Base, k)) % Base
    BY <2>1 DEF DigitAt
  <2>3. Power(Base, k) \in Nat \ {0} /\ Power(Base, k + 1) = Base * Power(Base, k) /\ Base \in Nat \ {0}
    BY <2>1, BaseAndLimit
  <2> DEFINE p == Power(Base, k)
  <2> HIDE DEF p
  <2>4. a % (Base * p) = (a % p) + p * ((a \div p) % Base)
    BY <2>3, LowerDigits DEF p
  <2>5. b % (Base * p) = (b % p) + p * ((b \div p) % Base)
    BY <2>3, LowerDigits DEF p
  <2> QED
    BY <2>1, <2>2, <2>3, <2>4, <2>5 DEF p
<1> HIDE DEF T
<1>4. T = Nat
  BY <1>1, <1>2, <1>3, Induction
<1> QED
  BY <1>4 DEF T

\* A number below the limit has a number of digits, and one only.
LEMMA NumDigitsIs ==
    ASSUME NEW value \in Nat, value < Limit
    PROVE  /\ NumDigits(value) \in 1 .. Width
           /\ IsNumDigits(value, NumDigits(value))
           /\ \A n \in 1 .. Width : IsNumDigits(value, n) => n = NumDigits(value)
<1>1. Width \in Nat \ {0}
  BY WidthAssumption
<1> DEFINE T == {n \in Nat \ {0} : value < Power(Base, n)}
<1>2. Width \in T
  <2>1. Limit <= Power(Base, Width) /\ Limit \in Nat
    BY BaseAndLimit
  <2>2. Power(Base, Width) \in Nat
    BY <1>1, BaseAndLimit
  <2> QED
    BY <1>1, <2>1, <2>2
<1>3. PICK n \in T : \A k \in T : n <= k
  <2>1. T \subseteq Nat /\ T # {}
    BY <1>2
  <2> HIDE DEF T
  <2> QED
    BY <2>1, LeastNumber
<1>4. n \in 1 .. Width
  BY <1>1, <1>2, <1>3
<1>5. IsNumDigits(value, n)
  <2>1. ASSUME n > 1 PROVE value >= Power(Base, n - 1)
    <3>1. n - 1 \in Nat \ {0} /\ n - 1 \notin T
      BY <1>3, <2>1
    <3>2. Power(Base, n - 1) \in Nat
      BY <3>1, BaseAndLimit
    <3> QED
      BY <3>1, <3>2
  <2> QED
    BY <1>3, <2>1 DEF IsNumDigits
<1>6. ASSUME NEW k \in 1 .. Width, NEW m \in 1 .. Width,
             IsNumDigits(value, k), IsNumDigits(value, m), k < m
      PROVE  FALSE
  <2>1. m > 1 /\ k \in Nat /\ m - 1 \in Nat /\ k <= m - 1
    BY <1>1, <1>6
  <2>2. value < Power(Base, k) /\ value >= Power(Base, m - 1)
    BY <1>6, <2>1 DEF IsNumDigits
  <2>3. Power(Base, k) <= Power(Base, m - 1)
    <3>1. Base \in Nat \ {0}
      BY BaseAndLimit
    <3> QED
      BY <2>1, <3>1, PowerOrder
  <2>4. Power(Base, k) \in Nat /\ Power(Base, m - 1) \in Nat
    BY <2>1, BaseAndLimit
  <2> QED
    BY <2>2, <2>3, <2>4
<1>7. NumDigits(value) \in 1 .. Width /\ IsNumDigits(value, NumDigits(value))
  BY <1>4, <1>5 DEF NumDigits
<1> QED
  BY <1>1, <1>6, <1>7

\* The bytes of an encoding: the digits, with a mark on all but the last.
LEMMA EncodingIs ==
    ASSUME NEW value \in Nat, value < Limit
    PROVE  /\ Encoding(value) \in Seq(Nat)
           /\ Len(Encoding(value)) = NumDigits(value)
           /\ \A i \in 1 .. NumDigits(value) :
                /\ DigitAt(value, i) \in 0 .. Base - 1
                /\ Encoding(value)[i] =
                    DigitAt(value, i) + (IF i < NumDigits(value) THEN Base ELSE 0)
<1>1. NumDigits(value) \in 1 .. Width /\ NumDigits(value) \in Nat
  BY NumDigitsIs, WidthAssumption
<1> DEFINE n == NumDigits(value)
<1> HIDE DEF n
<1>2. Encoding(value) =
        [i \in 1 .. n |-> DigitAt(value, i) + (IF i < n THEN Base ELSE 0)]
  BY DEF Encoding, DigitAt, n
<1>3. ASSUME NEW i \in 1 .. n PROVE DigitAt(value, i) \in 0 .. Base - 1
  <2>1. i - 1 \in Nat
    BY <1>1 DEF n
  <2>2. Power(Base, i - 1) \in Nat \ {0}
    BY <2>1, BaseAndLimit
  <2>4. Base \in Nat \ {0}
    BY BaseAndLimit
  <2>3. value \div Power(Base, i - 1) \in Nat
    BY <2>2, Division
  <2> QED
    BY <2>3, <2>4, Division DEF DigitAt
<1>4. Base \in Nat
  BY BaseAndLimit
<1>5. n \in Nat
  BY <1>1 DEF n
<1>6. Encoding(value) \in Seq(Nat)
  BY <1>2, <1>3, <1>4, <1>5
<1>7. Len(Encoding(value)) = n
  BY <1>2, <1>5
<1> QED
  BY <1>2, <1>3, <1>6, <1>7 DEF n

-----------------------------------------------------------------------------
(* The number *)

\* The bytes from one place to another all say that a digit follows.
AllFollowed(first, last) == \A i \in first .. last : bytes[i] >= Base

\* The loop has one reason to refuse: it is out of digits, the number is too
\* large, or its last digit is a zero.
NoMoreDigits == AllFollowed(1, offset) /\ (shift >= Width \/ offset = Len(bytes))
Padded == offset > 1 /\ bytes[offset] = 0

\* What the loop has read are the digits of tmp_value, as many as offset, and
\* all but the last of them say that another one follows.
NumberTypes ==
    /\ bytes \in Buffers
    /\ offset \in 0 .. Len(bytes)
    /\ shift = DigitBits * offset
    /\ tmp_value \in Nat
    /\ tmp_value < Limit * Base
    /\ result \in {"reading", "true", "false"}

DigitsAreRead ==
    /\ tmp_value < Power(Base, offset)
    /\ offset > 0 => DigitBits * (offset - 1) < Width
    /\ \A i \in 1 .. offset : bytes[i] % Base = DigitAt(tmp_value, i)
    /\ AllFollowed(1, offset - 1)

ResultIsRight ==
    /\ result = "reading" => tmp_value < Limit /\ AllFollowed(1, offset)
    /\ result = "true" => /\ offset > 0 /\ tmp_value < Limit
                          /\ bytes[offset] < Base /\ ~Padded
    /\ result = "false" => NoMoreDigits \/ tmp_value >= Limit \/ Padded

NumberInv == NumberTypes /\ DigitsAreRead /\ ResultIsRight

\* A buffer is a sequence of bytes, and those of a number are in Byte.
LEMMA BytesOfNumber ==
    ASSUME NEW buffer \in Buffers
    PROVE  /\ buffer \in Seq(0 .. 255) /\ Len(buffer) \in Nat
           /\ \A i \in 1 .. Len(buffer) : buffer[i] \in 0 .. 255
           /\ \A i \in 1 .. Len(buffer) :
                (\A j \in 1 .. i - 1 : buffer[j] >= Base) => buffer[i] \in 0 .. 2 * Base - 1
<1>1. buffer \in Seq(0 .. 255)
  BY StringAssumption
<1>2. DOMAIN buffer = 1 .. Len(buffer)
  BY <1>1
<1>3. \A i \in 1 .. Len(buffer) :
        (\A j \in 1 .. i - 1 : buffer[j] >= Base) => buffer[i] \in 0 .. 2 * Base - 1
  BY <1>2, DigitsAssumption, BaseAndLimit
<1>4. \A i \in 1 .. Len(buffer) : buffer[i] \in 0 .. 255
  BY <1>1, ElementOfSeq
<1> QED
  BY <1>1, <1>3, <1>4, LenProperties

\* Nothing is read yet.
LEMMA NumberInit == StringInit => NumberInv
<1> SUFFICES ASSUME StringInit PROVE NumberInv
  OBVIOUS
<1> USE DEF StringInit
<1>1. bytes \in Buffers /\ Len(bytes) \in Nat
  BY BytesOfNumber
<1>2. Limit \in Nat \ {0} /\ Base \in Nat \ {0} /\ Power(Base, 0) = 1
  BY BaseAndLimit, PowerIs
<1>3. DigitBits * 0 = 0
  BY WidthAssumption
<1>4. NumberTypes
  BY <1>1, <1>2, <1>3 DEF NumberTypes
<1>5. DigitsAreRead
  BY <1>2 DEF DigitsAreRead, AllFollowed
<1>6. ResultIsRight
  BY <1>2 DEF ResultIsRight, AllFollowed
<1> QED
  BY <1>4, <1>5, <1>6 DEF NumberInv

\* The number that a turn of the loop makes.
Value == tmp_value + (bytes[offset + 1] % Base) * Power(2, shift)

\* One byte more: the value has one digit more, and still fits one digit above
\* the limit.
LEMMA DigitAdded ==
    ASSUME NumberInv, result = "reading", shift < Width, offset < Len(bytes)
    PROVE  /\ Value \in Nat
           /\ Value < Limit * Base
           /\ Value < Power(Base, offset + 1)
           /\ \A i \in 1 .. offset + 1 : bytes[i] % Base = DigitAt(Value, i)
<1> DEFINE byte == bytes[offset + 1]
           p == Power(Base, offset)
           d == byte % Base
<1>1. /\ bytes \in Buffers /\ offset \in Nat /\ shift = DigitBits * offset /\ shift \in Nat
      /\ tmp_value \in Nat /\ tmp_value < p /\ tmp_value < Limit
      /\ \A i \in 1 .. offset : bytes[i] % Base = DigitAt(tmp_value, i)
  BY WidthAssumption DEF NumberInv, NumberTypes, DigitsAreRead, ResultIsRight
<1>2. Len(bytes) \in Nat /\ byte \in Nat
  <2>1. Len(bytes) \in Nat /\ \A i \in 1 .. Len(bytes) : bytes[i] \in 0 .. 255
    BY <1>1, BytesOfNumber
  <2>2. offset + 1 \in 1 .. Len(bytes)
    BY <1>1, <2>1
  <2>3. bytes[offset + 1] \in 0 .. 255
    BY <2>1, <2>2, Zenon
  <2>4. byte \in 0 .. 255
    BY <2>3
  <2>5. byte \in Nat
    BY ONLY <2>4
  <2> QED
    BY <2>1, <2>5
<1>3. Base \in Nat \ {0} /\ Base - 1 \in Nat /\ Limit \in Nat
  BY BaseAndLimit
<1>4. p \in Nat \ {0} /\ Power(Base, offset + 1) = Base * p /\ p = Power(2, shift)
  BY <1>1, BaseAndLimit
<1>5. d \in 0 .. Base - 1
  BY <1>2, <1>3, Division
<1>6. p <= Limit
  BY <1>1, <1>4, PowerOrder, WidthAssumption DEF Limit
<1> HIDE DEF p, d
<1>7. Value = tmp_value + d * p
  BY <1>4 DEF Value, d
<1>8. d * p \in Nat /\ d * p <= (Base - 1) * p /\ (Base - 1) * p = Base * p - p /\ Base * p \in Nat
  BY <1>3, <1>4, <1>5
<1>9. Value \in Nat /\ Value < Base * p
  BY <1>1, <1>4, <1>7, <1>8
<1>10. Base * p <= Limit * Base /\ Limit * Base \in Nat
  BY <1>3, <1>4, <1>6
<1>11. ASSUME NEW i \in 1 .. offset PROVE DigitAt(Value, i) = DigitAt(tmp_value, i)
  <2> DEFINE low == Power(Base, i - 1)
             rest == Power(Base, offset - i)
  <2>1. i - 1 \in Nat /\ offset - i \in Nat /\ (i - 1) + 1 = i /\ i + (offset - i) = offset /\ i \in Nat
    BY <1>1
  <2>2. low \in Nat \ {0} /\ rest \in Nat \ {0} /\ Power(Base, i) = Base * low
    BY <2>1, BaseAndLimit
  <2>3. p = Power(Base, i) * rest
    <3>1. Power(Base, i + (offset - i)) = Power(Base, i) * rest
      BY <1>3, <2>1, PowerSum
    <3> QED
      BY <2>1, <3>1 DEF p
  <2> HIDE DEF low, rest
  <2>4. d * p = (d * rest) * Base * low /\ d * rest \in Nat
    <3>1. p = (Base * low) * rest
      BY <2>2, <2>3
    <3>2. d \in Nat /\ Base \in Nat
      BY <1>3, <1>5
    <3> QED
      BY <2>2, <3>1, <3>2
  <2>5. Value = tmp_value + (d * rest) * Base * low
    BY <1>7, <2>4
  <2> DEFINE k == d * rest
  <2> HIDE DEF k
  <2>6. ((tmp_value + k * Base * low) \div low) % Base = (tmp_value \div low) % Base
    <3>1. k \in Nat /\ tmp_value \in Nat /\ Base \in Nat \ {0} /\ low \in Nat \ {0}
      BY <1>1, <1>3, <2>2, <2>4 DEF k
    <3>2. ASSUME NEW q \in Nat \ {0}, NEW b \in Nat \ {0}, NEW m \in Nat, NEW a \in Nat
          PROVE  ((a + m * b * q) \div q) % b = (a \div q) % b
      BY DigitInFront
    <3>3. \A q \in Nat \ {0}, b \in Nat \ {0}, m \in Nat, a \in Nat :
            ((a + m * b * q) \div q) % b = (a \div q) % b
      BY <3>2, Zenon
    <3> QED
      BY <3>1, <3>3, Zenon
  <2>7. (Value \div low) % Base = (tmp_value \div low) % Base
    BY <2>5, <2>6 DEF k
  <2> QED
    BY <2>7 DEF DigitAt, low
<1>12. DigitAt(Value, offset + 1) = d
  <2>1. (offset + 1) - 1 = offset
    BY <1>1
  <2>2. d \in Nat /\ tmp_value \in 0 .. p - 1 /\ Value = p * d + tmp_value
    BY <1>1, <1>4, <1>5, <1>7
  <2>3. Value \div p = d
    BY <1>4, <1>9, <2>2, DivisionIs
  <2>4. d % Base = d
    BY <1>3, <1>5
  <2> QED
    BY <2>1, <2>3, <2>4 DEF DigitAt, p
<1>13. bytes[offset + 1] % Base = DigitAt(Value, offset + 1)
  BY <1>12 DEF d
<1>14. \A i \in 1 .. offset + 1 : bytes[i] % Base = DigitAt(Value, i)
  <2> TAKE i \in 1 .. offset + 1
  <2>1. i \in 1 .. offset \/ i = offset + 1
    BY <1>1
  <2> QED
    BY <1>1, <1>11, <1>13, <2>1
<1> QED
  <2>1. Value < Limit * Base
    BY <1>3, <1>4, <1>9, <1>10
  <2>2. Value < Power(Base, offset + 1)
    BY <1>4, <1>9 DEF p
  <2> QED
    BY <1>9, <1>14, <2>1, <2>2

\* A byte continues the number, ends it, or is one that no number has.
LEMMA NumberDigit == NumberInv /\ Digit => NumberInv'
<1> SUFFICES ASSUME NumberInv, Digit PROVE NumberInv'
  OBVIOUS
<1> DEFINE byte == bytes[offset + 1]
<1>1. /\ bytes \in Buffers /\ offset \in Nat /\ offset < Len(bytes) /\ shift < Width
      /\ shift = DigitBits * offset /\ result = "reading" /\ DigitBits \in Nat \ {0} /\ Width \in Nat
  BY WidthAssumption DEF NumberInv, NumberTypes, Digit
<1>2. /\ bytes' = bytes /\ offset' = offset + 1 /\ shift' = shift + DigitBits
      /\ tmp_value' = Value /\ result' = Outcome(Value, byte)
  BY DEF Digit, Value
<1>3. /\ Value \in Nat /\ Value < Limit * Base /\ Value < Power(Base, offset + 1)
      /\ \A i \in 1 .. offset + 1 : bytes[i] % Base = DigitAt(Value, i)
  BY <1>1, DigitAdded
<1>4. /\ Len(bytes) \in Nat /\ Base \in Nat \ {0} /\ Limit \in Nat
      /\ \A i \in 1 .. Len(bytes) : bytes[i] \in 0 .. 255
  <2>1. Base \in Nat \ {0} /\ Limit \in Nat
    BY BaseAndLimit
  <2>2. Len(bytes) \in Nat /\ \A i \in 1 .. Len(bytes) : bytes[i] \in 0 .. 255
    BY <1>1, BytesOfNumber
  <2> QED
    BY <2>1, <2>2
<1>5. byte \in Nat
  <2>1. offset + 1 \in 1 .. Len(bytes)
    BY <1>1, <1>4
  <2>2. bytes[offset + 1] \in 0 .. 255
    BY <1>4, <2>1, Zenon
  <2>3. byte \in 0 .. 255
    BY <2>2
  <2> QED
    BY ONLY <2>3
<1>6. AllFollowed(1, offset)
  BY <1>1 DEF NumberInv, ResultIsRight
<1> DEFINE outcome == Outcome(Value, byte)
<1>7. outcome = IF Value >= Limit \/ (shift > 0 /\ byte = 0) THEN "false"
                ELSE IF byte < Base THEN "true" ELSE "reading"
  BY DEF Outcome
<1>8. shift > 0 <=> offset > 0
  BY <1>1
<1> HIDE DEF outcome
<1>9. outcome \in {"reading", "true", "false"}
  BY <1>7
<1>10. NumberTypes'
  <2>1. offset + 1 \in 0 .. Len(bytes)
    BY <1>1, <1>4
  <2>2. shift + DigitBits = DigitBits * (offset + 1)
    BY <1>1
  <2> QED
    BY <1>1, <1>2, <1>3, <1>9, <2>1, <2>2 DEF NumberTypes, outcome
<1>11. DigitsAreRead'
  <2>1. (offset + 1) - 1 = offset
    BY <1>1
  <2>2. DigitBits * ((offset + 1) - 1) < Width
    BY <1>1, <2>1
  <2>3. AllFollowed(1, offset - 1)'
    BY <1>2, <1>6, <2>1 DEF AllFollowed
  <2> QED
    BY <1>2, <1>3, <2>2, <2>3 DEF DigitsAreRead
<1>12. ResultIsRight'
  <2>1. ASSUME outcome = "reading" PROVE Value < Limit /\ AllFollowed(1, offset)'
    <3>1. Value < Limit /\ byte >= Base
      BY <1>3, <1>4, <1>5, <1>7, <2>1
    <3>2. \A i \in 1 .. offset + 1 : bytes[i] >= Base
      <4> TAKE i \in 1 .. offset + 1
      <4>1. i \in 1 .. offset \/ i = offset + 1
        BY <1>1
      <4> QED
        BY <1>6, <3>1, <4>1 DEF AllFollowed
    <3> QED
      BY <1>2, <3>1, <3>2 DEF AllFollowed
  <2>2. ASSUME outcome = "true"
        PROVE  Value < Limit /\ byte < Base /\ ~(offset + 1 > 1 /\ byte = 0)
    BY <1>1, <1>3, <1>4, <1>5, <1>7, <1>8, <2>2
  <2>3. ASSUME outcome = "false" PROVE Value >= Limit \/ (offset + 1 > 1 /\ byte = 0)
    BY <1>1, <1>3, <1>4, <1>5, <1>7, <1>8, <2>3
  <2>4. Padded' <=> (offset + 1 > 1 /\ byte = 0)
    BY <1>2 DEF Padded
  <2>5. result' = outcome
    BY <1>2 DEF outcome
  <2>6. result' = "reading" => tmp_value' < Limit /\ AllFollowed(1, offset)'
    BY <1>2, <2>1, <2>5
  <2>7. result' = "true" => /\ offset' > 0 /\ tmp_value' < Limit
                            /\ bytes'[offset'] < Base /\ ~Padded'
    BY <1>1, <1>2, <2>2, <2>4, <2>5
  <2>8. result' = "false" => NoMoreDigits' \/ tmp_value' >= Limit \/ Padded'
    BY <1>2, <2>3, <2>4, <2>5
  <2> QED
    BY <2>6, <2>7, <2>8 DEF ResultIsRight
<1> QED
  BY <1>10, <1>11, <1>12 DEF NumberInv

\* The buffer ends before the number.
LEMMA NumberNoDigit == NumberInv /\ NoDigit => NumberInv'
<1> SUFFICES ASSUME NumberInv, NoDigit PROVE NumberInv'
  OBVIOUS
<1>1. /\ result = "reading" /\ (shift >= Width \/ offset = Len(bytes)) /\ result' = "false"
      /\ UNCHANGED <<bytes, offset, shift, tmp_value>>
  BY DEF NoDigit
<1>2. NumberTypes' /\ DigitsAreRead'
  BY <1>1 DEF NumberInv, NumberTypes, DigitsAreRead, AllFollowed
<1>3. AllFollowed(1, offset)
  BY <1>1 DEF NumberInv, ResultIsRight
<1>4. NoMoreDigits'
  BY <1>1, <1>3 DEF NoMoreDigits, AllFollowed
<1>5. ResultIsRight'
  BY <1>1, <1>4 DEF ResultIsRight
<1> QED
  BY <1>2, <1>5 DEF NumberInv

\* The steps after the number leave it alone.
LEMMA NumberUnchanged == NumberInv /\ UNCHANGED vars => NumberInv'
BY DEF NumberInv, NumberTypes, DigitsAreRead, ResultIsRight, AllFollowed, NoMoreDigits, Padded, vars

\* Every step of the call is one of these.
LEMMA NumberStep == NumberInv /\ [StringNext]_<<vars, stringVars>> => NumberInv'
<1> SUFFICES ASSUME NumberInv, [StringNext]_<<vars, stringVars>> PROVE NumberInv'
  OBVIOUS
<1>1. CASE ReadLength
  BY <1>1, NumberDigit, NumberNoDigit DEF ReadLength, Next
<1>2. CASE StringNext /\ ~ReadLength
  <2>1. UNCHANGED vars
    BY <1>2 DEF StringNext, NoLength, LengthRefused, LengthAccepted, TakeChar, NoRoom,
                NoChar, EndString, Fail
  <2> QED
    BY <2>1, NumberUnchanged
<1>3. CASE UNCHANGED <<vars, stringVars>>
  BY <1>3, NumberUnchanged
<1> QED
  BY <1>1, <1>2, <1>3

\* What is read of a number is the value of its digits (bcs_read_u32_from_uleb128),
\* at every step of every call.
THEOREM NumberInvariant == StringSpec => []NumberInv
<1>1. StringInit => NumberInv
  BY NumberInit
<1>2. NumberInv /\ [StringNext]_<<vars, stringVars>> => NumberInv'
  BY NumberStep
<1> QED
  BY <1>1, <1>2, PTL DEF StringSpec

-----------------------------------------------------------------------------
(* What is accepted, what is refused *)

\* The number that is accepted has as many digits as were read.
LEMMA AllDigitsRead ==
    ASSUME NumberInv, result = "true"
    PROVE  NumDigits(tmp_value) = offset
<1> DEFINE p == Power(Base, offset - 1)
<1>1. /\ offset \in Nat \ {0} /\ tmp_value \in Nat /\ tmp_value < Limit
      /\ tmp_value < Power(Base, offset) /\ bytes[offset] < Base /\ ~Padded
      /\ DigitBits * (offset - 1) < Width /\ DigitBits \in Nat \ {0} /\ Width \in Nat
      /\ bytes[offset] % Base = DigitAt(tmp_value, offset)
      /\ bytes \in Buffers /\ offset <= Len(bytes)
  BY WidthAssumption DEF NumberInv, NumberTypes, DigitsAreRead, ResultIsRight
<1>2. offset \in 1 .. Width
  <2>1. offset - 1 <= DigitBits * (offset - 1)
    BY <1>1
  <2> QED
    BY <1>1, <2>1
<1>3. ASSUME offset > 1 PROVE tmp_value >= p
  <2>1. bytes[offset] \in 0 .. 255 /\ bytes[offset] # 0
    <3>1. Len(bytes) \in Nat /\ \A i \in 1 .. Len(bytes) : bytes[i] \in 0 .. 255
      BY <1>1, BytesOfNumber
    <3>2. offset \in 1 .. Len(bytes)
      BY <1>1, <3>1
    <3>3. bytes[offset] \in 0 .. 255
      BY <3>1, <3>2, Zenon
    <3> QED
      BY <1>1, <1>3, <3>3 DEF Padded
  <2>2. Base \in Nat \ {0} /\ offset - 1 \in Nat
    BY <1>1, BaseAndLimit
  <2>3. p \in Nat \ {0}
    BY <2>2, BaseAndLimit
  <2> DEFINE byte == bytes[offset]
  <2>4. byte \in Nat \ {0} /\ byte < Base /\ byte % Base = (tmp_value \div p) % Base
    <3>1. byte \in 0 .. 255 /\ byte # 0 /\ byte < Base
      BY <1>1, <2>1
    <3>2. byte % Base = (tmp_value \div p) % Base
      BY <1>1 DEF DigitAt
    <3> HIDE DEF byte, p
    <3>3. byte \in Nat \ {0}
      BY <3>1
    <3> QED
      BY <3>1, <3>2, <3>3
  <2> HIDE DEF byte, p
  <2>5. byte % Base = byte
    BY <2>2, <2>4
  <2> SUFFICES ASSUME tmp_value < p PROVE FALSE
    BY <1>1, <2>3 DEF p
  <2>6. tmp_value \div p = 0
    BY <1>1, <2>3
  <2>7. 0 % Base = 0
    BY <2>2
  <2> QED
    BY <2>4, <2>5, <2>6, <2>7
<1>4. IsNumDigits(tmp_value, offset)
  BY <1>1, <1>3 DEF IsNumDigits
<1> QED
  BY <1>1, <1>2, <1>4, NumDigitsIs

\* A number that is read is in range, and what the loop took is its encoding.
LEMMA NumberAccepted == NumberInv => AcceptedIsCanonical
<1> SUFFICES ASSUME NumberInv, result = "true"
             PROVE  tmp_value < Limit /\ SubSeq(bytes, 1, offset) = Encoding(tmp_value)
  BY DEF AcceptedIsCanonical
<1>1. /\ offset \in Nat \ {0} /\ tmp_value \in Nat /\ tmp_value < Limit
      /\ bytes[offset] < Base /\ AllFollowed(1, offset - 1)
      /\ bytes \in Buffers /\ offset <= Len(bytes)
      /\ \A i \in 1 .. offset : bytes[i] % Base = DigitAt(tmp_value, i)
  BY DEF NumberInv, NumberTypes, DigitsAreRead, ResultIsRight
<1>2. NumDigits(tmp_value) = offset
  BY AllDigitsRead
<1>3. /\ bytes \in Seq(0 .. 255) /\ Len(bytes) \in Nat
      /\ \A i \in 1 .. Len(bytes) : bytes[i] \in 0 .. 255
      /\ \A i \in 1 .. Len(bytes) :
            (\A j \in 1 .. i - 1 : bytes[j] >= Base) => bytes[i] \in 0 .. 2 * Base - 1
  BY <1>1, BytesOfNumber
<1>4. Base \in Nat \ {0}
  BY BaseAndLimit
<1>5. ASSUME NEW i \in 1 .. offset PROVE bytes[i] = Encoding(tmp_value)[i]
  <2>1. i \in 1 .. Len(bytes) /\ i \in Nat /\ 1 .. i - 1 \subseteq 1 .. offset - 1
    BY <1>1, <1>3
  <2>2. \A j \in 1 .. i - 1 : bytes[j] >= Base
    BY <1>1, <2>1 DEF AllFollowed
  <2>3. bytes[i] \in 0 .. 2 * Base - 1
    BY <1>3, <2>1, <2>2
  <2>4. bytes[i] % Base = DigitAt(tmp_value, i)
    BY <1>1
  <2>5. Encoding(tmp_value)[i] = DigitAt(tmp_value, i) + (IF i < offset THEN Base ELSE 0)
    BY <1>1, <1>2, EncodingIs
  <2> DEFINE byte == bytes[i]
  <2> HIDE DEF byte
  <2>6. byte \in 0 .. 2 * Base - 1
    BY <2>3 DEF byte
  <2>7. CASE i < offset
    <3>1. byte >= Base
      BY <1>1, <2>7 DEF AllFollowed, byte
    <3>2. byte = Base * 1 + (byte - Base) /\ byte - Base \in 0 .. Base - 1 /\ byte \in Nat
      BY <1>4, <2>6, <3>1
    <3>3. byte % Base = byte - Base
      BY <1>4, <3>2, DivisionIs
    <3>4. byte = (byte % Base) + Base
      BY <1>4, <2>6, <3>3
    <3> QED
      BY <2>4, <2>5, <2>7, <3>4 DEF byte
  <2>8. CASE i = offset
    <3>1. byte < Base
      BY <1>1, <2>8 DEF byte
    <3>2. byte % Base = byte
      BY <1>4, <2>6, <3>1
    <3>3. byte = (byte % Base) + 0
      BY <1>4, <2>6, <3>2
    <3> QED
      BY <1>1, <2>4, <2>5, <2>8, <3>3 DEF byte
  <2> QED
    BY <1>1, <2>7, <2>8
<1>6. /\ SubSeq(bytes, 1, offset) \in Seq(0 .. 255) /\ Len(SubSeq(bytes, 1, offset)) = offset
      /\ \A i \in 1 .. offset : SubSeq(bytes, 1, offset)[i] = bytes[i]
  BY <1>1, <1>3
<1>7. Encoding(tmp_value) \in Seq(Nat) /\ Len(Encoding(tmp_value)) = offset
  BY <1>1, <1>2, EncodingIs
<1>8. SubSeq(bytes, 1, offset) = Encoding(tmp_value)
  BY <1>5, <1>6, <1>7
<1> QED
  BY <1>1, <1>8

\* The buffer begins with the encoding of a number: its digits are the first
\* ones there, and the last of them is where no other one follows.
LEMMA EncodingInBuffer ==
    ASSUME NEW value \in Nat, value < Limit, bytes \in Buffers, BeginsWith(Encoding(value))
    PROVE  LET n == NumDigits(value)
           IN  /\ n \in 1 .. Len(bytes)
               /\ bytes[n] < Base
               /\ \A i \in 1 .. n : bytes[i] % Base = DigitAt(value, i)
               /\ bytes[n] = DigitAt(value, n)
<1> DEFINE n == NumDigits(value)
<1> HIDE DEF n
<1>1. n \in 1 .. Width /\ n \in Nat \ {0}
  BY NumDigitsIs, WidthAssumption DEF n
<1>2. /\ Len(Encoding(value)) = n
      /\ \A i \in 1 .. n :
            /\ DigitAt(value, i) \in 0 .. Base - 1
            /\ Encoding(value)[i] = DigitAt(value, i) + (IF i < n THEN Base ELSE 0)
  BY EncodingIs DEF n
<1>3. bytes \in Seq(0 .. 255) /\ Len(bytes) \in Nat
  BY BytesOfNumber
<1>4. n <= Len(bytes) /\ SubSeq(bytes, 1, n) = Encoding(value)
  BY <1>2 DEF BeginsWith
<1>5. \A i \in 1 .. n : SubSeq(bytes, 1, n)[i] = bytes[i]
  BY <1>1, <1>3, <1>4
<1>6. Base \in Nat \ {0}
  BY BaseAndLimit
<1>7. ASSUME NEW i \in 1 .. n PROVE bytes[i] % Base = DigitAt(value, i)
  <2>1. DigitAt(value, i) \in 0 .. Base - 1
        /\ bytes[i] = DigitAt(value, i) + (IF i < n THEN Base ELSE 0)
    BY <1>2, <1>4, <1>5
  <2> DEFINE d == DigitAt(value, i)
  <2> HIDE DEF d
  <2>2. CASE i < n
    <3>1. d \in 0 .. Base - 1 /\ bytes[i] = Base * 1 + d /\ Base * 1 + d \in Nat
      BY <1>6, <2>1, <2>2 DEF d
    <3> QED
      BY <1>6, <3>1, DivisionIs DEF d
  <2>3. CASE i = n
    <3>1. d \in 0 .. Base - 1 /\ bytes[i] = d
      BY <1>1, <1>6, <2>1, <2>3 DEF d
    <3>2. d % Base = d
      BY <1>6, <3>1
    <3> QED
      BY <3>1, <3>2 DEF d
  <2> QED
    BY <1>1, <2>2, <2>3
<1>8. n \in 1 .. n
  BY <1>1
<1>9. bytes[n] = DigitAt(value, n) /\ DigitAt(value, n) \in 0 .. Base - 1
  BY <1>1, <1>2, <1>4, <1>5, <1>6, <1>8
<1>10. bytes[n] < Base
  BY <1>6, <1>9
<1> QED
  BY <1>1, <1>3, <1>4, <1>7, <1>9, <1>10 DEF n

\* A number is refused only where the buffer begins with none.
LEMMA NumberRefused == NumberInv => RefusedIsNoNumber
<1> SUFFICES ASSUME NumberInv, result = "false",
                    NEW value \in 0 .. Limit - 1, BeginsWith(Encoding(value))
             PROVE  FALSE
  BY DEF RefusedIsNoNumber
<1> DEFINE n == NumDigits(value)
<1> HIDE DEF n
<1>1. /\ bytes \in Buffers /\ offset \in 0 .. Len(bytes) /\ tmp_value \in Nat
      /\ shift = DigitBits * offset
      /\ tmp_value < Power(Base, offset) /\ AllFollowed(1, offset - 1)
      /\ \A i \in 1 .. offset : bytes[i] % Base = DigitAt(tmp_value, i)
      /\ NoMoreDigits \/ tmp_value >= Limit \/ Padded
  BY DEF NumberInv, NumberTypes, DigitsAreRead, ResultIsRight
<1>2. value \in Nat /\ value < Limit /\ Base \in Nat \ {0} /\ Limit \in Nat
  BY BaseAndLimit
<1>3. /\ n \in 1 .. Len(bytes) /\ bytes[n] < Base
      /\ \A i \in 1 .. n : bytes[i] % Base = DigitAt(value, i)
      /\ bytes[n] = DigitAt(value, n)
  BY <1>1, <1>2, EncodingInBuffer DEF n
<1>4. n \in 1 .. Width /\ value < Power(Base, n) /\ (n > 1 => value >= Power(Base, n - 1))
  BY <1>2, NumDigitsIs DEF n, IsNumDigits
<1>5. Len(bytes) \in Nat /\ n \in Nat \ {0} /\ offset \in Nat
  <2>1. Len(bytes) \in Nat
    BY <1>1, BytesOfNumber
  <2> QED
    BY <1>1, <1>3, <2>1
<1>6. bytes[n] \in 0 .. 255
  <2>1. \A i \in 1 .. Len(bytes) : bytes[i] \in 0 .. 255
    BY <1>1, BytesOfNumber
  <2> QED
    BY <1>3, <2>1, Zenon
<1> DEFINE last == bytes[n]
<1>13. last \in 0 .. 255 /\ last < Base
  BY <1>3, <1>6
<1> HIDE DEF last
<1>14. ~(last >= Base)
  BY <1>2, <1>13
<1>7. ~(n \in 1 .. offset - 1)
  <2> SUFFICES ASSUME n \in 1 .. offset - 1 PROVE FALSE
    OBVIOUS
  <2>1. bytes[n] >= Base
    BY <1>1 DEF AllFollowed
  <2> QED
    BY <1>14, <2>1 DEF last
<1>8. offset <= n
  BY <1>5, <1>7
<1>9. tmp_value <= value
  <2>1. \A i \in 1 .. offset : DigitAt(tmp_value, i) = DigitAt(value, i)
    BY <1>1, <1>3, <1>5, <1>8
  <2>2. tmp_value % Power(Base, offset) = value % Power(Base, offset)
    BY <1>1, <1>2, <1>5, <2>1, SameDigits
  <2> DEFINE p == Power(Base, offset)
  <2>3. p \in Nat \ {0}
    BY <1>5, BaseAndLimit
  <2> HIDE DEF p
  <2>4. tmp_value < p /\ tmp_value % p = value % p
    BY <1>1, <2>2 DEF p
  <2>5. tmp_value % p = tmp_value /\ value % p <= value
    BY <1>1, <1>2, <2>3, <2>4
  <2> QED
    BY <2>4, <2>5
<1>10. CASE NoMoreDigits
  <2>1. offset # n
    <3> SUFFICES ASSUME offset = n PROVE FALSE
      OBVIOUS
    <3>1. bytes[n] >= Base
      BY <1>5, <1>10 DEF NoMoreDigits, AllFollowed
    <3> QED
      BY <1>14, <3>1 DEF last
  <2>2. offset < n /\ offset < Len(bytes) /\ shift >= Width
    BY <1>3, <1>5, <1>8, <1>10, <2>1 DEF NoMoreDigits
  <2>3. Limit <= Power(Base, offset)
    <3>1. Power(2, Width) <= Power(2, shift)
      BY <1>1, <1>5, <2>2, WidthAssumption, PowerOrder
    <3>2. Power(Base, offset) = Power(2, shift)
      BY <1>1, <1>5, BaseAndLimit
    <3> QED
      BY <3>1, <3>2 DEF Limit
  <2>4. offset # 0
    BY <1>1, <2>2, WidthAssumption
  <2>5. n > 1 /\ n - 1 \in Nat /\ offset <= n - 1
    BY <1>5, <2>2, <2>4
  <2>6. Power(Base, offset) <= Power(Base, n - 1)
    BY <1>2, <1>5, <2>5, PowerOrder
  <2>7. Power(Base, offset) \in Nat /\ Power(Base, n - 1) \in Nat
    BY <1>5, <2>5, BaseAndLimit
  <2>8. value >= Power(Base, n - 1)
    BY <1>4, <2>5
  <2> QED
    BY <1>2, <2>3, <2>6, <2>7, <2>8
<1>11. CASE tmp_value >= Limit
  BY <1>1, <1>2, <1>9, <1>11
<1>12. CASE Padded
  <2>1. offset > 1 /\ bytes[offset] = 0
    BY <1>12 DEF Padded
  <2>2. n = offset
    <3> SUFFICES ASSUME n # offset PROVE FALSE
      OBVIOUS
    <3>1. offset \in 1 .. n
      BY <1>5, <1>8, <2>1
    <3>2. offset < n /\ offset \in 1 .. Len(bytes)
      BY <1>1, <1>5, <1>8, <2>1
    <3>3. Encoding(value)[offset] = DigitAt(value, offset) + Base /\ DigitAt(value, offset) \in Nat
      BY <1>2, <3>1, <3>2, EncodingIs DEF n
    <3>4. Len(Encoding(value)) = n
      BY <1>2, EncodingIs DEF n
    <3>5. SubSeq(bytes, 1, n) = Encoding(value)
      BY <3>4 DEF BeginsWith
    <3>6. SubSeq(bytes, 1, n)[offset] = bytes[offset]
      <4>1. bytes \in Seq(0 .. 255)
        BY <1>1, BytesOfNumber
      <4> QED
        BY <1>3, <1>5, <3>1, <4>1
    <3>7. 0 = DigitAt(value, offset) + Base
      BY <2>1, <3>3, <3>5, <3>6, Zenon
    <3> QED
      BY <1>2, <3>3, <3>7
  <2>3. n > 1 /\ n - 1 \in Nat
    BY <1>5, <2>1, <2>2
  <2> DEFINE p == Power(Base, n - 1)
  <2>4. p \in Nat \ {0} /\ Power(Base, n) = Base * p
    <3>1. (n - 1) + 1 = n
      BY <1>5
    <3> QED
      BY <2>3, <3>1, BaseAndLimit
  <2>5. (value \div p) % Base = 0
    BY <1>3, <2>1, <2>2 DEF DigitAt
  <2>6. value >= p /\ value < Base * p
    BY <1>4, <2>3, <2>4
  <2> HIDE DEF p
  <2> DEFINE q == value \div p
  <2>7. value = p * q + (value % p) /\ value % p \in 0 .. p - 1 /\ q \in Nat
    BY <1>2, <2>4, Division
  <2> HIDE DEF q
  <2>8. q # 0
    BY <2>4, <2>6, <2>7
  <2>9. q < Base
    <3> SUFFICES ASSUME q >= Base PROVE FALSE
      BY <1>2, <2>7
    <3>1. p * q >= Base * p
      BY <1>2, <2>4, <2>7
    <3>2. p * q \in Nat /\ Base * p \in Nat
      BY <1>2, <2>4, <2>7
    <3> QED
      BY <1>2, <2>4, <2>6, <2>7, <3>1, <3>2
  <2>10. q % Base = q
    BY <1>2, <2>7, <2>9
  <2> QED
    BY <2>5, <2>8, <2>10 DEF q
<1> QED
  BY <1>1, <1>10, <1>11, <1>12

-----------------------------------------------------------------------------
(* The call *)

\* The bytes behind the length, as many as it says.
Content == SubSeq(bytes, offset + 1, offset + str_len)

CallTypes ==
    /\ call \in {"string", "bytes"}
    /\ out_size \in Nat
    /\ out \in Seq(0 .. 255) /\ Len(out) <= out_size
    /\ in \in Nat /\ taken \in Nat
    /\ read \in {"length", "text", "true", "no length", "too long", "no room", "not UTF-8"}

\* The content is looked at when its length is read and the buffer has it.
ContentIsThere == result = "true" /\ in <= str_len /\ str_len <= Len(bytes) - offset

\* The phases of a call: nothing is converted before the length is accepted,
\* and a reason to fail stands until the end.
PhaseIsRight ==
    /\ read = "length" => out = << >> /\ in = 0
    /\ read # "true" => taken = 0
    /\ in # 0 \/ read \in {"text", "true", "not UTF-8"} => ContentIsThere
    /\ read \in {"text", "not UTF-8"} => call = "string"
    /\ read = "true" => taken = str_len
    /\ read = "true" /\ call = "bytes" => out = Content
    /\ read = "no room" /\ call = "bytes" => str_len > out_size
    /\ read = "no room" /\ call = "string" => ContentIsThere /\ in < str_len
    /\ read = "too long" => str_len > MAX_SEQUENCE_LENGTH \/ offset + str_len > Len(bytes)

CallInv == NumberInv /\ CallTypes /\ PhaseIsRight

\* The numbers of a call are numbers, and the content is bytes of the buffer.
LEMMA CallNumbers ==
    ASSUME NumberInv
    PROVE  /\ bytes \in Seq(0 .. 255) /\ Len(bytes) \in Nat
           /\ \A i \in 1 .. Len(bytes) : bytes[i] \in 0 .. 255
           /\ offset \in Nat /\ offset <= Len(bytes) /\ str_len \in Nat
           /\ MAX_SEQUENCE_LENGTH \in Nat
<1>1. bytes \in Buffers /\ offset \in 0 .. Len(bytes) /\ str_len \in Nat
  BY DEF NumberInv, NumberTypes, str_len
<1>2. /\ bytes \in Seq(0 .. 255) /\ Len(bytes) \in Nat
      /\ \A i \in 1 .. Len(bytes) : bytes[i] \in 0 .. 255
  BY <1>1, BytesOfNumber
<1>3. MAX_SEQUENCE_LENGTH \in Nat
  BY StringAssumption
<1> QED
  BY <1>1, <1>2, <1>3

\* The bytes that are announced, if the buffer has them.
LEMMA ContentIs ==
    ASSUME NumberInv, str_len <= Len(bytes) - offset
    PROVE  /\ Content \in Seq(0 .. 255) /\ Len(Content) = str_len
           /\ \A i \in 1 .. str_len : Content[i] = bytes[offset + i] /\ bytes[offset + i] \in 0 .. 255
<1>1. /\ bytes \in Seq(0 .. 255) /\ Len(bytes) \in Nat /\ offset \in Nat /\ str_len \in Nat
      /\ \A i \in 1 .. Len(bytes) : bytes[i] \in 0 .. 255
  BY CallNumbers
<1>2. offset + str_len <= Len(bytes)
  BY <1>1
<1>3. Content \in Seq(0 .. 255) /\ Len(Content) = str_len
  <2>1. \A i \in offset + 1 .. offset + str_len : bytes[i] \in 0 .. 255
    <3>1. offset + 1 .. offset + str_len \subseteq 1 .. Len(bytes)
      BY <1>1, <1>2
    <3> QED
      BY <1>1, <3>1, Zenon
  <2>2. Content \in Seq(0 .. 255)
    BY <1>1, <2>1, SubSeqProperties DEF Content
  <2>3. Len(Content) = str_len
    BY <1>1, <1>2 DEF Content
  <2> QED
    BY <2>2, <2>3
<1>4. ASSUME NEW i \in 1 .. str_len
      PROVE  Content[i] = bytes[offset + i] /\ bytes[offset + i] \in 0 .. 255
  <2>1. offset + i \in 1 .. Len(bytes) /\ (offset + 1) + i - 1 = offset + i
    BY <1>1, <1>2
  <2>2. bytes[offset + i] \in 0 .. 255
    BY <1>1, <2>1, Zenon
  <2>3. Content[i] = bytes[offset + i]
    BY <1>1, <1>2, <2>1 DEF Content
  <2> QED
    BY <2>2, <2>3
<1> QED
  BY <1>3, <1>4

\* The length that the first byte of a character announces, byte by byte.
LEMMA CharLenIs ==
    ASSUME Byte1 \in 0 .. 255
    PROVE  /\ Byte1 \in 0 .. 127 => CharLen = 1
           /\ Byte1 \in 128 .. 191 => CharLen = 0
           /\ Byte1 \in 192 .. 223 => CharLen = 2
           /\ Byte1 \in 224 .. 239 => CharLen = 3
           /\ Byte1 \in 240 .. 247 => CharLen = 4
           /\ Byte1 \in 248 .. 255 => CharLen = 0
<1> DEFINE a == Byte1
<1> HIDE DEF a
<1>1. a \in 0 .. 255
  BY DEF a
<1>2. CASE a \in 0 .. 127
  <2>1. a < 128 /\ a \div 32 # 6 /\ a \div 16 # 14 /\ a \div 8 # 30
    BY <1>2
  <2>2. CharLen = 1
    BY <2>1, Zenon DEF CharLen, a
  <2> QED
    BY <1>2, <2>2 DEF a
<1>3. CASE a \in 128 .. 191
  <2>1. ~(a < 128) /\ a \div 32 # 6 /\ a \div 16 # 14 /\ a \div 8 # 30
    BY <1>3
  <2>2. CharLen = 0
    BY <2>1, Zenon DEF CharLen, a
  <2> QED
    BY <1>3, <2>2 DEF a
<1>4. CASE a \in 192 .. 223
  <2>1. ~(a < 128) /\ a \div 32 = 6 /\ a \div 16 # 14 /\ a \div 8 # 30
    BY <1>4
  <2>2. CharLen = 2
    BY <2>1, Zenon DEF CharLen, a
  <2> QED
    BY <1>4, <2>2 DEF a
<1>5. CASE a \in 224 .. 239
  <2>1. ~(a < 128) /\ a \div 32 # 6 /\ a \div 16 = 14 /\ a \div 8 # 30
    BY <1>5
  <2>2. CharLen = 3
    BY <2>1, Zenon DEF CharLen, a
  <2> QED
    BY <1>5, <2>2 DEF a
<1>6. CASE a \in 240 .. 247
  <2>1. ~(a < 128) /\ a \div 32 # 6 /\ a \div 16 # 14 /\ a \div 8 = 30
    BY <1>6
  <2>2. CharLen = 4
    BY <2>1, Zenon DEF CharLen, a
  <2> QED
    BY <1>6, <2>2 DEF a
<1>7. CASE a \in 248 .. 255
  <2>1. ~(a < 128) /\ a \div 32 # 6 /\ a \div 16 # 14 /\ a \div 8 # 30
    BY <1>7
  <2>2. CharLen = 0
    BY <2>1, Zenon DEF CharLen, a
  <2> QED
    BY <1>7, <2>2 DEF a
<1> QED
  BY <1>1, <1>2, <1>3, <1>4, <1>5, <1>6, <1>7

\* While the conversion goes on it looks at bytes of the content.
LEMMA ConvertingBytes ==
    ASSUME CallInv, Converting
    PROVE  /\ ContentIsThere /\ call = "string" /\ taken = 0
           /\ Byte1 \in 0 .. 255 /\ CharLen \in 0 .. 4
<1>1. ContentIsThere /\ call = "string" /\ taken = 0 /\ in \in Nat /\ in < str_len
  BY DEF CallInv, CallTypes, PhaseIsRight, Converting
<1>2. \A i \in 1 .. str_len : bytes[offset + i] \in 0 .. 255
  BY <1>1, ContentIs DEF CallInv, ContentIsThere
<1>3. str_len \in Nat /\ offset \in Nat
  BY CallNumbers DEF CallInv
<1>4. Byte1 \in 0 .. 255
  <2>1. in + 1 \in 1 .. str_len /\ offset + (in + 1) = offset + in + 1
    BY <1>1, <1>3
  <2>2. bytes[offset + (in + 1)] \in 0 .. 255
    BY <1>2, <2>1, Zenon
  <2> QED
    BY <2>1, <2>2 DEF Byte1
<1>5. CharLen \in 0 .. 4
  BY <1>4, CharLenIs
<1> QED
  BY <1>1, <1>4, <1>5

\* A call begins with its parameters and nothing read.
LEMMA CallInit == StringInit => CallTypes /\ PhaseIsRight
<1> SUFFICES ASSUME StringInit PROVE CallTypes /\ PhaseIsRight
  OBVIOUS
<1> USE DEF StringInit
<1>1. out_size \in Nat
  BY StringAssumption
<1>2. out \in Seq(0 .. 255) /\ Len(out) = 0
  OBVIOUS
<1>3. CallTypes
  BY <1>1, <1>2 DEF CallTypes
<1>4. PhaseIsRight
  BY DEF PhaseIsRight
<1> QED
  BY <1>3, <1>4

\* The steps that leave the number alone.
LEMMA ReadLengthKeepsCall == CallInv /\ ReadLength => CallTypes' /\ PhaseIsRight'
<1> SUFFICES ASSUME CallInv, ReadLength PROVE CallTypes' /\ PhaseIsRight'
  OBVIOUS
<1>1. read = "length" /\ UNCHANGED <<call, out_size, out, in, taken, read>>
  BY DEF ReadLength, stringVars
<1>2. CallTypes'
  BY <1>1 DEF CallInv, CallTypes
<1>3. PhaseIsRight'
  BY <1>1 DEF CallInv, PhaseIsRight
<1> QED
  BY <1>2, <1>3

\* An error ends the call and says which.
LEMMA FailKeepsCall ==
    ASSUME CallInv, NEW reason, Fail(reason),
           reason \in {"no length", "too long", "no room", "not UTF-8"},
           read \in {"length", "text"},
           reason = "not UTF-8" => read = "text",
           reason = "no room" /\ read = "length" => call = "bytes" /\ str_len > out_size,
           reason = "no room" /\ read = "text" => in < str_len,
           reason = "too long" => str_len > MAX_SEQUENCE_LENGTH \/ offset + str_len > Len(bytes)
    PROVE  CallTypes' /\ PhaseIsRight'
<1>1. /\ read' = reason
      /\ UNCHANGED <<bytes, offset, shift, tmp_value, result, call, out_size, out, in, taken>>
  BY DEF Fail, vars
<1>2. CallTypes'
  BY <1>1 DEF CallInv, CallTypes
<1>3. ContentIsThere' <=> ContentIsThere
  BY <1>1 DEF ContentIsThere, str_len
<1>4. str_len' = str_len
  BY <1>1 DEF str_len
<1>5. in # 0 \/ read = "text" => ContentIsThere
  BY DEF CallInv, PhaseIsRight
<1>6. read = "text" => call = "string"
  BY DEF CallInv, PhaseIsRight
<1>7. taken = 0
  BY DEF CallInv, PhaseIsRight
<1>8. PhaseIsRight'
  BY <1>1, <1>3, <1>4, <1>5, <1>6, <1>7 DEF PhaseIsRight
<1> QED
  BY <1>2, <1>8

\* A length that is accepted begins the content, or ends a read of bytes.
LEMMA AcceptedKeepsCall == CallInv /\ LengthAccepted => CallTypes' /\ PhaseIsRight'
<1> SUFFICES ASSUME CallInv, LengthAccepted PROVE CallTypes' /\ PhaseIsRight'
  OBVIOUS
<1>1. /\ read = "length" /\ result = "true" /\ str_len <= Len(bytes) - offset
      /\ call = "bytes" => str_len <= out_size
      /\ UNCHANGED <<bytes, offset, shift, tmp_value, result, call, out_size>>
      /\ in = 0 /\ taken = 0 /\ str_len \in Nat /\ NumberInv
  BY CallNumbers DEF LengthAccepted, CallInv, PhaseIsRight, CanRead, vars
<1>2. str_len' = str_len /\ Content' = Content
  BY <1>1 DEF str_len, Content
<1>3. CASE call = "bytes"
  <2>1. out' = Content /\ in' = str_len /\ taken' = str_len /\ read' = "true"
    BY <1>3 DEF LengthAccepted, Content
  <2>2. Content \in Seq(0 .. 255) /\ Len(Content) = str_len
    BY <1>1, ContentIs
  <2>3. ContentIsThere'
    BY <1>1, <1>2, <2>1 DEF ContentIsThere
  <2>4. CallTypes'
    BY <1>1, <1>3, <2>1, <2>2 DEF CallInv, CallTypes
  <2>5. PhaseIsRight'
    BY <1>1, <1>2, <1>3, <2>1, <2>3 DEF PhaseIsRight
  <2> QED
    BY <2>4, <2>5
<1>4. CASE call # "bytes"
  <2>1. read' = "text" /\ UNCHANGED <<out, in, taken>>
    BY <1>4 DEF LengthAccepted
  <2>2. call = "string"
    BY <1>4 DEF CallInv, CallTypes
  <2>3. ContentIsThere'
    BY <1>1, <1>2, <2>1 DEF ContentIsThere
  <2>4. CallTypes'
    BY <1>1, <2>1 DEF CallInv, CallTypes
  <2>5. PhaseIsRight'
    BY <1>1, <1>2, <2>1, <2>2, <2>3 DEF PhaseIsRight
  <2> QED
    BY <2>4, <2>5
<1> QED
  BY <1>3, <1>4

\* A character moves the read on, and takes one byte of the result.
LEMMA TakeCharKeepsCall == CallInv /\ TakeChar => CallTypes' /\ PhaseIsRight'
<1> SUFFICES ASSUME CallInv, TakeChar PROVE CallTypes' /\ PhaseIsRight'
  OBVIOUS
<1> DEFINE char == IF CharLen = 1 THEN Byte1 ELSE UnknownChar
<1>1. /\ Converting /\ in + CharLen <= str_len /\ Len(out) < out_size
      /\ out' = Append(out, char) /\ in' = in + CharLen
      /\ UNCHANGED <<bytes, offset, shift, tmp_value, result, call, out_size, taken, read>>
  BY DEF TakeChar, IsChar, HasRoom, vars
<1>2. /\ ContentIsThere /\ call = "string" /\ taken = 0 /\ read = "text"
      /\ Byte1 \in 0 .. 255 /\ CharLen \in Nat
  BY <1>1, ConvertingBytes DEF Converting
<1>3. char \in 0 .. 255
  BY <1>2 DEF UnknownChar
<1> HIDE DEF char
<1>4. out \in Seq(0 .. 255) /\ out_size \in Nat /\ in \in Nat
  BY DEF CallInv, CallTypes
<1>5. out' \in Seq(0 .. 255) /\ Len(out') = Len(out) + 1 /\ Len(out) \in Nat
  BY <1>1, <1>3, <1>4
<1>6. CallTypes'
  BY <1>1, <1>2, <1>4, <1>5 DEF CallInv, CallTypes
<1>7. str_len' = str_len
  BY <1>1 DEF str_len
<1>8. ContentIsThere'
  BY <1>1, <1>2, <1>7 DEF ContentIsThere
<1>9. PhaseIsRight'
  BY <1>1, <1>2, <1>7, <1>8 DEF PhaseIsRight
<1> QED
  BY <1>6, <1>9

\* The content is read to its end.
LEMMA EndStringKeepsCall == CallInv /\ EndString => CallTypes' /\ PhaseIsRight'
<1> SUFFICES ASSUME CallInv, EndString PROVE CallTypes' /\ PhaseIsRight'
  OBVIOUS
<1>1. /\ read = "text" /\ read' = "true" /\ taken' = str_len
      /\ UNCHANGED <<bytes, offset, shift, tmp_value, result, call, out_size, out, in>>
  BY DEF EndString, vars
<1>2. str_len' = str_len /\ str_len \in Nat
  BY <1>1, CallNumbers DEF str_len, CallInv
<1>3. CallTypes'
  BY <1>1, <1>2 DEF CallInv, CallTypes
<1>4. ContentIsThere'
  BY <1>1, <1>2 DEF CallInv, PhaseIsRight, ContentIsThere
<1>5. call = "string"
  BY <1>1 DEF CallInv, PhaseIsRight
<1>6. PhaseIsRight'
  BY <1>1, <1>2, <1>4, <1>5 DEF PhaseIsRight
<1> QED
  BY <1>3, <1>6

\* Every step of the call is one of these.
LEMMA CallStep == CallInv /\ [StringNext]_<<vars, stringVars>> => CallTypes' /\ PhaseIsRight'
<1> SUFFICES ASSUME CallInv, [StringNext]_<<vars, stringVars>>
             PROVE  CallTypes' /\ PhaseIsRight'
  OBVIOUS
<1>1. CASE NoLength
  BY <1>1, FailKeepsCall DEF NoLength
<1>2. CASE LengthRefused
  <2>1. /\ read = "length" /\ Fail(IF call = "bytes" /\ str_len <= MAX_SEQUENCE_LENGTH
                                      /\ str_len > out_size THEN "no room" ELSE "too long")
        /\ \/ str_len > MAX_SEQUENCE_LENGTH
           \/ call = "bytes" /\ str_len > out_size
           \/ ~(str_len <= Len(bytes) - offset)
    BY <1>2 DEF LengthRefused, CanRead
  <2>2. CASE call = "bytes" /\ str_len <= MAX_SEQUENCE_LENGTH /\ str_len > out_size
    <3>1. Fail("no room")
      BY <2>1, <2>2
    <3> QED
      BY <2>1, <2>2, <3>1, FailKeepsCall
  <2>3. CASE ~(call = "bytes" /\ str_len <= MAX_SEQUENCE_LENGTH /\ str_len > out_size)
    <3>1. Fail("too long")
      BY <2>1, <2>3
    <3>2. str_len > MAX_SEQUENCE_LENGTH \/ offset + str_len > Len(bytes)
      <4>1. /\ str_len \in Nat /\ MAX_SEQUENCE_LENGTH \in Nat
            /\ Len(bytes) \in Nat /\ offset \in Nat /\ out_size \in Nat
        BY CallNumbers DEF CallInv, CallTypes
      <4>2. ASSUME call = "bytes", str_len > out_size PROVE str_len > MAX_SEQUENCE_LENGTH
        <5>1. ~(str_len <= MAX_SEQUENCE_LENGTH)
          BY <2>3, <4>2, Zenon
        <5> QED
          BY <4>1, <5>1
      <4>3. ASSUME ~(str_len <= Len(bytes) - offset) PROVE offset + str_len > Len(bytes)
        BY <4>1, <4>3
      <4> QED
        BY <2>1, <4>2, <4>3, Zenon
    <3> QED
      BY <2>1, <3>1, <3>2, FailKeepsCall
  <2> QED
    BY <2>2, <2>3
<1>3. CASE NoRoom
  <2>1. Fail("no room") /\ read = "text" /\ in < str_len
    BY <1>3 DEF NoRoom, Converting
  <2> QED
    BY <2>1, FailKeepsCall
<1>4. CASE NoChar
  <2>1. Fail("not UTF-8") /\ read = "text"
    BY <1>4 DEF NoChar, Converting
  <2> QED
    BY <2>1, FailKeepsCall
<1>5. CASE UNCHANGED <<vars, stringVars>>
  <2>1. UNCHANGED <<bytes, offset, shift, tmp_value, result, call, out_size, out, in, taken, read>>
    BY <1>5 DEF vars, stringVars
  <2>2. str_len' = str_len /\ Content' = Content /\ ContentIsThere' = ContentIsThere
    BY <2>1 DEF str_len, Content, ContentIsThere
  <2>3. CallTypes'
    BY <2>1 DEF CallInv, CallTypes
  <2>4. PhaseIsRight'
    BY <2>1, <2>2 DEF CallInv, PhaseIsRight
  <2> QED
    BY <2>3, <2>4
<1> QED
  BY <1>1, <1>2, <1>3, <1>4, <1>5, ReadLengthKeepsCall, AcceptedKeepsCall, TakeCharKeepsCall,
     EndStringKeepsCall DEF StringNext

\* A call keeps its types and reads inside its buffer, and its error is one that
\* its state explains (bcs_read_string).
THEOREM CallInvariant == StringSpec => []CallInv
<1>1. StringInit => CallInv
  BY NumberInit, CallInit DEF CallInv
<1>2. CallInv /\ [StringNext]_<<vars, stringVars>> => CallInv'
  BY NumberStep, CallStep DEF CallInv
<1> QED
  BY <1>1, <1>2, PTL DEF StringSpec

-----------------------------------------------------------------------------
(* Numbers, bytes and types *)

\* A number that is read is in range and in its one encoding
\* (bcs_read_u32_from_uleb128), whatever the buffer.
THEOREM NumbersAreCanonical == StringSpec => []AcceptedIsCanonical
<1>1. NumberInv => AcceptedIsCanonical
  BY NumberAccepted
<1> QED
  BY <1>1, NumberInvariant, PTL

\* A number is refused only if the buffer begins with no encoding of one.
THEOREM OnlyNoNumberIsRefused == StringSpec => []RefusedIsNoNumber
<1>1. NumberInv => RefusedIsNoNumber
  BY NumberRefused
<1> QED
  BY <1>1, NumberInvariant, PTL

\* A call keeps its types, takes nothing behind the string and does not
\* outgrow its result.
THEOREM StringTypeCorrect == StringSpec => []StringTypeOK
<1>1. CallInv => StringTypeOK
  <2> SUFFICES ASSUME CallInv PROVE StringTypeOK
    OBVIOUS
  <2>1. /\ offset \in 0 .. Len(bytes) /\ offset \in Nat /\ Len(bytes) \in Nat
        /\ str_len \in Nat /\ in \in Nat /\ taken \in Nat
    BY CallNumbers DEF CallInv, NumberInv, NumberTypes, CallTypes
  <2>2. TypeOK
    <3>1. tmp_value \in Nat /\ tmp_value < Limit * Base /\ Limit * Base \in Nat
      BY BaseAndLimit DEF CallInv, NumberInv, NumberTypes
    <3>2. tmp_value \in 0 .. Limit * Base - 1
      BY <3>1
    <3> QED
      BY <2>1, <3>2 DEF TypeOK, CallInv, NumberInv, NumberTypes, ResultIsRight
  <2>3. in # 0 \/ taken # 0 => ContentIsThere
    BY DEF CallInv, PhaseIsRight
  <2>4. taken # 0 => taken = str_len
    BY DEF CallInv, PhaseIsRight
  <2>5. offset + in <= Len(bytes) /\ offset + taken <= Len(bytes)
    BY <2>1, <2>3, <2>4 DEF ContentIsThere
  <2>6. in <= str_len
    BY <2>1, <2>3 DEF ContentIsThere
  <2> QED
    BY <2>2, <2>5, <2>6 DEF StringTypeOK, CallInv, CallTypes
<1> QED
  BY <1>1, CallInvariant, PTL

\* Bytes are copied as they are, and are refused only if they do not fit
\* (bcs_read_dynamic_bytes).
THEOREM BytesReadAreThere == StringSpec => []BytesAreCopied
<1>1. CallInv => BytesAreCopied
  <2> SUFFICES ASSUME CallInv, call = "bytes"
               PROVE  /\ Accepted => /\ out = Text /\ Len(out) = str_len
                                     /\ BeginsWith(Encoding(Len(out)))
                      /\ read = "no room" => str_len > out_size
                      /\ read = "too long" =>
                            str_len > MAX_SEQUENCE_LENGTH \/ offset + str_len > Len(bytes)
    BY DEF BytesAreCopied
  <2>1. ASSUME Accepted
        PROVE  out = Text /\ Len(out) = str_len /\ BeginsWith(Encoding(Len(out)))
    <3>1. out = Content /\ taken = str_len /\ ContentIsThere /\ NumberInv
      BY <2>1 DEF Accepted, CallInv, PhaseIsRight
    <3>2. Len(Content) = str_len /\ Text = Content
      BY <3>1, ContentIs DEF Text, Content, ContentIsThere
    <3>3. SubSeq(bytes, 1, offset) = Encoding(str_len)
      BY <3>1, NumberAccepted DEF AcceptedIsCanonical, ContentIsThere, str_len
    <3>4. Len(SubSeq(bytes, 1, offset)) = offset /\ offset <= Len(bytes)
      BY <3>1, CallNumbers
    <3>5. BeginsWith(Encoding(str_len))
      BY <3>3, <3>4 DEF BeginsWith
    <3> QED
      BY <3>1, <3>2, <3>5
  <2> QED
    BY <2>1 DEF CallInv, PhaseIsRight
<1> QED
  BY <1>1, CallInvariant, PTL

-----------------------------------------------------------------------------
(* Characters *)

\* The bytes that continue a character.
LEMMA ContinuesIs ==
    ASSUME NEW byte \in 0 .. 255
    PROVE  Continues(byte) <=> byte \in 128 .. 191
BY DEF Continues

\* The bytes that begin a character, by its length.
LEMMA LeadIs ==
    Lead(1) = 0 .. 127 /\ Lead(2) = 192 .. 223 /\ Lead(3) = 224 .. 239 /\ Lead(4) = 240 .. 247
<1>1. 1 # 2 /\ 1 # 3 /\ 1 # 4 /\ 2 # 3 /\ 2 # 4 /\ 3 # 4
  OBVIOUS
<1> QED
  BY <1>1, Zenon DEF Lead

\* The number of a character, from the bits of its bytes.
LEMMA CodePointIs ==
    ASSUME NEW s
    PROVE  /\ Len(s) = 1 => CodePoint(s) = s[1]
           /\ Len(s) = 2 => CodePoint(s) = (s[1] % 32) * 64 + Tail6(s[2])
           /\ Len(s) = 3 => CodePoint(s) = ((s[1] % 16) * 64 + Tail6(s[2])) * 64 + Tail6(s[3])
           /\ Len(s) = 4 => CodePoint(s) = 
                (((s[1] % 8) * 64 + Tail6(s[2])) * 64 + Tail6(s[3])) * 64 + Tail6(s[4])
<1>1. 1 # 2 /\ 1 # 3 /\ 1 # 4 /\ 2 # 3 /\ 2 # 4 /\ 3 # 4
  OBVIOUS
<1>2. Len(s) = 1 => CodePoint(s) = s[1]
  BY <1>1, Zenon DEF CodePoint
<1>3. Len(s) = 2 => CodePoint(s) = (s[1] % 32) * 64 + Tail6(s[2])
  BY <1>1, Zenon DEF CodePoint
<1>4. Len(s) = 3 => CodePoint(s) = ((s[1] % 16) * 64 + Tail6(s[2])) * 64 + Tail6(s[3])
  BY <1>1, Zenon DEF CodePoint
<1>5. Len(s) = 4 => CodePoint(s) = 
        (((s[1] % 8) * 64 + Tail6(s[2])) * 64 + Tail6(s[3])) * 64 + Tail6(s[4])
  BY <1>1, Zenon DEF CodePoint
<1> QED
  BY <1>2, <1>3, <1>4, <1>5

\* Which numbers the sequences of each length have, and which of those are
\* characters in their shortest form.
LEMMA OneByte ==
    ASSUME NEW a \in 0 .. 127
    PROVE  IsScalar(a) /\ Needs(a) = 1
BY SMT DEF IsScalar, Needs

\* A character of two bytes is the shortest form unless its bits fit seven.
LEMMA TwoBytes ==
    ASSUME NEW a \in 192 .. 223, NEW b \in 128 .. 191, NEW n, n = (a % 32) * 64 + Tail6(b)
    PROVE  IsScalar(n) /\ Needs(n) = 2 <=> a \div 2 # 96
<1>1. a % 32 = a - 192 /\ Tail6(b) = b - 128
  BY SMT DEF Tail6
<1>2. n = (a - 192) * 64 + (b - 128)
  BY <1>1, SMT
<1>3. n \in Nat /\ n < 2048
  BY <1>2, SMT
<1>4. IsScalar(n)
  BY <1>3, SMT DEF IsScalar
<1>5. Needs(n) = 2 <=> n >= 128
  BY <1>3, SMT DEF Needs
<1>6. n >= 128 <=> a \div 2 # 96
  BY <1>2, SMT
<1> QED
  BY <1>4, <1>5, <1>6

\* Of each length: when the bytes are a character, told by their values alone.
LEMMA EncodesOne ==
    ASSUME NEW s, Len(s) = 1
    PROVE  EncodesChar(s) <=> s[1] \in 0 .. 127
<1>1. CodePoint(s) = s[1] /\ Lead(Len(s)) = 0 .. 127
  BY CodePointIs, LeadIs
<1>2. s[1] \in 0 .. 127 => IsScalar(CodePoint(s)) /\ Needs(CodePoint(s)) = 1
  BY <1>1, OneByte
<1> QED
  BY <1>1, <1>2 DEF EncodesChar

\* Two bytes.
LEMMA EncodesTwo ==
    ASSUME NEW s, Len(s) = 2
    PROVE  EncodesChar(s) <=> s[1] \in 192 .. 223 /\ s[2] \in 128 .. 191 /\ s[1] \div 2 # 96
<1>1. CodePoint(s) = (s[1] % 32) * 64 + Tail6(s[2]) /\ Lead(Len(s)) = 192 .. 223
  BY CodePointIs, LeadIs
<1>2. s[1] \in 192 .. 223 /\ s[2] \in 128 .. 191 =>
        (IsScalar(CodePoint(s)) /\ Needs(CodePoint(s)) = 2 <=> s[1] \div 2 # 96)
  BY <1>1, TwoBytes
<1>3. EncodesChar(s) <=> /\ s[1] \in 192 .. 223 /\ s[2] \in 128 .. 191
                         /\ IsScalar(CodePoint(s)) /\ Needs(CodePoint(s)) = 2
  BY <1>1 DEF EncodesChar
<1> QED
  BY <1>2, <1>3, Zenon

\* Three bytes.
LEMMA EncodesThree ==
    ASSUME NEW s, Len(s) = 3
    PROVE  EncodesChar(s) <=>
                /\ s[1] \in 224 .. 239 /\ s[2] \in 128 .. 191 /\ s[3] \in 128 .. 191
                /\ ~(s[1] = 224 /\ s[2] \div 32 = 4)
                /\ ~(s[1] = 237 /\ s[2] \div 32 = 5)
                /\ ~(s[1] = 239 /\ s[2] = 191 /\ s[3] \div 2 = 95)
<1>1. /\ CodePoint(s) = ((s[1] % 16) * 64 + Tail6(s[2])) * 64 + Tail6(s[3])
      /\ Lead(Len(s)) = 224 .. 239
  BY CodePointIs, LeadIs
<1>2. s[1] \in 224 .. 239 /\ s[2] \in 128 .. 191 /\ s[3] \in 128 .. 191 =>
        (IsScalar(CodePoint(s)) /\ Needs(CodePoint(s)) = 3 <=>
            /\ ~(s[1] = 224 /\ s[2] \div 32 = 4)
            /\ ~(s[1] = 237 /\ s[2] \div 32 = 5)
            /\ ~(s[1] = 239 /\ s[2] = 191 /\ s[3] \div 2 = 95))
  <2> HAVE s[1] \in 224 .. 239 /\ s[2] \in 128 .. 191 /\ s[3] \in 128 .. 191
  <2>1. PICK a \in 224 .. 239 : a = s[1]
    OBVIOUS
  <2>2. PICK b \in 128 .. 191 : b = s[2]
    OBVIOUS
  <2>3. PICK c \in 128 .. 191 : c = s[3]
    OBVIOUS
  <2>4. PICK n : n = CodePoint(s)
    OBVIOUS
  <2>5. n = ((a % 16) * 64 + Tail6(b)) * 64 + Tail6(c)
    BY <1>1, <2>1, <2>2, <2>3, <2>4
  <2>6. IsScalar(n) /\ Needs(n) = 3 <=>
            /\ ~(a = 224 /\ b \div 32 = 4)
            /\ ~(a = 237 /\ b \div 32 = 5)
            /\ ~(a = 239 /\ b = 191 /\ c \div 2 = 95)
    <3>1. a % 16 = a - 224 /\ Tail6(b) = b - 128 /\ Tail6(c) = c - 128
      BY SMT DEF Tail6
    <3>2. n = ((a - 224) * 64 + (b - 128)) * 64 + (c - 128)
      BY <2>5, <3>1, SMT
    <3>3. n \in Nat /\ n < 65536
      BY <3>2, SMT
    <3>4. Needs(n) = 3 <=> n >= 2048
      BY <3>3, SMT DEF Needs
    <3>5. n >= 2048 <=> ~(a = 224 /\ b \div 32 = 4)
      BY <3>2, SMT
    <3>6. (55296 <= n /\ n <= 57343) <=> (a = 237 /\ b \div 32 = 5)
      BY <3>2, SMT
    <3>7. n \in {65534, 65535} <=> (a = 239 /\ b = 191 /\ c \div 2 = 95)
      BY <3>2, SMT
    <3>8. IsScalar(n) <=> ~(55296 <= n /\ n <= 57343) /\ n \notin {65534, 65535}
      BY <3>3, SMT DEF IsScalar
    <3> QED
      BY <3>4, <3>5, <3>6, <3>7, <3>8, SMT
  <2> QED
    BY <2>1, <2>2, <2>3, <2>4, <2>6, Zenon
<1>3. EncodesChar(s) <=> /\ s[1] \in 224 .. 239 /\ s[2] \in 128 .. 191 /\ s[3] \in 128 .. 191
                         /\ IsScalar(CodePoint(s)) /\ Needs(CodePoint(s)) = 3
  BY <1>1 DEF EncodesChar
<1> QED
  BY <1>2, <1>3, Zenon

\* Four bytes.
LEMMA EncodesFour ==
    ASSUME NEW s, Len(s) = 4
    PROVE  EncodesChar(s) <=>
                /\ s[1] \in 240 .. 247 /\ s[2] \in 128 .. 191
                /\ s[3] \in 128 .. 191 /\ s[4] \in 128 .. 191
                /\ ~(s[1] = 240 /\ s[2] \div 16 = 8)
                /\ ~(s[1] > 244 \/ (s[1] = 244 /\ s[2] > 143))
<1>1. /\ CodePoint(s) = (((s[1] % 8) * 64 + Tail6(s[2])) * 64 + Tail6(s[3])) * 64 + Tail6(s[4])
      /\ Lead(Len(s)) = 240 .. 247
  BY CodePointIs, LeadIs
<1>2. s[1] \in 240 .. 247 /\ s[2] \in 128 .. 191 /\ s[3] \in 128 .. 191 /\ s[4] \in 128 .. 191 =>
        (IsScalar(CodePoint(s)) /\ Needs(CodePoint(s)) = 4 <=>
            /\ ~(s[1] = 240 /\ s[2] \div 16 = 8)
            /\ ~(s[1] > 244 \/ (s[1] = 244 /\ s[2] > 143)))
  <2> HAVE s[1] \in 240 .. 247 /\ s[2] \in 128 .. 191 /\ s[3] \in 128 .. 191 /\ s[4] \in 128 .. 191
  <2>1. PICK a \in 240 .. 247 : a = s[1]
    OBVIOUS
  <2>2. PICK b \in 128 .. 191 : b = s[2]
    OBVIOUS
  <2>3. PICK c \in 128 .. 191 : c = s[3]
    OBVIOUS
  <2>4. PICK d \in 128 .. 191 : d = s[4]
    OBVIOUS
  <2>5. PICK n : n = CodePoint(s)
    OBVIOUS
  <2>6. n = (((a % 8) * 64 + Tail6(b)) * 64 + Tail6(c)) * 64 + Tail6(d)
    BY <1>1, <2>1, <2>2, <2>3, <2>4, <2>5
  <2>7. IsScalar(n) /\ Needs(n) = 4 <=>
            /\ ~(a = 240 /\ b \div 16 = 8)
            /\ ~(a > 244 \/ (a = 244 /\ b > 143))
    <3>1. a % 8 = a - 240 /\ Tail6(b) = b - 128 /\ Tail6(c) = c - 128 /\ Tail6(d) = d - 128
      BY SMT DEF Tail6
    <3>2. n = (((a - 240) * 64 + (b - 128)) * 64 + (c - 128)) * 64 + (d - 128)
      BY <2>6, <3>1, SMT
    <3>3. n \in Nat
      BY <3>2, SMT
    <3>4. Needs(n) = 4 <=> n >= 65536
      BY <3>3, SMT DEF Needs
    <3>5. n >= 65536 <=> ~(a = 240 /\ b \div 16 = 8)
      BY <3>2, SMT
    <3>6. n <= 1114111 <=> ~(a > 244 \/ (a = 244 /\ b > 143))
      BY <3>2, SMT
    <3>7. n >= 65536 => (IsScalar(n) <=> n <= 1114111)
      BY <3>3, SMT DEF IsScalar
    <3> QED
      BY <3>4, <3>5, <3>6, <3>7, SMT
  <2> QED
    BY <2>1, <2>2, <2>3, <2>4, <2>5, <2>7, Zenon
<1>3. EncodesChar(s) <=> /\ s[1] \in 240 .. 247 /\ s[2] \in 128 .. 191
                         /\ s[3] \in 128 .. 191 /\ s[4] \in 128 .. 191
                         /\ IsScalar(CodePoint(s)) /\ Needs(CodePoint(s)) = 4
  BY <1>1 DEF EncodesChar
<1> QED
  BY <1>2, <1>3, Zenon

\* What the code tests for a form that is too long.
LEMMA OverlongIs ==
    /\ CharLen = 1 => ~Overlong
    /\ CharLen = 2 => (Overlong <=> Byte1 \div 2 = 96)
    /\ CharLen = 3 => (Overlong <=> Byte1 = 224 /\ Byte2 \div 32 = 4)
    /\ CharLen = 4 => (Overlong <=> Byte1 = 240 /\ Byte2 \div 16 = 8)
<1> DEFINE n == CharLen
<1> HIDE DEF n
<1>1. 1 # 2 /\ 1 # 3 /\ 1 # 4 /\ 2 # 3 /\ 2 # 4 /\ 3 # 4
  OBVIOUS
<1>2. Overlong = CASE n = 2 -> Byte1 \div 2 = 96
                   [] n = 3 -> Byte1 = 224 /\ Byte2 \div 32 = 4
                   [] n = 4 -> Byte1 = 240 /\ Byte2 \div 16 = 8
                   [] OTHER -> FALSE
  BY Zenon DEF Overlong, n
<1>3. n = 1 => ~Overlong
  BY <1>1, <1>2, Zenon
<1>4. n = 2 => (Overlong <=> Byte1 \div 2 = 96)
  BY <1>1, <1>2, Zenon
<1>5. n = 3 => (Overlong <=> Byte1 = 224 /\ Byte2 \div 32 = 4)
  BY <1>1, <1>2, Zenon
<1>6. n = 4 => (Overlong <=> Byte1 = 240 /\ Byte2 \div 16 = 8)
  BY <1>1, <1>2, Zenon
<1> QED
  BY <1>3, <1>4, <1>5, <1>6, Zenon DEF n

\* What the decoder takes for a character of n bytes is the encoding of one,
\* and the other way round.
LEMMA CharIs ==
    ASSUME CallInv, Converting, NEW n \in 1 .. 4, in + n <= str_len
    PROVE  EncodesChar(SubSeq(bytes, offset + in + 1, offset + in + n))
                <=> CharLen = n /\ IsChar
<1> DEFINE s == SubSeq(bytes, offset + in + 1, offset + in + n)
<1>1. /\ bytes \in Seq(0 .. 255) /\ Len(bytes) \in Nat /\ offset \in Nat /\ str_len \in Nat
      /\ in \in Nat /\ str_len <= Len(bytes) - offset /\ Byte1 \in 0 .. 255
      /\ \A i \in 1 .. Len(bytes) : bytes[i] \in 0 .. 255
  BY CallNumbers, ConvertingBytes DEF CallInv, CallTypes, ContentIsThere
<1>2. n \in Nat /\ offset + in + n <= Len(bytes)
  BY <1>1
<1>3. Len(s) = n
  BY <1>1, <1>2
<1>4. ASSUME NEW i \in 1 .. n
      PROVE  s[i] = bytes[offset + in + i] /\ bytes[offset + in + i] \in 0 .. 255
  <2>1. offset + in + i \in 1 .. Len(bytes) /\ (offset + in + 1) + i - 1 = offset + in + i
    BY <1>1, <1>2
  <2>2. bytes[offset + in + i] \in 0 .. 255
    BY <1>1, <2>1, Zenon
  <2>3. s[i] = bytes[offset + in + i]
    BY <1>1, <1>2, <2>1
  <2> QED
    BY <2>2, <2>3
<1> HIDE DEF s
<1>5. s[1] = Byte1
  <2>1. 1 \in 1 .. n
    BY <1>2
  <2> QED
    BY <1>4, <2>1 DEF Byte1
<1>6. CharLen = n =>
        (IsChar <=> (\A i \in 2 .. n : s[i] \in 128 .. 191) /\ ~Overlong /\ ~NoCharacter)
  <2> HAVE CharLen = n
  <2>1. ASSUME NEW i \in 2 .. n
        PROVE  Continues(bytes[offset + in + i]) <=> s[i] \in 128 .. 191
    <3>1. i \in 1 .. n
      BY <1>2
    <3> QED
      <4>1. s[i] = bytes[offset + in + i] /\ bytes[offset + in + i] \in 0 .. 255
        BY <1>4, <3>1
      <4>2. PICK b \in 0 .. 255 : b = bytes[offset + in + i] /\ b = s[i]
        BY <4>1
      <4>3. Continues(b) <=> b \in 128 .. 191
        BY ContinuesIs
      <4> QED
        BY <4>2, <4>3
  <2>2. (\A i \in 2 .. n : Continues(bytes[offset + in + i])) <=>
            (\A i \in 2 .. n : s[i] \in 128 .. 191)
    BY <2>1
  <2>3. n # 0
    BY <1>2
  <2> QED
    BY <2>2, <2>3 DEF IsChar
<1>7. CASE n = 1
  <2>1. EncodesChar(s) <=> Byte1 \in 0 .. 127
    BY <1>3, <1>5, <1>7, EncodesOne
  <2>2. Byte1 \in 0 .. 127 <=> CharLen = 1
    BY <1>1, CharLenIs
  <2>3. CharLen = 1 => ~Overlong /\ ~NoCharacter
    BY OverlongIs DEF NoCharacter
  <2>4. 2 .. n = {}
    BY <1>7
  <2> QED
    BY <1>6, <1>7, <2>1, <2>2, <2>3, <2>4 DEF s
<1>8. CASE n = 2
  <2>1. EncodesChar(s) <=> Byte1 \in 192 .. 223 /\ s[2] \in 128 .. 191 /\ Byte1 \div 2 # 96
    BY <1>3, <1>5, <1>8, EncodesTwo
  <2>2. Byte1 \in 192 .. 223 <=> CharLen = 2
    BY <1>1, CharLenIs
  <2>3. CharLen = 2 => (Overlong <=> Byte1 \div 2 = 96) /\ ~NoCharacter
    BY OverlongIs DEF NoCharacter
  <2>4. (\A i \in 2 .. n : s[i] \in 128 .. 191) <=> s[2] \in 128 .. 191
    BY <1>8
  <2> QED
    BY <1>6, <1>8, <2>1, <2>2, <2>3, <2>4, Zenon DEF s
<1>9. CASE n = 3
  <2>1. EncodesChar(s) <=>
            /\ Byte1 \in 224 .. 239 /\ s[2] \in 128 .. 191 /\ s[3] \in 128 .. 191
            /\ ~(Byte1 = 224 /\ s[2] \div 32 = 4)
            /\ ~(Byte1 = 237 /\ s[2] \div 32 = 5)
            /\ ~(Byte1 = 239 /\ s[2] = 191 /\ s[3] \div 2 = 95)
    BY <1>3, <1>5, <1>9, EncodesThree
  <2>2. Byte1 \in 224 .. 239 <=> CharLen = 3
    BY <1>1, CharLenIs
  <2>3. s[2] = Byte2 /\ s[3] = Byte3
    BY <1>4, <1>9 DEF Byte2, Byte3
  <2>4. CharLen = 3 => (Overlong <=> Byte1 = 224 /\ Byte2 \div 32 = 4)
    BY OverlongIs
  <2>5. CharLen = 3 => (NoCharacter <=> \/ Byte1 = 237 /\ Byte2 \div 32 = 5
                                        \/ Byte1 = 239 /\ Byte2 = 191 /\ Byte3 \div 2 = 95)
    <3>1. 3 # 4
      OBVIOUS
    <3> QED
      BY <3>1, Zenon DEF NoCharacter
  <2>6. (\A i \in 2 .. n : s[i] \in 128 .. 191) <=> s[2] \in 128 .. 191 /\ s[3] \in 128 .. 191
    <3>1. 2 .. n = {2, 3}
      BY <1>9
    <3> QED
      BY <3>1
  <2> QED
    BY <1>6, <1>9, <2>1, <2>2, <2>3, <2>4, <2>5, <2>6, Zenon DEF s
<1>10. CASE n = 4
  <2>1. EncodesChar(s) <=>
            /\ Byte1 \in 240 .. 247 /\ s[2] \in 128 .. 191
            /\ s[3] \in 128 .. 191 /\ s[4] \in 128 .. 191
            /\ ~(Byte1 = 240 /\ s[2] \div 16 = 8)
            /\ ~(Byte1 > 244 \/ (Byte1 = 244 /\ s[2] > 143))
    BY <1>3, <1>5, <1>10, EncodesFour
  <2>2. Byte1 \in 240 .. 247 <=> CharLen = 4
    BY <1>1, CharLenIs
  <2>3. s[2] = Byte2
    BY <1>4, <1>10 DEF Byte2
  <2>4. CharLen = 4 => (Overlong <=> Byte1 = 240 /\ Byte2 \div 16 = 8)
    BY OverlongIs
  <2>5. CharLen = 4 => (NoCharacter <=> Byte1 > 244 \/ (Byte1 = 244 /\ Byte2 > 143))
    <3>1. 3 # 4
      OBVIOUS
    <3> QED
      BY <3>1, Zenon DEF NoCharacter
  <2>6. (\A i \in 2 .. n : s[i] \in 128 .. 191) <=>
            s[2] \in 128 .. 191 /\ s[3] \in 128 .. 191 /\ s[4] \in 128 .. 191
    <3>1. 2 .. n = {2, 3, 4}
      BY <1>10
    <3> QED
      BY <3>1
  <2> QED
    BY <1>6, <1>10, <2>1, <2>2, <2>3, <2>4, <2>5, <2>6, Zenon DEF s
<1> QED
  BY <1>7, <1>8, <1>9, <1>10

-----------------------------------------------------------------------------
(* Texts *)

\* Where the characters of the first bytes of a text begin.
Starts(text, last) == {i \in 1 .. last : ~Continues(text[i])}

\* The character of a result that stands for one that begins with a byte.
AsciiOf(byte) == IF byte < 128 THEN byte ELSE UnknownChar

\* The first bytes of a text are divided into characters, and the result has
\* one for each of them.
DividedTo(text, last) ==
    /\ last > 0 => 1 \in Starts(text, last)
    /\ \A i \in Starts(text, last), j \in 1 .. last :
        /\ i <= j
        /\ j = last \/ j + 1 \in Starts(text, last)
        /\ Starts(text, last) \intersect (i + 1 .. j) = {}
        => EncodesChar(SubSeq(text, i, j))

ConvertedTo(text, last, converted) ==
    /\ DividedTo(text, last)
    /\ Cardinality(Starts(text, last)) = Len(converted)
    /\ \A i \in Starts(text, last) :
        converted[Cardinality(Starts(text, i))] = AsciiOf(text[i])

\* However the whole text is divided, a character begins behind the first bytes.
NoOtherWay(text, last) ==
    \A cuts \in SUBSET (1 .. Len(text)) :
        Divides(text, cuts) /\ last < Len(text) => last + 1 \in cuts

\* The first byte of a character continues none, the others do.
LEMMA FirstAndRest ==
    ASSUME NEW s, EncodesChar(s)
    PROVE  ~Continues(s[1]) /\ \A i \in 2 .. Len(s) : Continues(s[i])
<1>1. s[1] \in Lead(Len(s)) /\ Len(s) \in 1 .. 4 /\ \A i \in 2 .. Len(s) : s[i] \in 128 .. 191
  BY DEF EncodesChar
<1>2. s[1] \in 0 .. 247 /\ s[1] \notin 128 .. 191
  <2>1. Len(s) = 1 \/ Len(s) = 2 \/ Len(s) = 3 \/ Len(s) = 4
    BY <1>1
  <2>2. s[1] \in 0 .. 127 \/ s[1] \in 192 .. 223 \/ s[1] \in 224 .. 239 \/ s[1] \in 240 .. 247
    <3>1. \A n \in {1, 2, 3, 4} : \A x \in Lead(n) :
            x \in 0 .. 127 \/ x \in 192 .. 223 \/ x \in 224 .. 239 \/ x \in 240 .. 247
      BY LeadIs
    <3>2. Len(s) \in {1, 2, 3, 4}
      BY <2>1
    <3>3. s[1] \in Lead(Len(s))
      BY <1>1
    <3> HIDE DEF Lead
    <3> QED
      BY <3>1, <3>2, <3>3, Zenon
  <2> QED
    BY <2>2
<1>3. ~Continues(s[1])
  <2>1. PICK b \in 0 .. 255 : b = s[1]
    BY <1>2
  <2>2. ~Continues(b)
    BY <1>2, <2>1, ContinuesIs
  <2> QED
    BY <2>1, <2>2
<1>4. ASSUME NEW i \in 2 .. Len(s) PROVE Continues(s[i])
  <2>1. PICK b \in 0 .. 255 : b = s[i] /\ b \in 128 .. 191
    BY <1>1
  <2>2. Continues(b)
    BY <2>1, ContinuesIs
  <2> QED
    BY <2>1, <2>2
<1> QED
  BY <1>3, <1>4

\* The starts in the first bytes are no more than the bytes.
LEMMA StartsAreFinite ==
    ASSUME NEW text, NEW last \in Nat
    PROVE  IsFiniteSet(Starts(text, last)) /\ Cardinality(Starts(text, last)) \in Nat
<1>1. IsFiniteSet(1 .. last)
  BY FS_Interval
<1>2. Starts(text, last) \subseteq 1 .. last
  BY DEF Starts
<1>3. IsFiniteSet(Starts(text, last))
  BY <1>1, <1>2, FS_Subset
<1> QED
  BY <1>3, FS_CardinalityType

\* A character more.
LEMMA StartAdded ==
    ASSUME NEW text \in Seq(0 .. 255), NEW k \in Nat, NEW n \in 1 .. 4, k + n <= Len(text),
           EncodesChar(SubSeq(text, k + 1, k + n))
    PROVE  /\ Starts(text, k + n) = Starts(text, k) \union {k + 1}
           /\ k + 1 \notin Starts(text, k)
           /\ Cardinality(Starts(text, k + n)) = Cardinality(Starts(text, k)) + 1
<1> DEFINE s == SubSeq(text, k + 1, k + n)
<1>1. Len(s) = n /\ \A i \in 1 .. n : s[i] = text[k + i]
  OBVIOUS
<1>2. ~Continues(s[1]) /\ \A i \in 2 .. Len(s) : Continues(s[i])
  BY FirstAndRest
<1> HIDE DEF s
<1>3. ~Continues(text[k + 1])
  <2>1. 1 \in 1 .. n
    OBVIOUS
  <2> QED
    BY <1>1, <1>2, <2>1
<1>4. ASSUME NEW i \in k + 2 .. k + n PROVE Continues(text[i])
  <2>1. i - k \in 2 .. n /\ i - k \in 1 .. n /\ k + (i - k) = i
    OBVIOUS
  <2> QED
    BY <1>1, <1>2, <2>1
<1>5. Starts(text, k + n) = Starts(text, k) \union {k + 1}
  <2>1. \A i \in 1 .. k + n : i \in 1 .. k \/ i = k + 1 \/ i \in k + 2 .. k + n
    OBVIOUS
  <2>2. 1 .. k \subseteq 1 .. k + n /\ k + 1 \in 1 .. k + n
    OBVIOUS
  <2> QED
    BY <1>3, <1>4, <2>1, <2>2 DEF Starts
<1>6. k + 1 \notin Starts(text, k)
  BY DEF Starts
<1>7. Cardinality(Starts(text, k) \union {k + 1}) = Cardinality(Starts(text, k)) + 1
  BY <1>6, StartsAreFinite, FS_AddElement
<1> QED
  BY <1>5, <1>6, <1>7

\* A character behind a text that is divided into characters: so is the longer one.
LEMMA PieceAdded ==
    ASSUME NEW text \in Seq(0 .. 255), NEW k \in Nat, NEW n \in 1 .. 4, k + n <= Len(text),
           EncodesChar(SubSeq(text, k + 1, k + n)), DividedTo(text, k)
    PROVE  DividedTo(text, k + n)
<1>1. Starts(text, k + n) = Starts(text, k) \union {k + 1}
  BY StartAdded
<1>2. Starts(text, k) \subseteq 1 .. k
  BY DEF Starts
<1>3. 1 \in Starts(text, k + n)
  BY <1>1 DEF DividedTo
<1>4. ASSUME NEW i \in Starts(text, k + n), NEW j \in 1 .. k + n, i <= j,
             j = k + n \/ j + 1 \in Starts(text, k + n),
             Starts(text, k + n) \intersect (i + 1 .. j) = {}
      PROVE  EncodesChar(SubSeq(text, i, j))
  <2>1. CASE i = k + 1
    <3>1. j = k + n
      <4>1. j + 1 \notin Starts(text, k) /\ j + 1 # k + 1
        BY <1>2, <1>4, <2>1
      <4> QED
        BY <1>1, <1>4, <4>1
    <3> QED
      BY <2>1, <3>1
  <2>2. CASE i \in Starts(text, k)
    <3>1. i \in 1 .. k /\ j <= k
      <4>1. i \in 1 .. k
        BY <1>2, <2>2
      <4>2. k + 1 \notin i + 1 .. j
        BY <1>1, <1>4
      <4> QED
        BY <4>1, <4>2
    <3>2. j = k \/ j + 1 \in Starts(text, k)
      <4>1. j + 1 \in Starts(text, k + n)
        BY <1>4, <3>1
      <4> QED
        BY <1>1, <4>1
    <3>3. Starts(text, k) \intersect (i + 1 .. j) = {}
      BY <1>1, <1>4
    <3>4. j \in 1 .. k
      BY <3>1
    <3> QED
      BY <1>4, <2>2, <3>2, <3>3, <3>4 DEF DividedTo
  <2> QED
    BY <1>1, <2>1, <2>2
<1> QED
  BY <1>3, <1>4 DEF DividedTo

\* And its conversion has one byte more.
LEMMA OneCharMore ==
    ASSUME NEW text \in Seq(0 .. 255), NEW k \in Nat, NEW n \in 1 .. 4, k + n <= Len(text),
           EncodesChar(SubSeq(text, k + 1, k + n)),
           NEW converted \in Seq(0 .. 255), ConvertedTo(text, k, converted)
    PROVE  ConvertedTo(text, k + n, Append(converted, AsciiOf(text[k + 1])))
<1> DEFINE longer == Append(converted, AsciiOf(text[k + 1]))
<1>1. DividedTo(text, k + n)
  BY PieceAdded DEF ConvertedTo
<1>2. /\ Starts(text, k + n) = Starts(text, k) \union {k + 1}
      /\ Cardinality(Starts(text, k + n)) = Cardinality(Starts(text, k)) + 1
  BY StartAdded
<1>3. Cardinality(Starts(text, k)) = Len(converted) /\ Len(converted) \in Nat
  BY DEF ConvertedTo
<1>4. /\ Len(longer) = Len(converted) + 1
      /\ longer[Len(converted) + 1] = AsciiOf(text[k + 1])
      /\ \A i \in 1 .. Len(converted) : longer[i] = converted[i]
  OBVIOUS
<1> HIDE DEF longer
<1>5. ASSUME NEW i \in Starts(text, k) PROVE longer[Cardinality(Starts(text, i))] = AsciiOf(text[i])
  <2>1. i \in 1 .. k /\ i \in Nat /\ 1 .. i \subseteq 1 .. k
    BY DEF Starts
  <2>2. Starts(text, i) \subseteq Starts(text, k) /\ i \in Starts(text, i)
    BY <2>1 DEF Starts
  <2>3. /\ IsFiniteSet(Starts(text, k)) /\ IsFiniteSet(Starts(text, i))
        /\ Cardinality(Starts(text, i)) \in Nat
    BY <2>1, StartsAreFinite
  <2>4. Cardinality(Starts(text, i)) <= Len(converted)
    BY <1>3, <2>2, <2>3, FS_Subset
  <2>5. Cardinality(Starts(text, i)) # 0
    BY <2>2, <2>3, FS_EmptySet
  <2>6. Cardinality(Starts(text, i)) \in 1 .. Len(converted)
    BY <1>3, <2>3, <2>4, <2>5
  <2>7. converted[Cardinality(Starts(text, i))] = AsciiOf(text[i])
    BY DEF ConvertedTo
  <2> QED
    BY <1>4, <2>6, <2>7
<1>6. longer[Cardinality(Starts(text, k + 1))] = AsciiOf(text[k + 1])
  <2>1. Starts(text, k + 1) = Starts(text, k) \union {k + 1}
    <3>1. k + 1 \in Starts(text, k + n)
      BY <1>2
    <3>2. ~Continues(text[k + 1])
      BY <3>1 DEF Starts
    <3>3. 1 .. k + 1 = (1 .. k) \union {k + 1}
      OBVIOUS
    <3> QED
      BY <3>2, <3>3 DEF Starts
  <2> QED
    BY <1>2, <1>3, <1>4, <2>1
<1>7. \A i \in Starts(text, k + n) : longer[Cardinality(Starts(text, i))] = AsciiOf(text[i])
  BY <1>2, <1>5, <1>6
<1>8. Cardinality(Starts(text, k + n)) = Len(longer)
  BY <1>2, <1>3, <1>4
<1> QED
  BY <1>1, <1>7, <1>8 DEF ConvertedTo, longer

\* From a cut the text goes on to the next one, or to its end.
LEMMA NextCut ==
    ASSUME NEW text, Len(text) \in Nat, NEW cuts \in SUBSET (1 .. Len(text)), NEW i \in cuts
    PROVE  \E j \in i .. Len(text) : IsPiece(text, cuts, i, j)
<1> DEFINE T == {j \in Nat : j >= i /\ (j = Len(text) \/ j + 1 \in cuts)}
<1>1. i \in Nat /\ i <= Len(text)
  OBVIOUS
<1>2. Len(text) \in T
  BY <1>1
<1>3. PICK j \in T : \A k \in T : j <= k
  <2>1. T \subseteq Nat /\ T # {}
    BY <1>2
  <2> HIDE DEF T
  <2> QED
    BY <2>1, LeastNumber
<1>4. j \in Nat /\ i <= j /\ (j = Len(text) \/ j + 1 \in cuts) /\ j <= Len(text)
  BY <1>2, <1>3
<1>5. ASSUME NEW c \in cuts, c \in i + 1 .. j PROVE FALSE
  <2>1. c - 1 \in Nat /\ c - 1 >= i /\ (c - 1) + 1 = c /\ c - 1 < j
    BY <1>1, <1>4, <1>5
  <2>2. c - 1 \in T
    BY <1>5, <2>1
  <2>3. j <= c - 1
    BY <1>3, <2>2
  <2> QED
    BY <1>4, <2>1, <2>3
<1>6. IsPiece(text, cuts, i, j)
  BY <1>4, <1>5 DEF IsPiece
<1> QED
  BY <1>1, <1>4, <1>6

-----------------------------------------------------------------------------
(* The conversion *)

\* While a string is converted its first bytes are, and there is no other way
\* to divide them; what is refused has no way to be divided, or no room.
Conversion ==
    call = "string" =>
        /\ read \in {"text", "true"} => ConvertedTo(Content, in, out)
        /\ read = "text" => NoOtherWay(Content, in)
        /\ read = "true" => in = str_len
        /\ read = "not UTF-8" => ~IsUtf8(Content)
        /\ read = "no room" => Cardinality(Starts(Content, str_len)) > out_size

StringInv == CallInv /\ Conversion

\* The pieces of the content are pieces of the buffer.
LEMMA PieceOfContent ==
    ASSUME NumberInv, str_len <= Len(bytes) - offset,
           NEW i \in Nat \ {0}, NEW j \in Nat, i <= j, j <= str_len
    PROVE  SubSeq(Content, i, j) = SubSeq(bytes, offset + i, offset + j)
<1>1. /\ Content \in Seq(0 .. 255) /\ Len(Content) = str_len
      /\ \A k \in 1 .. str_len : Content[k] = bytes[offset + k]
  BY ContentIs
<1>2. bytes \in Seq(0 .. 255) /\ Len(bytes) \in Nat /\ offset \in Nat /\ str_len \in Nat
  BY CallNumbers
<1>3. offset + j <= Len(bytes) /\ (offset + j) - (offset + i) + 1 = j - i + 1
  BY <1>2
<1>4. SubSeq(Content, i, j) = [k \in 1 .. j - i + 1 |-> Content[i + k - 1]]
  BY <1>1, <1>2
<1>5. SubSeq(bytes, offset + i, offset + j) =
        [k \in 1 .. j - i + 1 |-> bytes[(offset + i) + k - 1]]
  BY <1>2, <1>3
<1>6. ASSUME NEW k \in 1 .. j - i + 1 PROVE Content[i + k - 1] = bytes[(offset + i) + k - 1]
  <2>1. i + k - 1 \in 1 .. str_len /\ offset + (i + k - 1) = (offset + i) + k - 1
    BY <1>2
  <2> QED
    BY <1>1, <2>1
<1> QED
  BY <1>4, <1>5, <1>6

\* A text that is divided where the conversion is has a character there.
LEMMA CharHere ==
    ASSUME CallInv, Converting, NoOtherWay(Content, in),
           NEW cuts \in SUBSET (1 .. str_len), Divides(Content, cuts)
    PROVE  /\ IsChar
           /\ in + CharLen < str_len => in + CharLen + 1 \in cuts
<1>1. /\ NumberInv /\ str_len <= Len(bytes) - offset /\ in \in Nat /\ in < str_len
      /\ str_len \in Nat /\ offset \in Nat /\ Len(Content) = str_len
      /\ Content \in Seq(0 .. 255)
  BY ConvertingBytes, CallNumbers, ContentIs DEF CallInv, CallTypes, ContentIsThere, Converting
<1>2. in + 1 \in cuts
  BY <1>1 DEF NoOtherWay
<1>3. PICK j \in in + 1 .. str_len : IsPiece(Content, cuts, in + 1, j)
  BY <1>1, <1>2, NextCut
<1>4. j \in Nat /\ in + 1 <= j /\ j <= str_len /\ j \in DOMAIN Content
  BY <1>1
<1>5. EncodesChar(SubSeq(Content, in + 1, j))
  BY <1>2, <1>3, <1>4 DEF Divides
<1> DEFINE n == j - in
<1>6. n \in Nat /\ j = in + n /\ offset + (in + 1) = offset + in + 1 /\ offset + (in + n) = offset + in + n
  BY <1>1, <1>4
<1>7. Len(SubSeq(Content, in + 1, j)) = n
  BY <1>1, <1>4
<1>8. n \in 1 .. 4
  BY <1>5, <1>7 DEF EncodesChar
<1>9. SubSeq(Content, in + 1, j) = SubSeq(bytes, offset + (in + 1), offset + j)
  <2>1. in + 1 \in Nat \ {0}
    BY <1>1
  <2> QED
    BY <1>1, <1>4, <2>1, PieceOfContent
<1>10. EncodesChar(SubSeq(bytes, offset + in + 1, offset + in + n))
  BY <1>5, <1>6, <1>9
<1>11. in + n <= str_len
  BY <1>4, <1>6
<1> HIDE DEF n
<1>12. CharLen = n /\ IsChar
  BY <1>8, <1>10, <1>11, CharIs
<1>13. in + n < str_len => in + n + 1 \in cuts
  BY <1>1, <1>3, <1>6 DEF IsPiece
<1> QED
  BY <1>12, <1>13

\* What the decoder takes is a character of the content.
LEMMA CharTaken ==
    ASSUME CallInv, Converting, IsChar
    PROVE  /\ CharLen \in 1 .. 4 /\ in + CharLen <= str_len
           /\ EncodesChar(SubSeq(Content, in + 1, in + CharLen))
           /\ (IF CharLen = 1 THEN Byte1 ELSE UnknownChar) = AsciiOf(Content[in + 1])
<1>1. /\ NumberInv /\ str_len <= Len(bytes) - offset /\ in \in Nat /\ in < str_len
      /\ str_len \in Nat /\ offset \in Nat /\ Byte1 \in 0 .. 255
      /\ \A i \in 1 .. str_len : Content[i] = bytes[offset + i]
  BY ConvertingBytes, CallNumbers, ContentIs DEF CallInv, CallTypes, ContentIsThere, Converting
<1>2. CharLen \in 1 .. 4 /\ in + CharLen <= str_len
  BY ConvertingBytes DEF IsChar
<1> DEFINE n == CharLen
<1> HIDE DEF n
<1>3. EncodesChar(SubSeq(bytes, offset + in + 1, offset + in + n))
  <2>1. n \in 1 .. 4 /\ in + n <= str_len
    BY <1>2 DEF n
  <2> QED
    BY <2>1, CharIs DEF n
<1>4. SubSeq(Content, in + 1, in + n) = SubSeq(bytes, offset + (in + 1), offset + (in + n))
  <2>1. in + 1 \in Nat \ {0} /\ in + n \in Nat /\ in + 1 <= in + n /\ in + n <= str_len
    BY <1>1, <1>2 DEF n
  <2> QED
    BY <1>1, <2>1, PieceOfContent
<1>5. offset + (in + 1) = offset + in + 1 /\ offset + (in + n) = offset + in + n
  BY <1>1, <1>2 DEF n
<1>6. EncodesChar(SubSeq(Content, in + 1, in + n))
  BY <1>3, <1>4, <1>5
<1>7. Content[in + 1] = Byte1
  <2>1. in + 1 \in 1 .. str_len
    BY <1>1
  <2> QED
    BY <1>1, <1>5, <2>1 DEF Byte1
<1>8. CharLen = 1 <=> Byte1 < 128
  BY <1>1, CharLenIs
<1> QED
  BY <1>2, <1>6, <1>7, <1>8 DEF n, AsciiOf

\* A character is taken: what was converted is the conversion of what was read.
LEMMA TakeCharConverts == StringInv /\ TakeChar => Conversion'
<1> SUFFICES ASSUME StringInv, TakeChar PROVE Conversion'
  OBVIOUS
<1> DEFINE char == IF CharLen = 1 THEN Byte1 ELSE UnknownChar
<1>1. /\ CallInv /\ Converting /\ IsChar
      /\ out' = Append(out, char) /\ in' = in + CharLen
      /\ UNCHANGED <<bytes, offset, tmp_value, call, read>>
  BY DEF TakeChar, StringInv, vars
<1>2. Content' = Content /\ str_len' = str_len
  BY <1>1 DEF Content, str_len
<1>3. /\ NumberInv /\ ContentIsThere /\ call = "string" /\ read = "text" /\ in \in Nat
      /\ str_len \in Nat /\ out \in Seq(0 .. 255)
  BY <1>1, ConvertingBytes, CallNumbers DEF CallInv, CallTypes, Converting
<1>4. Content \in Seq(0 .. 255) /\ Len(Content) = str_len
  BY <1>3, ContentIs DEF ContentIsThere
<1>5. ConvertedTo(Content, in, out) /\ NoOtherWay(Content, in)
  BY <1>3 DEF StringInv, Conversion
<1>6. /\ CharLen \in 1 .. 4 /\ in + CharLen <= str_len
      /\ EncodesChar(SubSeq(Content, in + 1, in + CharLen))
      /\ char = AsciiOf(Content[in + 1])
  BY <1>1, CharTaken
<1>7. ConvertedTo(Content, in + CharLen, out')
  BY <1>1, <1>3, <1>4, <1>5, <1>6, OneCharMore
<1>8. NoOtherWay(Content, in + CharLen)
  <2> SUFFICES ASSUME NEW cuts \in SUBSET (1 .. str_len), Divides(Content, cuts),
                      in + CharLen < str_len
               PROVE  in + CharLen + 1 \in cuts
    BY <1>4 DEF NoOtherWay
  <2> QED
    BY <1>1, <1>5, CharHere
<1> QED
  BY <1>1, <1>2, <1>3, <1>7, <1>8 DEF Conversion

\* There is no room: the bytes that begin a character are more than fit.
LEMMA NoRoomRefuses == StringInv /\ NoRoom => Conversion'
<1> SUFFICES ASSUME StringInv, NoRoom PROVE Conversion'
  OBVIOUS
<1>1. /\ CallInv /\ Converting /\ IsChar /\ ~(Len(out) < out_size)
      /\ read' = "no room" /\ UNCHANGED <<bytes, offset, tmp_value, call, out_size>>
  BY DEF NoRoom, HasRoom, Fail, StringInv, vars
<1>2. Content' = Content /\ str_len' = str_len
  BY <1>1 DEF Content, str_len
<1>3. /\ NumberInv /\ ContentIsThere /\ call = "string" /\ read = "text" /\ in \in Nat
      /\ in < str_len /\ str_len \in Nat /\ out \in Seq(0 .. 255) /\ out_size \in Nat
  BY <1>1, ConvertingBytes, CallNumbers DEF CallInv, CallTypes, Converting
<1>4. Content \in Seq(0 .. 255) /\ Len(Content) = str_len
  BY <1>3, ContentIs DEF ContentIsThere
<1>5. ConvertedTo(Content, in, out)
  BY <1>3 DEF StringInv, Conversion
<1>6. /\ CharLen \in 1 .. 4 /\ in + CharLen <= str_len
      /\ EncodesChar(SubSeq(Content, in + 1, in + CharLen))
  BY <1>1, CharTaken
<1>7. Cardinality(Starts(Content, in + CharLen)) = Len(out) + 1
  <2>1. Cardinality(Starts(Content, in + CharLen)) = Cardinality(Starts(Content, in)) + 1
    BY <1>3, <1>4, <1>6, StartAdded
  <2> QED
    BY <1>5, <2>1 DEF ConvertedTo
<1>8. Cardinality(Starts(Content, in + CharLen)) <= Cardinality(Starts(Content, str_len))
  <2>1. 1 .. in + CharLen \subseteq 1 .. str_len
    BY <1>3, <1>6
  <2>2. Starts(Content, in + CharLen) \subseteq Starts(Content, str_len)
    BY <2>1 DEF Starts
  <2>3. IsFiniteSet(Starts(Content, str_len))
    BY <1>3, StartsAreFinite
  <2> QED
    BY <2>2, <2>3, FS_Subset
<1>9. Cardinality(Starts(Content, str_len)) > out_size
  <2>1. Cardinality(Starts(Content, str_len)) \in Nat /\ Len(out) \in Nat
    BY <1>3, StartsAreFinite
  <2> QED
    <3> DEFINE most == Cardinality(Starts(Content, str_len))
               length == Len(out)
    <3>1. length + 1 <= most
      BY <1>7, <1>8
    <3>2. most \in Nat /\ length \in Nat /\ ~(length < out_size)
      BY <1>1, <2>1
    <3> HIDE DEF most, length
    <3>3. most > out_size
      BY <1>3, <3>1, <3>2
    <3> QED
      BY <3>3 DEF most
<1> QED
  BY <1>1, <1>2, <1>9 DEF Conversion

\* What comes next is no character: no text that begins so is UTF-8.
LEMMA NoCharRefuses == StringInv /\ NoChar => Conversion'
<1> SUFFICES ASSUME StringInv, NoChar PROVE Conversion'
  OBVIOUS
<1>1. /\ CallInv /\ Converting /\ ~IsChar /\ read' = "not UTF-8"
      /\ UNCHANGED <<bytes, offset, tmp_value>>
  BY DEF NoChar, Fail, StringInv, vars
<1>2. Content' = Content
  BY <1>1 DEF Content, str_len
<1>3. NumberInv /\ ContentIsThere /\ call = "string" /\ read = "text" /\ str_len \in Nat
  BY <1>1, ConvertingBytes, CallNumbers DEF CallInv, Converting
<1>4. DOMAIN Content = 1 .. str_len
  <2>1. Content \in Seq(0 .. 255) /\ Len(Content) = str_len
    BY <1>3, ContentIs DEF ContentIsThere
  <2> QED
    BY <2>1
<1>5. NoOtherWay(Content, in)
  BY <1>3 DEF StringInv, Conversion
<1>6. ~IsUtf8(Content)
  <2> SUFFICES ASSUME NEW cuts \in SUBSET (1 .. str_len), Divides(Content, cuts) PROVE FALSE
    BY <1>4 DEF IsUtf8
  <2> QED
    BY <1>1, <1>5, CharHere
<1> QED
  BY <1>1, <1>2, <1>6 DEF Conversion

\* Nothing is converted yet.
LEMMA AcceptedBegins == StringInv /\ LengthAccepted => Conversion'
<1> SUFFICES ASSUME StringInv, LengthAccepted, call = "string" PROVE Conversion'
  BY DEF Conversion, LengthAccepted
<1>1. /\ read' = "text" /\ out = << >> /\ in = 0 /\ NumberInv
      /\ UNCHANGED <<bytes, offset, tmp_value, call, out, in>>
      /\ str_len <= Len(bytes) - offset
  BY DEF LengthAccepted, CanRead, StringInv, CallInv, PhaseIsRight, vars
<1>2. Content' = Content
  BY <1>1 DEF Content, str_len
<1>3. Content \in Seq(0 .. 255)
  BY <1>1, ContentIs
<1>4. Starts(Content, 0) = {} /\ Cardinality({}) = 0 /\ Len(<< >>) = 0
  BY FS_EmptySet DEF Starts
<1>5. ConvertedTo(Content, 0, << >>)
  <2>1. DividedTo(Content, 0)
    BY <1>4 DEF DividedTo
  <2> QED
    BY <1>4, <2>1, Zenon DEF ConvertedTo
<1>6. NoOtherWay(Content, 0)
  <2> SUFFICES ASSUME NEW cuts \in SUBSET (1 .. Len(Content)), Divides(Content, cuts),
                      0 < Len(Content)
               PROVE  0 + 1 \in cuts
    BY DEF NoOtherWay
  <2>1. Content # << >>
    BY <1>3
  <2> QED
    BY <2>1 DEF Divides
<1> QED
  BY <1>1, <1>2, <1>5, <1>6 DEF Conversion

\* The whole content was divided and converted.
LEMMA EndStringConverts == StringInv /\ EndString => Conversion'
<1> SUFFICES ASSUME StringInv, EndString PROVE Conversion'
  OBVIOUS
<1>1. /\ read = "text" /\ in >= str_len /\ read' = "true" /\ CallInv
      /\ UNCHANGED <<bytes, offset, tmp_value, call, out, in>>
  BY DEF EndString, StringInv, vars
<1>2. Content' = Content /\ str_len' = str_len
  BY <1>1 DEF Content, str_len
<1>3. in = str_len
  <2>1. in <= str_len /\ in \in Nat /\ str_len \in Nat
    BY <1>1, CallNumbers DEF CallInv, CallTypes, PhaseIsRight, ContentIsThere
  <2> QED
    BY <1>1, <2>1
<1> QED
  BY <1>1, <1>2, <1>3 DEF StringInv, Conversion

\* Every step of the call is one of these.
LEMMA ConversionStep == StringInv /\ [StringNext]_<<vars, stringVars>> => Conversion'
<1> SUFFICES ASSUME StringInv, [StringNext]_<<vars, stringVars>> PROVE Conversion'
  OBVIOUS
<1>1. CASE ReadLength
  BY <1>1 DEF ReadLength, stringVars, StringInv, CallInv, PhaseIsRight, Conversion
<1>2. CASE NoLength
  BY <1>2 DEF NoLength, Fail, Conversion
<1>3. CASE LengthRefused
  <2>1. read' = "no room" => call = "bytes" /\ call' = call
    <3>1. "too long" # "no room"
      OBVIOUS
    <3> QED
      BY <1>3, <3>1, Zenon DEF LengthRefused, Fail
  <2>2. read' = "no room" \/ read' = "too long"
    BY <1>3, Zenon DEF LengthRefused, Fail
  <2> QED
    BY <2>1, <2>2 DEF Conversion
<1>4. CASE UNCHANGED <<vars, stringVars>>
  <2>1. UNCHANGED <<bytes, offset, tmp_value, call, out_size, out, in, read>>
    BY <1>4 DEF vars, stringVars
  <2>2. Content' = Content /\ str_len' = str_len
    BY <2>1 DEF Content, str_len
  <2> QED
    BY <2>1, <2>2 DEF StringInv, Conversion
<1> QED
  BY <1>1, <1>2, <1>3, <1>4, AcceptedBegins, TakeCharConverts, NoRoomRefuses, NoCharRefuses,
     EndStringConverts DEF StringNext

\* What is converted of a string is the conversion of its characters read so far,
\* and there is no other way to divide them (bcs_read_string and utf8.c).
THEOREM StringInvariant == StringSpec => []StringInv
<1>1. StringInit => StringInv
  <2> SUFFICES ASSUME StringInit PROVE StringInv
    OBVIOUS
  <2>1. CallInv
    BY NumberInit, CallInit DEF CallInv
  <2>2. Conversion
    BY DEF StringInit, Conversion
  <2> QED
    BY <2>1, <2>2 DEF StringInv
<1>2. StringInv /\ [StringNext]_<<vars, stringVars>> => StringInv'
  BY NumberStep, CallStep, ConversionStep DEF StringInv, CallInv
<1> QED
  BY <1>1, <1>2, PTL DEF StringSpec

-----------------------------------------------------------------------------
(* Strings *)

\* A string that is read is UTF-8, and its result has a character for each of
\* its characters (try_utf8_to_ascii), whatever the buffer.
THEOREM StringReadIsConverted == StringSpec => []StringIsConverted
<1>1. StringInv => StringIsConverted
  <2> SUFFICES ASSUME StringInv, Accepted, call = "string"
               PROVE  \E cuts \in SUBSET DOMAIN Text :
                        /\ Divides(Text, cuts)
                        /\ Cardinality(cuts) = Len(out)
                        /\ \A i \in cuts :
                            out[Cardinality(cuts \intersect 1 .. i)] =
                                IF Text[i] < 128 THEN Text[i] ELSE UnknownChar
    BY DEF StringIsConverted
  <2>1. NumberInv /\ str_len <= Len(bytes) - offset /\ taken = str_len /\ str_len \in Nat
    BY CallNumbers DEF StringInv, CallInv, PhaseIsRight, Accepted, ContentIsThere
  <2>2. Text \in Seq(0 .. 255) /\ Len(Text) = str_len /\ ConvertedTo(Text, str_len, out)
    <3>1. Text = Content
      BY <2>1 DEF Text, Content
    <3>2. Content \in Seq(0 .. 255) /\ Len(Content) = str_len
      BY <2>1, ContentIs
    <3>3. ConvertedTo(Content, str_len, out)
      BY DEF StringInv, Conversion, Accepted
    <3> QED
      BY <3>1, <3>2, <3>3
  <2> DEFINE cuts == Starts(Text, str_len)
  <2>3. DOMAIN Text = 1 .. str_len
    BY <2>2
  <2>4. cuts \in SUBSET DOMAIN Text
    BY <2>3 DEF Starts
  <2>5. Divides(Text, cuts)
    <3>1. Text # << >> => 1 \in cuts
      BY <2>1, <2>2 DEF ConvertedTo, DividedTo
    <3>2. ASSUME NEW i \in cuts, NEW j \in DOMAIN Text, IsPiece(Text, cuts, i, j)
          PROVE  EncodesChar(SubSeq(Text, i, j))
      BY <2>2, <2>3, <3>2 DEF ConvertedTo, DividedTo, IsPiece
    <3> QED
      BY <3>1, <3>2 DEF Divides
  <2>6. ASSUME NEW i \in cuts
        PROVE  out[Cardinality(cuts \intersect 1 .. i)] =
                    IF Text[i] < 128 THEN Text[i] ELSE UnknownChar
    <3>1. i \in 1 .. str_len
      BY DEF Starts
    <3>2. 1 .. i \subseteq 1 .. str_len
      BY <2>1, <3>1
    <3>3. cuts \intersect 1 .. i = Starts(Text, i)
      BY <3>2 DEF Starts
    <3> QED
      BY <2>2, <3>3 DEF ConvertedTo, AsciiOf
  <2>7. Cardinality(cuts) = Len(out)
    BY <2>2 DEF ConvertedTo
  <2> HIDE DEF cuts
  <2> QED
    BY <2>4, <2>5, <2>6, <2>7
<1> QED
  BY <1>1, StringInvariant, PTL

\* No string of UTF-8 is refused as none, and none that fits is refused for
\* want of room.
THEOREM OnlyNoStringIsRefused == StringSpec => []RefusedIsNoString
<1>1. StringInv => RefusedIsNoString
  <2> SUFFICES ASSUME StringInv, call = "string"
               PROVE  /\ read = "not UTF-8" => ~IsUtf8(Content)
                      /\ read = "no room" =>
                            Cardinality({i \in DOMAIN Content : ~Continues(Content[i])}) > out_size
    BY DEF RefusedIsNoString, Content
  <2>1. read = "not UTF-8" => ~IsUtf8(Content)
    BY DEF StringInv, Conversion
  <2>2. ASSUME read = "no room"
        PROVE  Cardinality({i \in DOMAIN Content : ~Continues(Content[i])}) > out_size
    <3>1. Content \in Seq(0 .. 255) /\ Len(Content) = str_len
      BY <2>2, ContentIs DEF StringInv, CallInv, PhaseIsRight, ContentIsThere
    <3>2. {i \in DOMAIN Content : ~Continues(Content[i])} = Starts(Content, str_len)
      BY <3>1 DEF Starts
    <3> QED
      BY <2>2, <3>2 DEF StringInv, Conversion
  <2> QED
    BY <2>1, <2>2
<1> QED
  BY <1>1, StringInvariant, PTL
=============================================================================
