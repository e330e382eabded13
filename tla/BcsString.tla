----------------------------- MODULE BcsString ------------------------------
(***************************************************************************)
(* bcs_read_string and bcs_read_dynamic_bytes: a length, which is a ULEB128*)
(* number, and as many bytes.  The bytes of a string are UTF-8; they are   *)
(* turned into ASCII (try_utf8_to_ascii), a question mark for every        *)
(* character that is not.                                                  *)
(*                                                                         *)
(* The module continues Uleb128, whose number is the length.  A turn of the*)
(* loop takes a character, of one to four bytes.                           *)
(***************************************************************************)
EXTENDS Uleb128, FiniteSets

CONSTANTS
    Buffers,              \* the contents of the buffer, from the cursor on
    OutSizes,             \* the room of the result
    MAX_SEQUENCE_LENGTH   \* the longest string, 2^31 - 1 in the code

ASSUME StringAssumption ==
    /\ Buffers \subseteq Seq(0 .. 255)
    /\ OutSizes \subseteq Nat
    /\ MAX_SEQUENCE_LENGTH \in Nat

\* What the number may take is a digit with or without another one behind it:
\* in the code every byte is, with smaller digits those up to the last one.
ASSUME DigitsAssumption ==
    \A buffer \in Buffers : \A i \in DOMAIN buffer :
        (\A j \in 1 .. i - 1 : buffer[j] >= Base) => buffer[i] \in Byte

VARIABLES
    call,      \* "string" or "bytes"
    out_size,  \* the room of the result
    out,       \* the result
    in,        \* how many bytes of the string are converted
    taken,     \* how far the cursor has gone on behind the length
    read       \* "length", "text", "true", or the reason of a false

stringVars == <<call, out_size, out, in, taken, read>>

UnknownChar == 63  \* '?'

\* The length is a number that has been read.
str_len == tmp_value

\* The bytes of the string, from where the cursor is behind the length.
Byte1 == bytes[offset + in + 1]
Byte2 == bytes[offset + in + 2]
Byte3 == bytes[offset + in + 3]
Byte4 == bytes[offset + in + 4]

Fail(reason) ==
    /\ read' = reason
    /\ UNCHANGED <<vars, call, out_size, out, in, taken>>

-----------------------------------------------------------------------------
(* The length *)

ReadLength ==
    /\ read = "length"
    /\ Next
    /\ UNCHANGED stringVars

NoLength ==
    /\ read = "length"
    /\ result = "false"
    /\ Fail("no length")

\* The last byte of the buffer never read.
CanReadButLast == str_len < Len(bytes) - offset

\* buffer_can_read
CanRead == str_len <= Len(bytes) - offset

LengthRefused ==
    /\ read = "length"
    /\ result = "true"
    /\ \/ str_len > MAX_SEQUENCE_LENGTH
       \/ call = "bytes" /\ str_len > out_size
       \/ ~CanRead
    /\ Fail(IF call = "bytes" /\ str_len <= MAX_SEQUENCE_LENGTH /\ str_len > out_size
            THEN "no room" ELSE "too long")

LengthAccepted ==
    /\ read = "length"
    /\ result = "true"
    /\ str_len <= MAX_SEQUENCE_LENGTH
    /\ call = "bytes" => str_len <= out_size
    /\ CanRead
    /\ IF call = "bytes"
       THEN /\ out' = SubSeq(bytes, offset + 1, offset + str_len)
            /\ in' = str_len
            /\ taken' = str_len
            /\ read' = "true"
       ELSE read' = "text" /\ UNCHANGED <<out, in, taken>>
    /\ UNCHANGED <<vars, call, out_size>>

-----------------------------------------------------------------------------
(* try_utf8_to_ascii *)

Continues(byte) == byte \div 64 = 2

\* What the first byte says the character is long; 0 if it begins none.
CharLen ==
    CASE Byte1 < 128       -> 1
      [] Byte1 \div 32 = 6  -> 2
      [] Byte1 \div 16 = 14 -> 3
      [] Byte1 \div 8 = 30  -> 4
      [] OTHER              -> 0

\* The check left out for characters of three bytes.
OverlongUnchecked ==
    CASE CharLen = 2 -> Byte1 \div 2 = 96
      [] CharLen = 3 -> FALSE
      [] CharLen = 4 -> Byte1 = 240 /\ Byte2 \div 16 = 8
      [] OTHER       -> FALSE

\* A character in more bytes than it needs.
Overlong ==
    CASE CharLen = 2 -> Byte1 \div 2 = 96
      [] CharLen = 3 -> Byte1 = 224 /\ Byte2 \div 32 = 4
      [] CharLen = 4 -> Byte1 = 240 /\ Byte2 \div 16 = 8
      [] OTHER       -> FALSE

\* Every plane above the first cut off where the last one is.
NoCharacterAbove ==
    \/ CharLen = 3 /\ Byte1 = 237 /\ Byte2 \div 32 = 5
    \/ CharLen = 3 /\ Byte1 = 239 /\ Byte2 = 191 /\ Byte3 \div 2 = 95
    \/ CharLen = 4 /\ (Byte1 > 244 \/ Byte2 > 143)

\* A surrogate, U+FFFE or U+FFFF, or what is above U+10FFFF.
NoCharacter ==
    \/ CharLen = 3 /\ Byte1 = 237 /\ Byte2 \div 32 = 5
    \/ CharLen = 3 /\ Byte1 = 239 /\ Byte2 = 191 /\ Byte3 \div 2 = 95
    \/ CharLen = 4 /\ (Byte1 > 244 \/ (Byte1 = 244 /\ Byte2 > 143))

\* The bytes are looked at in their order, the ones behind the string never.
IsChar ==
    /\ CharLen # 0
    /\ in + CharLen <= str_len
    /\ \A i \in 2 .. CharLen : Continues(bytes[offset + in + i])
    /\ ~Overlong
    /\ ~NoCharacter

\* An off-by-one at the end of the result.
HasRoomForOneMore == Len(out) <= out_size

\* try_push_char
HasRoom == Len(out) < out_size

Converting == read = "text" /\ in < str_len

TakeChar ==
    /\ Converting
    /\ IsChar
    /\ HasRoom
    /\ out' = Append(out, IF CharLen = 1 THEN Byte1 ELSE UnknownChar)
    /\ in' = in + CharLen
    /\ UNCHANGED <<vars, call, out_size, taken, read>>

NoRoom ==
    /\ Converting
    /\ IsChar
    /\ ~HasRoom
    /\ Fail("no room")

NoChar ==
    /\ Converting
    /\ ~IsChar
    /\ Fail("not UTF-8")

\* The string is behind the cursor.
EndString ==
    /\ read = "text"
    /\ in >= str_len
    /\ taken' = str_len
    /\ read' = "true"
    /\ UNCHANGED <<vars, call, out_size, out, in>>

StringInit ==
    /\ bytes \in Buffers
    /\ offset = 0
    /\ shift = 0
    /\ tmp_value = 0
    /\ result = "reading"
    /\ call \in {"string", "bytes"}
    /\ out_size \in OutSizes
    /\ out = << >>
    /\ in = 0
    /\ taken = 0
    /\ read = "length"

StringNext ==
    \/ ReadLength \/ NoLength \/ LengthRefused \/ LengthAccepted
    \/ TakeChar \/ NoRoom \/ NoChar \/ EndString

StringSpec == StringInit /\ [][StringNext]_<<vars, stringVars>>

-----------------------------------------------------------------------------
(* The reference: UTF-8 by the numbers of its characters *)

Tail6(byte) == byte % 64

\* The number that a sequence of one to four bytes stands for.
CodePoint(s) ==
    CASE Len(s) = 1 -> s[1]
      [] Len(s) = 2 -> (s[1] % 32) * 64 + Tail6(s[2])
      [] Len(s) = 3 -> ((s[1] % 16) * 64 + Tail6(s[2])) * 64 + Tail6(s[3])
      [] Len(s) = 4 -> (((s[1] % 8) * 64 + Tail6(s[2])) * 64 + Tail6(s[3])) * 64 + Tail6(s[4])

\* The numbers of the characters that a string may have, and the bytes that
\* each takes.
IsScalar(n) ==
    /\ n <= 1114111
    /\ ~(55296 <= n /\ n <= 57343)
    /\ n \notin {65534, 65535}
Needs(n) == IF n < 128 THEN 1 ELSE IF n < 2048 THEN 2 ELSE IF n < 65536 THEN 3 ELSE 4
Lead(len) == CASE len = 1 -> 0 .. 127
               [] len = 2 -> 192 .. 223
               [] len = 3 -> 224 .. 239
               [] len = 4 -> 240 .. 247

\* The one encoding of a character.
EncodesChar(s) ==
    /\ Len(s) \in 1 .. 4
    /\ s[1] \in Lead(Len(s))
    /\ \A i \in 2 .. Len(s) : s[i] \in 128 .. 191
    /\ IsScalar(CodePoint(s))
    /\ Needs(CodePoint(s)) = Len(s)

\* From one cut of a text to the next, or to its end.
IsPiece(text, cuts, i, j) ==
    /\ i <= j
    /\ j = Len(text) \/ j + 1 \in cuts
    /\ cuts \intersect (i + 1 .. j) = {}

\* The cuts are where the characters of the text begin.
Divides(text, cuts) ==
    /\ text # << >> => 1 \in cuts
    /\ \A i \in cuts, j \in DOMAIN text :
        IsPiece(text, cuts, i, j) => EncodesChar(SubSeq(text, i, j))

IsUtf8(text) == \E cuts \in SUBSET DOMAIN text : Divides(text, cuts)

-----------------------------------------------------------------------------
(* Properties *)

Accepted == read = "true"
Ended == read \notin {"length", "text"}

\* What the call took from the buffer behind the length.
Text == SubSeq(bytes, offset + 1, offset + taken)

\* A call keeps its types: no byte behind the string is taken, and the result
\* does not outgrow its room.
StringTypeOK ==
    /\ TypeOK
    /\ offset + in <= Len(bytes) /\ offset + taken <= Len(bytes)
    /\ result = "true" => in <= str_len
    /\ Len(out) <= out_size
    /\ read \in {"length", "text", "true", "no length", "too long", "no room", "not UTF-8"}

\* A string that is read is UTF-8: it is divided into characters in their
\* shortest forms, none of them a surrogate, and the result has one character
\* for each: that of ASCII, or a question mark.
StringIsConverted ==
    Accepted /\ call = "string" =>
        \E cuts \in SUBSET DOMAIN Text :
            /\ Divides(Text, cuts)
            /\ Cardinality(cuts) = Len(out)
            /\ \A i \in cuts :
                out[Cardinality(cuts \intersect 1 .. i)] =
                    IF Text[i] < 128 THEN Text[i] ELSE UnknownChar

\* A string is refused as not UTF-8 only if it is none, and for want of room
\* only if its result would not fit: no character that exists is refused.
RefusedIsNoString ==
    LET text == SubSeq(bytes, offset + 1, offset + str_len) IN
    call = "string" =>
        /\ read = "not UTF-8" => ~IsUtf8(text)
        /\ read = "no room" =>
            Cardinality({i \in DOMAIN text : ~Continues(text[i])}) > out_size

\* Bytes are copied as they are, and nothing that fits is refused: the length
\* is that of the bytes that follow it, in the buffer and in the result.
BytesAreCopied ==
    call = "bytes" =>
        /\ Accepted => out = Text /\ Len(out) = str_len /\ BeginsWith(Encoding(Len(out)))
        /\ read = "no room" => str_len > out_size
        /\ read = "too long" =>
            str_len > MAX_SEQUENCE_LENGTH \/ offset + str_len > Len(bytes)
=============================================================================
