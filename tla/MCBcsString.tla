---------------------------- MODULE MCBcsString -----------------------------
(***************************************************************************)
(* The instance of BcsString for TLC: numbers of five bits in digits of    *)
(* two.  As in the code the last of the digits that fit has fewer bits than*)
(* the others; the buffers are all those of up to five such digits, two    *)
(* more than the longest number, and texts of up to four bytes behind their*)
(* lengths.  The bytes of the texts are the first and the last of every    *)
(* range that the conversion tells apart, in the place of a first byte, a  *)
(* second or a later one.                                                  *)
(***************************************************************************)
EXTENDS BcsString

Digits == UNION {[1 .. n -> Byte] : n \in 0 .. MaxBytes}

\* 41, 7F | 80, 8F | 90, 9F | A0, BD | BE, BF | C0, C1, C2, DF, E0, E1, ED, EE, EF,
\* F0, F1, F4, F5, FF
FirstBytes == {65, 127, 128, 191, 193, 194, 223, 224, 225, 237, 239, 240, 244, 245, 255}
SecondBytes == {65, 128, 143, 144, 159, 160, 189, 191, 192, 194}
LaterBytes == {65, 128, 189, 190, 191, 195}
Texts ==
    {<< >>} \union {<<a>> : a \in FirstBytes}
        \union {<<a, b>> : a \in FirstBytes, b \in SecondBytes}
        \union {<<a, b, c>> : a \in FirstBytes, b \in SecondBytes, c \in LaterBytes}
        \union {<<a, b, c, d>> :
                    a \in FirstBytes, b \in SecondBytes, c \in LaterBytes, d \in LaterBytes}

MCBuffers == Digits \union {Encoding(Len(text)) \o text : text \in Texts}
                    \union {Encoding(Len(text) + 1) \o text : text \in Texts}
                    \union {Encoding(3) \o text : text \in Texts}
MCOutSizes == {1, 4}
MCMaxSequenceLength == 15
=============================================================================
