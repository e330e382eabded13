------------------------------ MODULE MCReview ------------------------------
(***************************************************************************)
(* Instances of Review, and of the parser below it, with the lengths of the*)
(* code: requests of every size up to SmallSize, and those at the limit of *)
(* what raw_tx holds.  The names that the app does not know are empty, as  *)
(* long as "coin", or longer than one digit of a length counts; the numbers*)
(* are those the parser expects somewhere, and one of two digits that it   *)
(* never expects.                                                          *)
(***************************************************************************)
EXTENDS Review

\* The longest call of these names has 512 bytes, and its footer 25.
SmallSize == 540

MCSizes == 0 .. SmallSize \union {MAX_TRANSACTION_LEN + n : n \in -1 .. 1}
MCOtherLens == {0, 4, 130}
MCNumbers == {0, 1, 2, 3, 7, 8, 32, 128}
MCSizeRange == 65536
=============================================================================
