------------------------------- MODULE Powers -------------------------------
(***************************************************************************)
(* Powers of a whole number, as a recursion: the operator ^ of Integers    *)
(* says the same, but no prover knows it for an exponent that varies.      *)
(***************************************************************************)
EXTENDS Integers

Power(base, exponent) ==
    LET power[n \in Nat] == IF n = 0 THEN 1 ELSE base * power[n - 1]
    IN  power[exponent]
=============================================================================
