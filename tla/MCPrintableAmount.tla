-------------------------- MODULE MCPrintableAmount --------------------------
(***************************************************************************)
(* The instance of PrintableAmount for TLC: amounts of eleven bits have up *)
(* to four digits, and the temporary texts have one byte more, as those of *)
(* the code have 21 for the 20 digits of 64 bits.  In eleven bits the      *)
(* first power of ten that wraps, 10000, leaves 1808, so there are amounts *)
(* below and above it, as there are in 64 bits.                            *)
(***************************************************************************)
EXTENDS PrintableAmount

MCDecimals == 0 .. 4
=============================================================================
