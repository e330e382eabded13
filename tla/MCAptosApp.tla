----------------------------- MODULE MCAptosApp -----------------------------
(***************************************************************************)
(* Instances of AptosApp for TLC.  The buffers are scaled down: a chunk    *)
(* has one or two bytes (MaxLc = 2), a request at most three packets, and  *)
(* g_struct four bytes, so that texts (up to 3 bytes) and raw messages (up *)
(* to 1 byte) fall on both sides of their limits.                          *)
(***************************************************************************)
EXTENDS AptosApp

CONSTANTS c1, c2, p1, p2

MCChunks == {c1, c2}
MCSize == [c \in MCChunks |-> IF c = c1 THEN 1 ELSE 2]
MCPaths == {p1, p2}
MCLongPaths == {p2}
=============================================================================
