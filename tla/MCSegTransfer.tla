--------------------------- MODULE MCSegTransfer ---------------------------
(* Finite instances of SegTransfer for TLC. *)
EXTENDS SegTransfer, TLC

CONSTANTS c1, c2

\* Bodies of one block that fit and do not fit a single frame, of two and three.
MCSize == [y \in Content |-> CASE y = "m" -> 2 [] y = "l" -> 3 [] OTHER -> 1]
MCLong == Content \ {"s"}

\* No action tells the clients apart.
ClientSymmetry == Permutations(Client)
=============================================================================
