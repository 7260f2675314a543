-------------------------- MODULE MCCommissioning --------------------------
(* Finite instances of Commissioning for TLC. *)
EXTENDS Commissioning

MCCell == {"g_value"}
MCCellOf == [e \in RO \cup WO |-> "g_value"]
MCBoundKey == [e \in RO \cup WO |-> 0]

\* Single-shot keyids of the install ladder on the key set, none elsewhere.
MCLadderKids == [e \in RO \cup WO |-> IF e \in KeySet THEN {1, 2, 4} ELSE {}]

\* Key files: no session key, all but Operator.
MCBoot == {<<0, 0, 0>>, <<1, 1, 0>>}
=============================================================================
