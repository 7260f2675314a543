---------------------------- MODULE MCSlotExpiry ----------------------------
(* Finite instances of SlotExpiry for TLC. *)
EXTENDS SlotExpiry

MCCell == {"g_value"}
MCCellOf == [e \in RO \cup WO |-> "g_value"]
MCBoundKey == [e \in RO \cup WO |-> 0]
\* Cyclic sessions on the read entries only.
MCReadCyclicKids == [e \in RO \cup WO |-> IF e \in RO THEN {1, 65} ELSE {1}]
MCBoot == {<<1, 0, 0>>}
=============================================================================
