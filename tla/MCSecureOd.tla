----------------------------- MODULE MCSecureOd -----------------------------
(* Finite instances of SecureOd for TLC. *)
EXTENDS SecureOd

\* One storage cell behind every entry, as g_value is behind 2020h and 2010h.
MCCell == {"g_value"}
MCCellOf == [e \in RO \cup WO |-> "g_value"]
MCBoundKey == [e \in RO \cup WO |-> 0]

\* Wire keyids: the Provisioning key, cyclic (41h).
MCCyclicKids == [e \in RO \cup WO |-> {65}]

\* On the key set a cyclic 41h, elsewhere the Maintenance key's 02h.
MCPollLadderKids == [e \in RO \cup WO |-> IF e \in KeySet THEN {65} ELSE {2}]

\* The key file sets the Provisioning key only.
MCBootProv == {<<1, 0, 0>>}
=============================================================================
