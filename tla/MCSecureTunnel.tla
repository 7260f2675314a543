--------------------------- MODULE MCSecureTunnel ---------------------------
(* Finite instances of SecureTunnel for TLC. *)
EXTENDS SecureTunnel

MCCell == {"g_value"}
MCCellOf == [e \in RO \cup WO |-> "g_value"]
MCBoundKey == [e \in RO \cup WO |-> 0]

\* The requests come from the modelled clients; the open environment of
\* SecureOd is not used here.
MCWireKid == [e \in RO \cup WO |-> {}]

\* Every client holds the Provisioning key, as with --demo-keys.
MCHolder == [c \in Client |-> [kid |-> 1, key |-> 1]]

\* Every client works on every entry.
MCWorksAll == [c \in Client |-> RO \cup WO]
MCBoot == {<<1, 0, 0>>}
=============================================================================
