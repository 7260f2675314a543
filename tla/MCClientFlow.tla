---------------------------- MODULE MCClientFlow ----------------------------
(* Finite instances of ClientFlow for TLC. *)
EXTENDS ClientFlow

MCCell == {"g_value"}
MCCellOf == [e \in RO \cup WO |-> "g_value"]
MCBoundKey == [e \in RO \cup WO |-> 0]
MCKids == [e \in RO \cup WO |-> {}]

Run(mode, flags, floor, enc, file) ==
    [mode |-> mode, flags |-> flags, floor |-> floor, enc |-> enc, token |-> ClaimToken,
     file |-> file]
Flag(f, n) == [f |-> f, n |-> n]

\* Key flags in orders the parser accepts and refuses.
MCFlags ==
    {<<>>,
     <<Flag("keyid", 2), Flag("key", 2)>>,
     <<Flag("keyid", 2), Flag("key", 2), Flag("bad", 0)>>,
     <<Flag("key", 2), Flag("keyid", 2)>>,
     <<Flag("keyid", 2), Flag("key", 2), Flag("keyid", 3)>>,
     <<Flag("keyid", 1), Flag("main", 0), Flag("salt", 0)>>,
     <<Flag("keyid", 1), Flag("main", 0)>>,
     <<Flag("file", [i \in {1} |-> 2]), Flag("keyid", 1)>>,
     <<Flag("file", [i \in {1, 2} |-> IF i = 1 THEN 2 ELSE 0])>>}

\* The first client: the menu under the demo keys and the one-shot command.
MCFirst ==
    {Run("menu", <<>>, "ANY", FALSE, FALSE), Run("commission", <<>>, "ANY", FALSE, FALSE)}

\* The second: the menu with a key of its own and a voucher from a file, verbs,
\* and the gate with a floor the device meets and one it does not.
MCSecond ==
    {Run("menu", <<Flag("file", [i \in {1} |-> 2]), Flag("keyid", 1)>>, "ANY", TRUE, TRUE),
     Run("menu", <<>>, "X509", FALSE, FALSE), Run("check", <<>>, "SIGNED", FALSE, FALSE)}
        \cup {Run("verb", f, "ANY", FALSE, FALSE) : f \in MCFlags}

MCOptions == [c \in Client |-> IF c = 1 THEN MCFirst ELSE MCSecond]

MCChoices == [c \in Client |-> IF c = 1 THEN 3 ELSE 2]

\* A device without session keys, and one whose key file lacks the Operator key.
MCNoKeys == {<<0, 0, 0>>}
MCPartKeys == {<<1, 1, 0>>}
=============================================================================
