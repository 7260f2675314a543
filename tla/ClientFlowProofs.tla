-------------------------- MODULE ClientFlowProofs --------------------------
(***************************************************************************)
(* Machine-checked facts about the commissioning client, for every number  *)
(* of clients, all command lines and key files, and any loss or restart.   *)
(***************************************************************************)
EXTENDS ClientFlow, CommissioningProofs

-----------------------------------------------------------------------------
(* The inductive invariant, about one process. *)

\* While a rung is being installed the selected key is a borrowed one, and the
\* user's choice is put aside.
Borrowed(r) ==
    IF r.pc \in {"rung", "pass2"} THEN r.saved = r.chosen /\ r.rung \in 1..3
    ELSE r.keyid = r.chosen

\* The second pass of a rung runs under the authorizing key, with a key to install.
Paired(r) == r.pc = "pass2" => r.keyid = Authorizer[r.rung] /\ r.key[r.rung] # NoKey

\* The session keys the user supplied are still there.
Supplied(r) == \A i \in 1..3 : r.given[i] # NoKey => r.key[i] = r.given[i]

\* A verb has its key before the gate, and keeps it; the commission command has
\* no gate.
Launched(r) ==
    /\ r.pc = "gate" => r.mode # "commission"
    /\ r.pc = "verb" => r.mode = "verb"
    /\ r.pc \in {"gate", "verb"} /\ r.mode = "verb" => r.keyid # 0 /\ r.given[r.keyid] # NoKey

\* The mechanisms as far as read are the device's, and a floor that is behind the
\* process is one they meet.
Floored(r) ==
    /\ r.pc = "gate" => r.caps[8] \in {0, Mech.AEAD + Mech.SIGNED}
    /\ r.floor # "ANY" /\ r.pc \notin {"idle", "gate"} => r.floor \in {"AEAD", "SIGNED"}

Sound(r) ==
    r \in Process /\ Borrowed(r) /\ Paired(r) /\ Supplied(r) /\ Launched(r) /\ Floored(r)

\* Every process is sound, and a challenge it holds was drawn.
ClientsInv ==
    /\ FlowTypeOK
    /\ \A c \in Client : Sound(cl[c]) /\ (cl[c].pc = "command" => cl[c].nonce \in 1..srand)

FlowInv == CommType /\ ClientsInv

-----------------------------------------------------------------------------
(* What the command line leaves behind. *)

LEMMA KeyFacts ==
    /\ NoKey \notin KeyVal /\ ClaimToken \in KeyVal /\ DemoKey \in KeyVal /\ HkdfKey \in KeyVal
    /\ 1..4 \subseteq ClientSlot /\ ClientSlot \subseteq 0..KeyidMax /\ 0 \notin ClientSlot
    /\ 0..4 \subseteq 0..KeyidMax /\ 0 \in Epoch /\ DemoVoucherEpoch \in Epoch
BY SodConstants, FlowConstants, CommissioningConstants DEF ClientSlot, NoKey, Epoch

\* A key flag as parse_args may meet it: its argument is a number, a key or the
\* rows of a file, and possibly refused.
WellFormedFlag(a) ==
    /\ a.f \in {"keyid", "key", "main", "salt", "file", "bad"}
    /\ a.f = "key" => a.n \in KeyVal \cup {NoKey}
    /\ a.f = "file" => a.n \in [DOMAIN a.n -> KeyVal \cup {NoKey}]

LEMMA NoStoreType == NoStore \in Store
BY FlowConstants DEF NoStore, Store

LEMMA StoreExcept ==
    ASSUME NEW s \in Store
    PROVE  /\ [s EXCEPT !.err = TRUE] \in Store
           /\ [s EXCEPT !.main = TRUE] \in Store
           /\ [s EXCEPT !.salt = TRUE] \in Store
           /\ \A n \in ClientSlot : [s EXCEPT !.keyid = n] \in Store
           /\ \A i \in ClientSlot, k \in KeyVal \cup {NoKey} :
                 LET t == [s EXCEPT !.key[i] = k]
                 IN  t \in Store /\ t.keyid = s.keyid /\ t.key[i] = k
BY KeyFacts DEF Store

LEMMA LoadFileType ==
    ASSUME NEW s \in Store, NEW rows, rows \in [DOMAIN rows -> KeyVal \cup {NoKey}]
    PROVE  LoadFile(s, rows) \in Store
<1>. DEFINE k == [i \in ClientSlot |->
                     IF i \in DOMAIN rows /\ rows[i] # NoKey THEN rows[i] ELSE s.key[i]]
            e == \/ \A i \in DOMAIN rows : rows[i] = NoKey
                 \/ \E i \in DOMAIN rows : i \notin ClientSlot \/ rows[i] = NoKey
<1>1. k \in [ClientSlot -> KeyVal \cup {NoKey}] /\ e \in BOOLEAN
  BY DEF Store
<1>2. LoadFile(s, rows) = [s EXCEPT !.key = k, !.err = e]
  BY DEF LoadFile, Store
<1>. HIDE DEF k, e
<1>. QED  BY <1>1, <1>2 DEF Store

\* fbsec_client_keys_set_keyid, _set_key, _load_file: a flag leaves the key
\* store well formed, in whatever order flags come.
LEMMA ApplyFlagType ==
    ASSUME NEW s \in Store, NEW a, WellFormedFlag(a)
    PROVE  ApplyFlag(s, a) \in Store
<1>1. s.keyid # 0 => s.keyid \in ClientSlot
  BY FlowConstants DEF Store, ClientSlot
<1>2. a.f = "file" => LoadFile(s, a.n) \in Store
  BY LoadFileType DEF WellFormedFlag
<1>. QED  BY <1>1, <1>2, StoreExcept DEF ApplyFlag, WellFormedFlag

LEMMA DeriveType ==
    ASSUME NEW s \in Store
    PROVE  /\ Derive(s) \in Store /\ Derive(s).keyid = s.keyid
           /\ SessionSet(s) \/ (s.main /\ s.keyid # 0) =>
                 s.keyid # 0 /\ Derive(s).key[s.keyid] # NoKey
<1>1. s.keyid # 0 => s.keyid \in ClientSlot
  BY FlowConstants DEF Store, ClientSlot
<1>2. CASE s.main /\ s.keyid \in ClientSlot /\ ~SessionSet(s)
  <2>1. Derive(s) = [s EXCEPT !.key[s.keyid] = HkdfKey]
    BY <1>2 DEF Derive
  <2>2. /\ Derive(s) \in Store /\ Derive(s).keyid = s.keyid
        /\ Derive(s).key[s.keyid] = HkdfKey
    BY <1>2, <2>1, KeyFacts DEF Store
  <2>. QED  BY <1>2, <2>2, KeyFacts
<1>3. CASE ~(s.main /\ s.keyid \in ClientSlot /\ ~SessionSet(s))
  <2>1. Derive(s) = s
    BY <1>3 DEF Derive
  <2>. QED  BY <1>1, <1>3, <2>1, KeyFacts DEF SessionSet
<1>. QED  BY <1>2, <1>3

-----------------------------------------------------------------------------
(* Transitions of one process. *)

LEMMA IdleSound ==
    ASSUME NEW n \in Nat
    PROVE  Sound(Idle(n)) /\ Idle(n).pc = "idle"
<1>1. [i \in ClientSlot |-> NoKey] \in [ClientSlot -> KeyVal \cup {NoKey}]
  OBVIOUS
<1>2. NoCaps \in [0..CapSubMax -> Nat]
  BY DEF NoCaps, CapSubMax
<1>3. MaxRandom \in Nat
  BY SodConstants
<1>4. Idle(n) \in Process
  BY <1>1, <1>2, <1>3, KeyFacts DEF Idle, Process, NoStore, Pc, Mode, Floor, CapSubMax
<1>. QED  BY <1>4 DEF Idle, Sound, Borrowed, Paired, Supplied, Launched, Floored, NoStore

LEMMA ExitSound ==
    ASSUME NEW r \in Process
    PROVE  Sound(Exit(r)) /\ Exit(r).pc = "idle"
BY IdleSound DEF Exit, Process

\* A step between prompts and requests that are not part of a rung, or the
\* first into one, leaves choice, keys and floor as they are.
LEMMA OnwardSound ==
    ASSUME NEW r, Sound(r), r.pc \notin {"idle", "gate", "rung", "pass2"},
           NEW s \in Process, s.pc \notin {"gate", "verb", "pass2"},
           s.chosen = r.chosen, s.given = r.given, s.floor = r.floor,
           \A i \in 1..3 : s.key[i] = r.key[i],
           IF s.pc = "rung" THEN s.saved = r.keyid /\ s.rung \in 1..3 ELSE s.keyid = r.keyid
    PROVE  Sound(s)
BY DEF Sound, Borrowed, Paired, Supplied, Launched, Floored

\* install_key_rung borrows the selected key.
LEMMA StartRungSound ==
    ASSUME NEW r, Sound(r), r.pc \notin {"idle", "gate", "rung", "pass2"}, NEW n \in 1..3
    PROVE  Sound(StartRung(r, n)) /\ StartRung(r, n).pc = "rung"
<1>1. r \in Process
  BY DEF Sound
<1>2. StartRung(r, n) \in Process
  <2>1. "rung" \in Pc /\ n \in 0..3 /\ r.keyid \in 0..KeyidMax
    BY <1>1 DEF Pc, Process
  <2>. QED  BY <1>1, <2>1 DEF StartRung, Process
<1>3. /\ StartRung(r, n).pc = "rung" /\ StartRung(r, n).saved = r.keyid
      /\ StartRung(r, n).rung = n /\ StartRung(r, n).chosen = r.chosen
      /\ StartRung(r, n).given = r.given /\ StartRung(r, n).floor = r.floor
      /\ StartRung(r, n).key = r.key
  BY <1>1 DEF StartRung, Process
<1>. QED  BY <1>2, <1>3, OnwardSound

LEMMA PastGateSound ==
    ASSUME NEW r \in Process, r.keyid = r.chosen, Supplied(r), r.mode # "commission",
           r.mode = "verb" => r.keyid # 0 /\ r.given[r.keyid] # NoKey,
           r.floor = "ANY" \/ r.floor \in {"AEAD", "SIGNED"}
    PROVE  Sound(PastGate(r)) /\ PastGate(r).pc # "command"
<1>1. CASE r.mode = "check"
  BY <1>1, ExitSound DEF PastGate
<1>2. CASE r.mode # "check"
  <2>. DEFINE s == [r EXCEPT !.pc = IF r.mode = "menu" THEN "menu" ELSE "verb",
                             !.caps = NoCaps, !.sub = 0]
  <2>1. PastGate(r) = s
    BY <1>2 DEF PastGate
  <2>2. NoCaps \in [0..CapSubMax -> Nat] /\ 0 \in 0..CapSubMax
    BY DEF NoCaps, CapSubMax
  <2>3. s \in Process
    BY <2>2 DEF Process, Pc, Prompt
  <2>4. /\ s.pc = (IF r.mode = "menu" THEN "menu" ELSE "verb") /\ s.mode = r.mode
        /\ s.keyid = r.keyid /\ s.chosen = r.chosen /\ s.key = r.key /\ s.given = r.given
        /\ s.floor = r.floor
    BY DEF Process
  <2>5. r.mode \in {"menu", "verb"}
    BY <1>2 DEF Process, Mode
  <2>. HIDE DEF s
  <2>. QED  BY <2>1, <2>3, <2>4, <2>5
            DEF Sound, Borrowed, Paired, Supplied, Launched, Floored
<1>. QED  BY <1>1, <1>2

LEMMA LaunchSound ==
    ASSUME NEW o, o.mode \in Mode, o.floor \in Floor, o.token \in KeyVal,
           o.enc \in BOOLEAN, o.file \in BOOLEAN, Parse(o.flags) \in Store,
           NEW left \in Nat
    PROVE  /\ Launch(o, left) \in Process /\ Launch(o, left).pc = "idle"
           /\ Launch(o, left).keyid = Launch(o, left).chosen
           /\ Supplied(Launch(o, left))
           /\ Launch(o, left).mode = o.mode /\ Launch(o, left).floor = o.floor
           /\ Launch(o, left).caps = NoCaps
           /\ Launch(o, left).keyid = Parse(o.flags).keyid
           /\ Launch(o, left).given = Derive(Parse(o.flags)).key
<1>. DEFINE s == Parse(o.flags)
            k == Derive(s)
            r == Launch(o, left)
<1>1. s \in Store /\ k \in Store /\ k.keyid = s.keyid
  BY DeriveType
<1>2. k.key \in [ClientSlot -> KeyVal \cup {NoKey}] /\ k.keyid \in 0..KeyidMax /\ s.main \in BOOLEAN
  BY <1>1 DEF Store
<1>3. Backfill(k.key) \in [ClientSlot -> KeyVal \cup {NoKey}]
  BY <1>2, KeyFacts DEF Backfill
<1>4. \A i \in 1..3 : k.key[i] # NoKey => Backfill(k.key)[i] = k.key[i]
  BY KeyFacts DEF Backfill
<1>5. Idle(left) \in Process /\ Idle(left).pc = "idle" /\ Idle(left).caps = NoCaps
  BY IdleSound DEF Sound, Idle
<1>6. r = [Idle(left) EXCEPT !.mode = o.mode, !.enc = o.enc, !.token = o.token, !.file = o.file,
                             !.floor = o.floor, !.main = s.main,
                             !.keyid = k.keyid, !.chosen = k.keyid,
                             !.key = Backfill(k.key), !.given = k.key]
  BY DEF Launch
<1>. HIDE DEF s, k, r
<1>7. r \in Process
  BY <1>2, <1>3, <1>5, <1>6 DEF Process
<1>8. /\ r.pc = "idle" /\ r.keyid = k.keyid /\ r.chosen = k.keyid /\ r.key = Backfill(k.key)
      /\ r.given = k.key /\ r.mode = o.mode /\ r.floor = o.floor /\ r.caps = NoCaps
  BY <1>5, <1>6 DEF Process
<1>9. Supplied(r)
  BY <1>4, <1>8 DEF Supplied
<1>. QED  BY <1>1, <1>7, <1>8, <1>9 DEF r, k, s

\* A one-shot verb that passes the credential check has a key of its own.
LEMMA VerbHasKey ==
    ASSUME NEW s \in Store, CredentialsOk(s, "verb", TRUE)
    PROVE  s.keyid # 0 /\ Derive(s).key[s.keyid] # NoKey
BY DeriveType DEF CredentialsOk

-----------------------------------------------------------------------------
(* One step of one client. *)

LEMMA MoveStep ==
    ASSUME ClientsInv, NEW c \in Client, NEW s, Sound(s), Move(c, s),
           srand \in Nat, srand' \in {srand, srand + 1},
           s.pc = "command" => s.nonce \in 1..srand'
    PROVE  ClientsInv'
<1>1. s \in Process
  BY DEF Sound
<1>2. cl' = [cl EXCEPT ![c] = s] /\ cl \in [Client -> Process]
  BY DEF Move, ClientsInv, FlowTypeOK
<1>3. FlowTypeOK'
  BY <1>1, <1>2 DEF FlowTypeOK
<1>4. \A d \in Client : cl'[d] = IF d = c THEN s ELSE cl[d]
  BY <1>2
<1>5. ASSUME NEW d \in Client
      PROVE  Sound(cl'[d]) /\ (cl'[d].pc = "command" => cl'[d].nonce \in 1..srand')
  <2>1. CASE d = c
    BY <1>4, <2>1
  <2>2. CASE d # c
    <3>1. cl'[d] = cl[d]
      BY <1>4, <2>2
    <3>2. Sound(cl[d]) /\ (cl[d].pc = "command" => cl[d].nonce \in 1..srand)
      BY DEF ClientsInv
    <3>3. cl[d].pc = "command" => cl[d].nonce \in 1..srand'
      BY <3>2
    <3>. QED  BY <3>1, <3>2, <3>3
  <2>. QED  BY <2>1, <2>2
<1>. QED  BY <1>3, <1>5 DEF ClientsInv

\* The server does nothing.
LEMMA ServerIdle ==
    ASSUME CommType, UNCHANGED commVars
    PROVE  CommType' /\ srand' = srand /\ srand \in Nat
<1>1. CommType'
  BY CommTypeStep
<1>. QED  BY <1>1 DEF commVars, vars, CommType, TypeOK

LEMMA StartStep ==
    ASSUME FlowInv, NEW c \in Client, Start(c)
    PROVE  FlowInv'
<1>1. cl[c] \in Process /\ cl[c].left \in Nat /\ cl[c].left - 1 \in Nat
  BY DEF FlowInv, ClientsInv, FlowTypeOK, Process, Start
<1>2. PICK o \in Options[c], anyVerb \in BOOLEAN, fails \in BOOLEAN :
         LET s == Parse(o.flags)
             r == Launch(o, cl[c].left - 1)
         IN  /\ o.mode # "check" => anyVerb
             /\ Move(c, IF fails THEN Exit(r)
                        ELSE IF o.mode = "commission"
                        THEN [Idle(cl[c].left - 1) EXCEPT !.mode = o.mode, !.pc = "genuine"]
                        ELSE IF s.err \/ ~CredentialsOk(s, o.mode, anyVerb) THEN Exit(r)
                        ELSE IF o.floor = "ANY" THEN PastGate(r)
                        ELSE [r EXCEPT !.pc = "gate"])
  BY DEF Start
<1>. DEFINE s == Parse(o.flags)
            r == Launch(o, cl[c].left - 1)
<1>3. /\ o.mode \in Mode /\ o.floor \in Floor /\ o.token \in KeyVal
      /\ o.enc \in BOOLEAN /\ o.file \in BOOLEAN /\ s \in Store
  BY OptionsTyped
<1>4. /\ r \in Process /\ r.pc = "idle" /\ r.keyid = r.chosen /\ Supplied(r)
      /\ r.mode = o.mode /\ r.floor = o.floor /\ r.caps = NoCaps /\ r.keyid = s.keyid
      /\ r.given = Derive(s).key
  BY <1>1, <1>3, LaunchSound
<1>5. o.mode = "verb" /\ CredentialsOk(s, o.mode, anyVerb) => r.keyid # 0 /\ r.given[r.keyid] # NoKey
  BY <1>2, <1>3, <1>4, VerbHasKey
<1>6. CommType' /\ srand' = srand /\ srand \in Nat
  BY ServerIdle DEF FlowInv, Start
<1>. HIDE DEF r, s
<1>7. CASE Move(c, Exit(r))
  BY <1>4, <1>6, <1>7, ExitSound, MoveStep DEF FlowInv
<1>8. CASE Move(c, [Idle(cl[c].left - 1) EXCEPT !.mode = o.mode, !.pc = "genuine"])
  <2>. DEFINE i == Idle(cl[c].left - 1)
              t == [i EXCEPT !.mode = o.mode, !.pc = "genuine"]
  <2>1. i \in Process /\ i.keyid = i.chosen /\ Supplied(i) /\ i.floor = "ANY"
    BY <1>1, IdleSound DEF Sound, Borrowed, Idle
  <2>. HIDE DEF i
  <2>2. t \in Process
    <3>1. "genuine" \in Pc
      BY DEF Pc
    <3>. QED  BY <1>3, <2>1, <3>1 DEF Process
  <2>3. /\ t.pc = "genuine" /\ t.keyid = i.keyid /\ t.chosen = i.chosen /\ t.key = i.key
        /\ t.given = i.given /\ t.floor = i.floor
    BY <2>1 DEF Process
  <2>. HIDE DEF t
  <2>4. Sound(t)
    BY <2>1, <2>2, <2>3 DEF Sound, Borrowed, Paired, Supplied, Launched, Floored
  <2>. QED  BY <1>6, <1>8, <2>3, <2>4, MoveStep DEF FlowInv, t, i
<1>9. CASE o.mode # "commission" /\ CredentialsOk(s, o.mode, anyVerb) /\ o.floor = "ANY"
           /\ Move(c, PastGate(r))
  BY <1>4, <1>5, <1>6, <1>9, PastGateSound, MoveStep DEF FlowInv
<1>10. CASE o.mode # "commission" /\ CredentialsOk(s, o.mode, anyVerb)
            /\ Move(c, [r EXCEPT !.pc = "gate"])
  <2>. DEFINE t == [r EXCEPT !.pc = "gate"]
  <2>1. t \in Process
    BY <1>4 DEF Process, Pc
  <2>2. /\ t.pc = "gate" /\ t.keyid = r.keyid /\ t.chosen = r.chosen /\ t.key = r.key
        /\ t.given = r.given /\ t.floor = r.floor /\ t.mode = r.mode /\ t.caps = NoCaps
    BY <1>4 DEF Process
  <2>3. t.caps[8] = 0
    BY <2>2 DEF NoCaps, CapSubMax
  <2>. HIDE DEF t
  <2>4. Sound(t)
    BY <1>4, <1>5, <1>10, <2>1, <2>2, <2>3
       DEF Sound, Borrowed, Paired, Supplied, Launched, Floored
  <2>. QED  BY <1>6, <1>10, <2>2, <2>4, MoveStep DEF FlowInv, t
<1>. QED  BY <1>2, <1>7, <1>8, <1>9, <1>10 DEF r, s

-----------------------------------------------------------------------------
(* The capability record and the gate. *)

\* put_u16le, get_u16le and the others: a field survives the wire, byte by byte.
LEMMA FieldType ==
    ASSUME NEW v \in Nat, NEW n \in 1..4
    PROVE  /\ PutLe(v, n) \in [1..n -> 0..255] /\ Len(PutLe(v, n)) = n
           /\ PutLe(v, n) # <<>>
           /\ GetLe(PutLe(v, n)) \in Nat
<1>1. Weight[1] = 1 /\ Weight[2] = 256 /\ Weight[3] = 65536 /\ Weight[4] = 16777216
  BY DEF Weight
<1>2. ASSUME NEW i \in 1..n
      PROVE  (v \div Weight[i]) % 256 \in 0..255
  <2>1. Weight[i] \in {1, 256, 65536, 16777216}
    BY <1>1
  <2>2. \A w \in {1, 256, 65536, 16777216} : v \div w \in Nat
    OBVIOUS
  <2>. QED  BY <2>1, <2>2
<1>3. PutLe(v, n) \in [1..n -> 0..255]
  BY <1>2 DEF PutLe
<1>4. PutLe(v, n) \in Seq(0..255) /\ Len(PutLe(v, n)) = n
  BY <1>3
<1>5. PutLe(v, n) # <<>>
  BY <1>4
<1>6. ASSUME NEW in \in [1..n -> 0..255], Len(in) = n
      PROVE  GetLe(in) \in Nat
  <2>. DEFINE at(i) == IF i <= Len(in) THEN in[i] * Weight[i] ELSE 0
  <2>1. ASSUME NEW i \in 1..4, i <= n
        PROVE  in[i] \in Nat
    <3>1. i \in 1..n
      BY <2>1
    <3>2. in[i] \in 0..255
      BY <3>1
    <3>3. \A x \in 0..255 : x \in Nat
      OBVIOUS
    <3>. QED  BY <3>2, <3>3, Zenon
  <2>2. at(1) \in Nat
    BY <1>1, <1>6, <2>1
  <2>3. at(2) \in Nat
    BY <1>1, <1>6, <2>1
  <2>4. at(3) \in Nat
    BY <1>1, <1>6, <2>1
  <2>5. at(4) \in Nat
    BY <1>1, <1>6, <2>1
  <2>6. GetLe(in) = at(1) + at(2) + at(3) + at(4)
    BY DEF GetLe
  <2>. HIDE DEF at
  <2>. QED  BY <2>2, <2>3, <2>4, <2>5, <2>6
<1>. QED  BY <1>3, <1>4, <1>5, <1>6

LEMMA MechField == GetLe(PutLe(3, 2)) = 3
<1>1. PutLe(3, 2) = <<3, 0>>
  BY DEF PutLe, Weight
<1>2. GetLe(<<3, 0>>) = 3
  BY DEF GetLe, Weight
<1>. QED  BY <1>1, <1>2

\* try_serve_descriptor answers every sub-index of C000h in full, and the one of
\* the mechanisms always with the same two.
LEMMA CapReplyBody ==
    ASSUME CommType, NEW sub \in 0..CapSubMax
    PROVE  /\ GetLe(CapReply(sub).body) \in Nat
           /\ sub = 8 => GetLe(CapReply(sub).body) = Mech.AEAD + Mech.SIGNED
           /\ LiveCaps[8] = Mech.AEAD + Mech.SIGNED
<1>1. IdFlags \in Nat
  BY DEF IdFlags, IdBit, CommType, CommTypeOK
<1>2. LiveCaps[0] = 8 /\ LiveCaps[8] = 3 /\ Mech.AEAD + Mech.SIGNED = 3
  BY DEF LiveCaps, BuildCaps, CapSubMax, Mech
<1>3. LiveCaps[sub] \in Nat
  BY <1>1 DEF LiveCaps, BuildCaps, CapSubMax, Mech, Gate, Aes128Gcm, TagLen, AllKeys
<1>4. CapWidth[sub] \in 1..4 /\ DOMAIN CapWidth = 0..CapSubMax /\ CapWidth[8] = 2
  BY DEF CapWidth, CapSubMax
<1>5. CapReply(sub).body = PutLe(LiveCaps[sub], CapWidth[sub])
  BY <1>2, <1>4 DEF CapReply, ServeDescriptor, SerializeSub, CapSubMax
<1>. QED  BY <1>2, <1>3, <1>4, <1>5, FieldType, MechField

LEMMA NextCapsSound ==
    ASSUME NEW r, Sound(r), r.pc = "gate", NEW reply, GetLe(reply.body) \in Nat,
           r.sub = 8 => GetLe(reply.body) = Mech.AEAD + Mech.SIGNED
    PROVE  Sound(NextCaps(r, reply)) /\ NextCaps(r, reply).pc # "command"
<1>. DEFINE caps == DeserializeSub(r.caps, r.sub, reply.body)
            t == [r EXCEPT !.caps = caps, !.sub = @ + 1]
<1>1. r \in Process /\ r.caps \in [0..CapSubMax -> Nat] /\ r.sub \in 0..CapSubMax
  BY DEF Sound, Process
<1>2. caps \in [0..CapSubMax -> Nat] /\ caps[8] \in {0, Mech.AEAD + Mech.SIGNED}
  BY <1>1 DEF DeserializeSub, Sound, Floored, CapSubMax
<1>3. CASE NextCaps(r, reply) = Exit(r)
  BY <1>1, <1>3, ExitSound
<1>4. CASE caps[0] <= CapSubMax /\ r.sub < caps[0] /\ NextCaps(r, reply) = t
  <2>1. r.sub + 1 \in 0..CapSubMax
    BY <1>1, <1>2, <1>4 DEF CapSubMax
  <2>. HIDE DEF caps
  <2>2. t \in Process
    BY <1>1, <1>2, <2>1 DEF Process
  <2>3. /\ t.pc = "gate" /\ t.keyid = r.keyid /\ t.chosen = r.chosen /\ t.key = r.key
        /\ t.given = r.given /\ t.floor = r.floor /\ t.mode = r.mode /\ t.caps = caps
    BY <1>1 DEF Process
  <2>. HIDE DEF t
  <2>. QED  BY <1>2, <1>4, <2>2, <2>3
            DEF Sound, Borrowed, Paired, Supplied, Launched, Floored
<1>5. CASE MeetsMin(caps, r.floor) /\ NextCaps(r, reply) = PastGate(r)
  <2>1. r.floor \in Floor
    BY <1>1 DEF Process
  <2>2. r.floor = "ANY" \/ r.floor \in {"AEAD", "SIGNED"}
    <3>1. SUFFICES ASSUME r.floor = "X509"
                   PROVE  FALSE
      BY <2>1 DEF Floor
    <3>2. HasBit(caps[8], 4)
      BY <1>5, <3>1 DEF MeetsMin, Mech
    <3>. QED  BY <1>2, <3>2 DEF HasBit, Mech
  <2>. QED  BY <1>1, <1>5, <2>2, PastGateSound DEF Sound, Borrowed, Launched
<1>. HIDE DEF t
<1>6. caps[0] \in Nat
  BY <1>2 DEF CapSubMax
<1>. QED  BY <1>1, <1>3, <1>4, <1>5, <1>6 DEF NextCaps, t, CapSubMax

LEMMA EnforceStep ==
    ASSUME FlowInv, NEW c \in Client, Enforce(c)
    PROVE  FlowInv'
<1>. DEFINE r == cl[c]
            reply == CapReply(r.sub)
<1>1. Sound(r) /\ r \in Process /\ r.sub \in 0..CapSubMax /\ r.pc = "gate"
  BY DEF FlowInv, ClientsInv, Sound, Process, Enforce
<1>2. Sound(NextCaps(r, reply)) /\ NextCaps(r, reply).pc # "command"
  BY <1>1, CapReplyBody, NextCapsSound DEF FlowInv
<1>3. Sound(Exit(r)) /\ Exit(r).pc # "command"
  BY <1>1, ExitSound
<1>4. UNCHANGED commVars /\ \E s \in {NextCaps(r, reply), Exit(r)} : Move(c, s)
  BY DEF Enforce, ColdRead, Rpc
<1>5. CommType' /\ srand' = srand /\ srand \in Nat
  BY <1>4, ServerIdle DEF FlowInv
<1>. HIDE DEF r, reply
<1>. QED  BY <1>2, <1>3, <1>4, <1>5, MoveStep DEF FlowInv

-----------------------------------------------------------------------------
(* The menu. *)

LEMMA ProcessAt ==
    ASSUME FlowInv, NEW c \in Client
    PROVE  Sound(cl[c]) /\ cl[c] \in Process
BY DEF FlowInv, ClientsInv, Sound

LEMMA SelectKeyStep ==
    ASSUME FlowInv, NEW c \in Client, SelectKey(c)
    PROVE  FlowInv'
<1>. DEFINE r == cl[c]
<1>1. Sound(r) /\ r \in Process /\ r.pc \in {"menu", "pick"}
  BY ProcessAt DEF SelectKey
<1>2. PICK k \in Selectable(r) :
         Move(c, [r EXCEPT !.keyid = k, !.chosen = k, !.report = "none",
                           !.pc = IF @ = "pick" THEN "rd" ELSE @])
  BY DEF SelectKey
<1>. DEFINE t == [r EXCEPT !.keyid = k, !.chosen = k, !.report = "none",
                           !.pc = IF @ = "pick" THEN "rd" ELSE @]
<1>3. k \in 0..KeyidMax
  <2>1. r.keyid \in 0..KeyidMax
    BY <1>1 DEF Process
  <2>2. k \in 0..3 \/ k = r.keyid
    BY <1>2 DEF Selectable
  <2>. QED  BY <2>1, <2>2, FlowConstants
<1>4. CommType' /\ srand' = srand /\ srand \in Nat
  BY ServerIdle DEF FlowInv, SelectKey
<1>. HIDE DEF r
<1>5. t \in Process
  <2>1. (IF r.pc = "pick" THEN "rd" ELSE r.pc) \in Pc
    BY <1>1 DEF Pc, Prompt
  <2>. QED  BY <1>1, <1>3, <2>1 DEF Process
<1>6. /\ t.pc \in {"menu", "rd"} /\ t.keyid = k /\ t.chosen = k /\ t.key = r.key
      /\ t.given = r.given /\ t.floor = r.floor
  BY <1>1 DEF Process
<1>. HIDE DEF t
<1>7. Sound(t)
  BY <1>1, <1>5, <1>6 DEF Sound, Borrowed, Paired, Supplied, Launched, Floored
<1>. QED  BY <1>2, <1>4, <1>6, <1>7, MoveStep DEF FlowInv, t, r

LEMMA NavigateStep ==
    ASSUME FlowInv, NEW c \in Client, Navigate(c)
    PROVE  FlowInv'
<1>. DEFINE r == [cl[c] EXCEPT !.report = "none"]
            t(p) == [r EXCEPT !.pc = p]
            u(p) == [r EXCEPT !.pc = p, !.acts = {}]
<1>1. Sound(cl[c]) /\ cl[c] \in Process
  BY ProcessAt
<1>2. /\ r \in Process /\ r.pc = cl[c].pc /\ r.keyid = cl[c].keyid /\ r.chosen = cl[c].chosen
      /\ r.key = cl[c].key /\ r.given = cl[c].given /\ r.floor = cl[c].floor
  BY <1>1 DEF Process
<1>3. CommType' /\ srand' = srand /\ srand \in Nat
  BY ServerIdle DEF FlowInv, Navigate
<1>. HIDE DEF r
<1>4. ASSUME NEW p \in {"menu", "rd"}, r.pc \in {"menu", "choose"}
      PROVE  Sound(t(p)) /\ t(p).pc = p /\ Sound(u(p)) /\ u(p).pc = p
  <2>1. p \in Pc
    BY DEF Pc, Prompt
  <2>2. t(p) \in Process /\ u(p) \in Process
    BY <1>2, <2>1 DEF Process
  <2>3. /\ t(p).pc = p /\ t(p).keyid = r.keyid /\ t(p).chosen = r.chosen
        /\ t(p).key = r.key /\ t(p).given = r.given /\ t(p).floor = r.floor
    BY <1>2 DEF Process
  <2>4. /\ u(p).pc = p /\ u(p).keyid = r.keyid /\ u(p).chosen = r.chosen
        /\ u(p).key = r.key /\ u(p).given = r.given /\ u(p).floor = r.floor
    BY <1>2 DEF Process
  <2>. HIDE DEF t, u
  <2>. QED  BY <1>1, <1>2, <1>4, <2>2, <2>3, <2>4, OnwardSound
<1>5. Sound(Exit(r)) /\ Exit(r).pc = "idle"
  BY <1>2, ExitSound
<1>6. \/ r.pc = "menu" /\ Move(c, t("rd"))
      \/ r.pc = "choose" /\ \E p \in {"menu", "rd"} : Move(c, u(p))
      \/ Move(c, Exit(r))
  BY DEF Navigate, r
<1>. HIDE DEF t, u
<1>. QED  BY <1>3, <1>4, <1>5, <1>6, MoveStep DEF FlowInv

LEMMA ReadStateStep ==
    ASSUME FlowInv, NEW c \in Client, ReadState(c)
    PROVE  FlowInv'
<1>. DEFINE r == cl[c]
            t(a) == [r EXCEPT !.pc = "choose", !.acts = a, !.report = "none"]
            Actions == {"VOUCHER", "TOKEN", "LADDER", "DECOMMISSION"}
<1>1. Sound(r) /\ r \in Process /\ r.pc = "rd"
  BY ProcessAt DEF ReadState
<1>2. \A st : Offered(st) \subseteq Actions
  BY DEF Offered
<1>3. \E a \in SUBSET Actions : Move(c, t(a))
  BY <1>2 DEF ReadState
<1>4. CommType' /\ srand' = srand /\ srand \in Nat
  BY ServerIdle DEF FlowInv, ReadState
<1>. HIDE DEF r
<1>5. ASSUME NEW a \in SUBSET Actions
      PROVE  Sound(t(a)) /\ t(a).pc = "choose"
  <2>1. t(a) \in Process
    BY <1>1 DEF Process, Pc, Prompt
  <2>2. /\ t(a).pc = "choose" /\ t(a).keyid = r.keyid /\ t(a).chosen = r.chosen
        /\ t(a).key = r.key /\ t(a).given = r.given /\ t(a).floor = r.floor
    BY <1>1 DEF Process
  <2>. HIDE DEF t
  <2>. QED  BY <1>1, <2>1, <2>2, OnwardSound
<1>. HIDE DEF t
<1>. QED  BY <1>3, <1>4, <1>5, MoveStep DEF FlowInv

LEMMA ChooseStep ==
    ASSUME FlowInv, NEW c \in Client, Choose(c)
    PROVE  FlowInv'
<1>. DEFINE r == [cl[c] EXCEPT !.acts = {}, !.left = @ - 1]
            k == [r EXCEPT !.key[4] = r.token]
            v == [r EXCEPT !.pc = IF r.file THEN "voucher" ELSE "epoch",
                           !.ep = IF r.file THEN DemoVoucherEpoch ELSE 0]
            d == [r EXCEPT !.pc = "arm"]
<1>1. Sound(cl[c]) /\ cl[c] \in Process /\ cl[c].pc = "choose"
  BY ProcessAt DEF Choose
<1>2. cl[c].left - 1 \in Nat
  BY <1>1 DEF Choose, Process
<1>3. r \in Process
  BY <1>1, <1>2 DEF Process
<1>4. /\ r.pc = "choose" /\ r.keyid = cl[c].keyid /\ r.chosen = cl[c].chosen
      /\ r.key = cl[c].key /\ r.given = cl[c].given /\ r.floor = cl[c].floor
  BY <1>1 DEF Process
<1>5. \E t \in {v, d, StartRung(k, 1), StartLadder(r)} : Move(c, t)
  <2>1. PICK a \in cl[c].acts :
          Move(c, CASE a = "VOUCHER" -> v
                    [] a = "TOKEN" -> StartRung(k, 1)
                    [] a = "LADDER" -> StartLadder(r)
                    [] a = "DECOMMISSION" -> d)
    BY DEF Choose
  <2>2. a \in {"VOUCHER", "TOKEN", "LADDER", "DECOMMISSION"}
    BY <1>1, <2>1 DEF Process
  <2>. HIDE DEF v, d, k, r
  <2>. QED  BY <2>1, <2>2
<1>6. CommType' /\ srand' = srand /\ srand \in Nat
  BY ServerIdle DEF FlowInv, Choose
<1>. HIDE DEF r
<1>7. Sound(r)
  BY <1>1, <1>3, <1>4, OnwardSound
<1>8. Sound(k) /\ k.pc = "choose"
  <2>1. r.key \in [ClientSlot -> KeyVal \cup {NoKey}] /\ r.token \in KeyVal /\ 4 \in ClientSlot
    BY <1>3, KeyFacts DEF Process
  <2>2. k \in Process
    BY <1>3, <2>1 DEF Process
  <2>3. /\ k.pc = "choose" /\ k.keyid = r.keyid /\ k.chosen = r.chosen
        /\ k.key = [r.key EXCEPT ![4] = r.token] /\ k.given = r.given /\ k.floor = r.floor
    BY <1>3, <1>4 DEF Process
  <2>4. \A i \in 1..3 : k.key[i] = r.key[i]
    BY <2>1, <2>3, KeyFacts
  <2>. HIDE DEF k
  <2>. QED  BY <1>4, <1>7, <2>2, <2>3, <2>4, OnwardSound
<1>9. Sound(v) /\ v.pc # "command"
  <2>1. v \in Process
    BY <1>3, KeyFacts DEF Process, Pc
  <2>2. /\ v.pc \in {"voucher", "epoch"} /\ v.keyid = r.keyid /\ v.chosen = r.chosen
        /\ v.key = r.key /\ v.given = r.given /\ v.floor = r.floor
    BY <1>3 DEF Process
  <2>. HIDE DEF v
  <2>. QED  BY <1>4, <1>7, <2>1, <2>2, OnwardSound
<1>10. Sound(d) /\ d.pc # "command"
  <2>1. d \in Process
    BY <1>3 DEF Process, Pc
  <2>2. /\ d.pc = "arm" /\ d.keyid = r.keyid /\ d.chosen = r.chosen
        /\ d.key = r.key /\ d.given = r.given /\ d.floor = r.floor
    BY <1>3 DEF Process
  <2>. HIDE DEF d
  <2>. QED  BY <1>4, <1>7, <2>1, <2>2, OnwardSound
<1>. HIDE DEF v, d, k
<1>11. /\ Sound(StartRung(k, 1)) /\ StartRung(k, 1).pc = "rung"
       /\ Sound(StartLadder(r)) /\ StartLadder(r).pc = "rung"
  BY <1>4, <1>7, <1>8, StartRungSound DEF StartLadder, Integrator
<1>. QED  BY <1>5, <1>6, <1>9, <1>10, <1>11, MoveStep DEF FlowInv

-----------------------------------------------------------------------------
(* Claim and provisioning. *)

LEMMA AfterSound ==
    ASSUME NEW r, Sound(r), r.pc \notin {"idle", "gate", "rung", "pass2"},
           NEW to \in {"rd", "epoch", "provision", "ldevid"}, NEW rep \in {"none", "owned"}
    PROVE  /\ Sound(After(r, to, rep)) /\ After(r, to, rep).pc = to
           /\ After(r, to, rep).report = rep
<1>1. r \in Process
  BY DEF Sound
<1>2. After(r, to, rep) \in Process
  <2>1. to \in Pc
    BY DEF Pc, Prompt
  <2>. QED  BY <1>1, <2>1 DEF After, Process
<1>3. /\ After(r, to, rep).pc = to /\ After(r, to, rep).keyid = r.keyid
      /\ After(r, to, rep).chosen = r.chosen /\ After(r, to, rep).key = r.key
      /\ After(r, to, rep).given = r.given /\ After(r, to, rep).floor = r.floor
      /\ After(r, to, rep).report = rep
  BY <1>1 DEF After, Process
<1>. QED  BY <1>2, <1>3, OnwardSound

LEMMA FailedSound ==
    ASSUME NEW r, Sound(r), r.pc \notin {"idle", "gate", "rung", "pass2"},
           NEW to \in {"provision", "ldevid"}
    PROVE  Sound(Failed(r, to)) /\ Failed(r, to).pc # "command" /\ Failed(r, to).report = "none"
BY AfterSound DEF Failed

LEMMA GenuinenessStep ==
    ASSUME FlowInv, NEW c \in Client, VerifyGenuineness(c)
    PROVE  FlowInv'
<1>1. CommType' /\ srand' = srand /\ srand \in Nat
  BY ServerIdle DEF FlowInv, VerifyGenuineness
<1>2. Sound(After(cl[c], "epoch", "none")) /\ After(cl[c], "epoch", "none").pc = "epoch"
  BY ProcessAt, AfterSound DEF VerifyGenuineness
<1>. QED  BY <1>1, <1>2, MoveStep DEF FlowInv, VerifyGenuineness

LEMMA EpochStep ==
    ASSUME FlowInv, NEW c \in Client, ReadOwnerEpoch(c)
    PROVE  FlowInv'
<1>. DEFINE r == cl[c]
            t(e) == [r EXCEPT !.pc = "voucher", !.ep = e]
<1>1. Sound(r) /\ r \in Process /\ r.pc = "epoch"
  BY ProcessAt DEF ReadOwnerEpoch
<1>2. NextEpoch(epoch) \in Epoch
  BY CommissioningConstants DEF NextEpoch, Epoch, FlowInv, CommType, CommTypeOK
<1>3. UNCHANGED commVars /\ \E e \in Epoch : Move(c, t(e))
  BY <1>2, KeyFacts DEF ReadOwnerEpoch, Rpc
<1>4. CommType' /\ srand' = srand /\ srand \in Nat
  BY <1>3, ServerIdle DEF FlowInv
<1>. HIDE DEF r
<1>5. ASSUME NEW e \in Epoch
      PROVE  Sound(t(e)) /\ t(e).pc = "voucher"
  <2>1. t(e) \in Process
    BY <1>1 DEF Process, Pc
  <2>2. /\ t(e).pc = "voucher" /\ t(e).keyid = r.keyid /\ t(e).chosen = r.chosen
        /\ t(e).key = r.key /\ t(e).given = r.given /\ t(e).floor = r.floor
    BY <1>1 DEF Process
  <2>. HIDE DEF t
  <2>. QED  BY <1>1, <2>1, <2>2, OnwardSound
<1>. HIDE DEF t
<1>. QED  BY <1>3, <1>4, <1>5, MoveStep DEF FlowInv

LEMMA PresentStep ==
    ASSUME FlowInv, NEW c \in Client, PresentVoucher(c)
    PROVE  FlowInv'
<1>. DEFINE r == [cl[c] EXCEPT !.ep = 0]
            v == DemoVoucher(cl[c].ep)
<1>1. Sound(cl[c]) /\ cl[c] \in Process
  BY ProcessAt
<1>2. r \in Process
  BY <1>1, KeyFacts DEF Process
<1>3. /\ r.pc = cl[c].pc /\ r.keyid = cl[c].keyid /\ r.chosen = cl[c].chosen
      /\ r.key = cl[c].key /\ r.given = cl[c].given /\ r.floor = cl[c].floor
  BY <1>1 DEF Process
<1>4. UNCHANGED commVars \/ HandleVoucher(v)
  BY DEF PresentVoucher, Rpc
<1>5. r.pc = "voucher" /\ \E t \in {After(r, "provision", "owned"), Failed(r, "provision")} : Move(c, t)
  BY DEF PresentVoucher, Rpc
<1>6. CommType' /\ srand' = srand /\ srand \in Nat
  <2>1. v \in Voucher
    BY <1>1, CommissioningConstants DEF DemoVoucher, Voucher, Process
  <2>2. CASE HandleVoucher(v)
    BY <2>1, <2>2, VoucherType DEF FlowInv, HandleVoucher, CommType, TypeOK
  <2>. QED  BY <1>4, <2>2, ServerIdle DEF FlowInv
<1>. HIDE DEF r
<1>7. Sound(r)
  BY <1>1, <1>2, <1>3, <1>5, OnwardSound
<1>. QED  BY <1>5, <1>6, <1>7, AfterSound, FailedSound, MoveStep DEF FlowInv

LEMMA ProvisionStep ==
    ASSUME FlowInv, NEW c \in Client, InstallProvisioning(c)
    PROVE  FlowInv'
<1>. DEFINE r == After(cl[c], cl[c].pc, "none")
<1>1. Sound(cl[c]) /\ cl[c] \in Process /\ r.pc = "provision"
  BY ProcessAt DEF InstallProvisioning
<1>2. r.pc = cl[c].pc
  BY <1>1 DEF After, Process
<1>3. Sound(r)
  BY <1>1, <1>2, AfterSound
<1>4. UNCHANGED commVars \/ HandleProvision(DemoKey, Peer)
  BY DEF InstallProvisioning, Rpc
<1>5. \E t \in {After(r, "ldevid", "none"), StartLadder(r), Failed(r, "ldevid")} : Move(c, t)
  BY DEF InstallProvisioning, Rpc
<1>6. CommType' /\ srand' = srand /\ srand \in Nat
  <2>1. CASE HandleProvision(DemoKey, Peer)
    BY <2>1, KeyFacts, CommissioningConstants, ProvisionType
       DEF FlowInv, HandleProvision, CommType, TypeOK
  <2>. QED  BY <1>4, <2>1, ServerIdle DEF FlowInv
<1>. HIDE DEF r
<1>7. Sound(StartLadder(r)) /\ StartLadder(r).pc = "rung"
  BY <1>1, <1>3, StartRungSound DEF StartLadder, Integrator
<1>. QED  BY <1>1, <1>3, <1>5, <1>6, <1>7, AfterSound, FailedSound, MoveStep DEF FlowInv

LEMMA LdevidStep ==
    ASSUME FlowInv, NEW c \in Client, GenerateLdevid(c)
    PROVE  FlowInv'
<1>1. PICK b \in BOOLEAN : UNCHANGED commVars \/ HandleLdevid(b)
  BY DEF GenerateLdevid, Rpc
<1>2. Move(c, Exit(cl[c]))
  BY DEF GenerateLdevid, Rpc
<1>3. CommType' /\ srand' = srand /\ srand \in Nat
  <2>1. CASE HandleLdevid(b)
    BY <2>1, LdevidType DEF FlowInv, HandleLdevid, vars, CommType, TypeOK
  <2>. QED  BY <1>1, <2>1, ServerIdle DEF FlowInv
<1>. QED  BY <1>2, <1>3, ProcessAt, ExitSound, MoveStep DEF FlowInv

-----------------------------------------------------------------------------
(* The key ladder. *)

\* A process inside a rung, whatever key it has selected.
Lent(r) ==
    /\ r \in Process /\ r.saved = r.chosen /\ r.rung \in 1..3 /\ Supplied(r)
    /\ r.floor # "ANY" => r.floor \in {"AEAD", "SIGNED"}

LEMMA RungLent ==
    ASSUME NEW r, Sound(r), r.pc \in {"rung", "pass2"}
    PROVE  Lent(r)
BY DEF Sound, Lent, Borrowed, Floored

\* The selected key is given back.
LEMMA GiveBackLent ==
    ASSUME NEW r, Lent(r), NEW ok \in BOOLEAN
    PROVE  LET t == GiveBack(r, ok)
           IN  /\ t \in Process /\ t.keyid = r.chosen /\ t.chosen = r.chosen /\ t.key = r.key
               /\ t.given = r.given /\ t.floor = r.floor /\ t.rung = r.rung /\ t.pc = r.pc
               /\ t.nonce = r.nonce
<1>1. r \in Process /\ r.saved = r.chosen /\ 0 \in 0..KeyidMax
  BY KeyFacts DEF Lent
<1>. QED  BY <1>1 DEF GiveBack, Process

LEMMA RungFailedSound ==
    ASSUME NEW r, Lent(r)
    PROVE  /\ Sound(RungFailed(r)) /\ RungFailed(r).pc = "rd"
           /\ RungFailed(r).report = r.report
<1>. DEFINE g == GiveBack(r, FALSE)
            t == [g EXCEPT !.pc = "rd", !.rung = 0, !.nonce = 0]
<1>1. /\ g \in Process /\ g.keyid = r.chosen /\ g.chosen = r.chosen /\ g.key = r.key
      /\ g.given = r.given /\ g.floor = r.floor
  BY GiveBackLent
<1>2. g.report = r.report
  BY DEF GiveBack, Lent, Process
<1>3. RungFailed(r) = t
  BY DEF RungFailed
<1>. HIDE DEF g
<1>4. "rd" \in Pc /\ 0 \in 0..MaxRandom /\ 0 \in 0..3
  BY SodConstants DEF Pc, Prompt
<1>5. t \in Process
  BY <1>1, <1>4 DEF Process
<1>6. /\ t.pc = "rd" /\ t.keyid = g.keyid /\ t.chosen = g.chosen /\ t.key = g.key
      /\ t.given = g.given /\ t.floor = g.floor /\ t.report = g.report
  BY <1>1 DEF Process
<1>. HIDE DEF t
<1>. QED  BY <1>1, <1>2, <1>3, <1>5, <1>6
          DEF Sound, Borrowed, Paired, Supplied, Launched, Floored, Lent

\* After a rung the next one borrows the key again, or the choice is back.
LEMMA RungDoneSound ==
    ASSUME NEW r, Lent(r)
    PROVE  /\ Sound(RungDone(r)) /\ RungDone(r).pc # "command"
           /\ RungDone(r).key = r.key
           /\ r.rung = 1 => RungDone(r).report = "claimed"
           /\ r.rung = 2 => RungDone(r).report = r.report
           /\ r.rung = 3 => RungDone(r).report = "operational"
<1>. DEFINE d == [r EXCEPT !.nonce = 0]
            g == GiveBack(d, TRUE)
<1>1. r \in Process /\ r.rung \in 1..3 /\ 0 \in 0..MaxRandom
  BY SodConstants DEF Lent
<1>2. /\ d \in Process /\ d.saved = r.saved /\ d.chosen = r.chosen /\ d.rung = r.rung
      /\ d.key = r.key /\ d.given = r.given /\ d.floor = r.floor /\ d.report = r.report
  BY <1>1 DEF Process
<1>. HIDE DEF d
<1>3. Lent(d)
  BY <1>2 DEF Lent, Supplied
<1>4. /\ g \in Process /\ g.keyid = r.chosen /\ g.chosen = r.chosen /\ g.key = r.key
      /\ g.given = r.given /\ g.floor = r.floor
  BY <1>2, <1>3, GiveBackLent
<1>. HIDE DEF g
<1>5. CASE r.rung = 1
  <2>. DEFINE t == [StartLadder(g) EXCEPT !.report = "claimed"]
  <2>1. RungDone(r) = t
    BY <1>5 DEF RungDone, d, g
  <2>2. t = [g EXCEPT !.pc = "rung", !.rung = 2, !.saved = g.keyid, !.report = "claimed"]
    BY <1>4 DEF StartLadder, StartRung, Integrator, Process
  <2>3. "rung" \in Pc /\ 2 \in 0..3 /\ g.keyid \in 0..KeyidMax
    BY <1>4 DEF Pc, Process
  <2>. HIDE DEF t
  <2>4. t \in Process
    BY <1>4, <2>2, <2>3 DEF Process
  <2>5. /\ t.pc = "rung" /\ t.rung = 2 /\ t.saved = g.keyid /\ t.report = "claimed"
        /\ t.chosen = g.chosen /\ t.key = g.key /\ t.given = g.given /\ t.floor = g.floor
    BY <1>4, <2>2 DEF Process
  <2>6. Sound(t)
    BY <1>4, <2>4, <2>5
       DEF Sound, Borrowed, Paired, Supplied, Launched, Floored, Lent
  <2>. QED  BY <1>4, <1>5, <2>1, <2>5, <2>6
<1>6. CASE r.rung = 2
  <2>. DEFINE t == [d EXCEPT !.pc = "rung", !.rung = 3]
  <2>1. RungDone(r) = t
    BY <1>6 DEF RungDone, d
  <2>2. t \in Process
    <3>1. "rung" \in Pc /\ 3 \in 0..3
      BY DEF Pc
    <3>. QED  BY <1>2, <3>1 DEF Process
  <2>3. /\ t.pc = "rung" /\ t.rung = 3 /\ t.saved = d.saved /\ t.report = d.report
        /\ t.chosen = d.chosen /\ t.key = d.key /\ t.given = d.given /\ t.floor = d.floor
    BY <1>2 DEF Process
  <2>. HIDE DEF t
  <2>4. Sound(t)
    BY <1>2, <1>3, <2>2, <2>3
       DEF Sound, Borrowed, Paired, Supplied, Launched, Floored, Lent
  <2>. QED  BY <1>2, <1>6, <2>1, <2>3, <2>4
<1>7. CASE r.rung = 3
  <2>. DEFINE t == [g EXCEPT !.pc = "pick", !.rung = 0, !.report = "operational"]
  <2>1. RungDone(r) = t
    BY <1>7 DEF RungDone, d, g
  <2>2. t \in Process
    <3>1. "pick" \in Pc /\ 0 \in 0..3
      BY DEF Pc, Prompt
    <3>. QED  BY <1>4, <3>1 DEF Process
  <2>3. /\ t.pc = "pick" /\ t.keyid = g.keyid /\ t.report = "operational"
        /\ t.chosen = g.chosen /\ t.key = g.key /\ t.given = g.given /\ t.floor = g.floor
    BY <1>4 DEF Process
  <2>. HIDE DEF t
  <2>4. Sound(t)
    BY <1>4, <2>2, <2>3
       DEF Sound, Borrowed, Paired, Supplied, Launched, Floored, Lent
  <2>. QED  BY <1>4, <1>7, <2>1, <2>3, <2>4
<1>. QED  BY <1>1, <1>5, <1>6, <1>7

LEMMA KeySetEntry == KS \in KeySet /\ KS \in WO /\ KS \in Entry
<1>1. KS \in KeySet
  BY FlowConstants DEF KS
<1>. QED  BY <1>1, SodConstants DEF Entry

\* A request to the key set, served by the secure OD alone.
LEMMA RungServed ==
    ASSUME CommType, NEW c \in Client, NEW q \in Request,
           SodRequest(c, KS, q, "none"), UNCHANGED asymVars
    PROVE  CommType' /\ srand \in Nat /\ srand' \in {srand, srand + 1}
<1>1. TypeOK'
  BY KeySetEntry, DispatchType DEF CommType, Fault
<1>2. CommTypeOK' /\ HistoryOK'
  BY DEF CommType, CommTypeOK, HistoryOK, asymVars, store
<1>3. srand' \in {srand, srand + 1}
  BY RequestSrand
<1>. QED  BY <1>1, <1>2, <1>3 DEF CommType, TypeOK

LEMMA RungArmStep ==
    ASSUME FlowInv, NEW c \in Client, RungArm(c)
    PROVE  FlowInv'
<1>. DEFINE r == [cl[c] EXCEPT !.keyid = Authorizer[cl[c].rung], !.report = "none"]
            q == Bare("empty", 0, 0)
            n == DispatchReply(c, KS, q, "none").sr
            t == [r EXCEPT !.pc = "pass2", !.nonce = n]
<1>1. Lent(cl[c]) /\ cl[c] \in Process /\ cl[c].rung \in 1..3
  BY ProcessAt, RungLent DEF RungArm, Lent
<1>2. Authorizer[cl[c].rung] \in 0..4 /\ Authorizer[cl[c].rung] \in 0..KeyidMax
  BY <1>1, KeyFacts DEF Authorizer
<1>3. r \in Process
  BY <1>1, <1>2 DEF Process
<1>4. /\ r.keyid = Authorizer[r.rung] /\ r.saved = cl[c].saved /\ r.chosen = cl[c].chosen
      /\ r.rung = cl[c].rung /\ r.key = cl[c].key /\ r.given = cl[c].given
      /\ r.floor = cl[c].floor
  BY <1>1 DEF Process
<1>5. q \in Request
  BY DEF Bare, Request, Shape, Byte
<1>6. \/ UNCHANGED commVars /\ Move(c, RungFailed(r))
      \/ /\ SodRequest(c, KS, q, "none") /\ UNCHANGED asymVars
         /\ \/ Move(c, RungFailed(r))
            \/ r.key[r.rung] # NoKey /\ SecpOk(DispatchAbort(c, KS, q, "none")) /\ Move(c, t)
  BY DEF RungArm, Rpc
<1>7. CommType' /\ srand \in Nat /\ srand' \in {srand, srand + 1}
  BY <1>5, <1>6, RungServed, ServerIdle DEF FlowInv
<1>. HIDE DEF r
<1>8. Lent(r)
  BY <1>1, <1>3, <1>4 DEF Lent, Supplied
<1>9. CASE Move(c, RungFailed(r))
  BY <1>7, <1>8, <1>9, RungFailedSound, MoveStep DEF FlowInv
<1>10. CASE /\ r.key[r.rung] # NoKey /\ Move(c, t)
            /\ SodRequest(c, KS, q, "none") /\ SecpOk(DispatchAbort(c, KS, q, "none"))
  <2>1. n \in 0..MaxRandom
    <3>1. CASE Route(KS, q) = "arm_write" /\ DispatchAbort(c, KS, q, "none") = "NONE"
      <4>1. ArmWriteAbort(c, KS, q, "none") = "NONE"
        BY <3>1 DEF DispatchAbort
      <4>2. ArmWriteChallenge(c, KS, q, "none")
        BY <1>10, <3>1 DEF SodRequest, Dispatch
      <4>3. srand < MaxRandom
        BY <4>1, <4>2 DEF ArmWriteChallenge
      <4>4. n = srand + 1
        BY <3>1 DEF DispatchReply
      <4>. QED  BY <1>7, <4>3, <4>4, SodConstants
    <3>2. CASE ~(Route(KS, q) = "arm_write" /\ DispatchAbort(c, KS, q, "none") = "NONE")
      <4>1. n = 0
        BY <3>2 DEF DispatchReply
      <4>. QED  BY <4>1, SodConstants
    <3>. QED  BY <3>1, <3>2
  <2>. HIDE DEF n
  <2>2. t \in Process
    BY <1>3, <2>1 DEF Process, Pc
  <2>3. /\ t.pc = "pass2" /\ t.keyid = r.keyid /\ t.saved = r.saved /\ t.chosen = r.chosen
        /\ t.rung = r.rung /\ t.key = r.key /\ t.given = r.given /\ t.floor = r.floor
    BY <1>3 DEF Process
  <2>. HIDE DEF t
  <2>4. Sound(t)
    BY <1>4, <1>8, <1>10, <2>2, <2>3
       DEF Sound, Borrowed, Paired, Supplied, Launched, Floored, Lent
  <2>. QED  BY <1>7, <1>10, <2>3, <2>4, MoveStep DEF FlowInv, t
<1>. QED  BY <1>6, <1>9, <1>10

\* The second pass of a rung, as install_key_rung frames it.
RungFrame(r, c) ==
    LET cr == CHOOSE x \in ClientRandom : TRUE
        b == EffectiveKeyid(r)
    IN  [shape |-> "write", b |-> b, cr |-> cr,
         box |-> Seal(r.key[r.keyid], cr, r.nonce, 0, "WRITE_REQUEST", b, c, KS,
                      [sel |-> r.rung, w |-> r.key[r.rung]])]

LEMMA RungFrameType ==
    ASSUME NEW r, Sound(r), r.pc = "pass2", NEW c \in Client
    PROVE  /\ RungFrame(r, c) \in Request
           /\ KidBase(RungFrame(r, c).b) = r.keyid /\ ~KidCyclic(RungFrame(r, c).b)
           /\ r.rung \in 1..3 /\ r.keyid = Authorizer[r.rung] /\ r.key[r.rung] \in KeyVal
<1>1. r \in Process /\ r.rung \in 1..3 /\ r.keyid = Authorizer[r.rung] /\ r.key[r.rung] # NoKey
  BY DEF Sound, Borrowed, Paired
<1>2. r.keyid \in 1..4
  BY <1>1 DEF Authorizer
<1>3. r.key[r.rung] \in KeyVal /\ r.key[r.keyid] \in Word /\ r.nonce \in Nat
  <2>1. r.key \in [ClientSlot -> KeyVal \cup {NoKey}] /\ r.nonce \in 0..MaxRandom
    BY <1>1 DEF Process
  <2>2. r.rung \in ClientSlot /\ r.keyid \in ClientSlot
    BY <1>1, <1>2, KeyFacts
  <2>3. KeyVal \subseteq Word /\ NoKey \in Word
    BY SodConstants DEF Word, NoKey
  <2>. QED  BY <1>1, <2>1, <2>2, <2>3, SodConstants
<1>4. PICK b : b = EffectiveKeyid(r)
  OBVIOUS
<1>5. b \in {r.keyid, r.keyid + 128}
  BY <1>2, <1>4 DEF EffectiveKeyid, KidBase
<1>6. b \in Byte /\ KidBase(b) = r.keyid /\ ~KidCyclic(b)
  BY <1>2, <1>5 DEF Byte, KidBase, KidCyclic
<1>7. PICK cr \in ClientRandom : cr = CHOOSE x \in ClientRandom : TRUE
  BY FlowConstants
<1>. DEFINE pt == [sel |-> r.rung, w |-> r.key[r.rung]]
            box == Seal(r.key[r.keyid], cr, r.nonce, 0, "WRITE_REQUEST", b, c, KS, pt)
<1>8. pt \in Plain
  BY <1>1, <1>3, SodConstants DEF Plain
<1>9. box \in Box
  BY <1>3, <1>6, <1>8, KeySetEntry, SodConstants DEF Box, Seal, Dir
<1>10. RungFrame(r, c) = [shape |-> "write", b |-> b, cr |-> cr, box |-> box]
  BY <1>4, <1>7 DEF RungFrame
<1>. HIDE DEF box
<1>11. RungFrame(r, c) \in Request
  BY <1>6, <1>9, <1>10, SodConstants DEF Request, Shape
<1>. QED  BY <1>1, <1>3, <1>6, <1>10, <1>11

LEMMA RungWriteStep ==
    ASSUME FlowInv, NEW c \in Client, RungWrite(c)
    PROVE  FlowInv'
<1>. DEFINE r == cl[c]
            q == RungFrame(r, c)
<1>1. Sound(r) /\ r.pc = "pass2"
  BY ProcessAt DEF RungWrite
<1>2. q \in Request /\ Lent(r)
  BY <1>1, RungFrameType, RungLent
<1>3. /\ UNCHANGED commVars \/ (SodRequest(c, KS, q, "none") /\ UNCHANGED asymVars)
      /\ \E t \in {RungDone(r), RungFailed(r)} : Move(c, t)
  BY DEF RungWrite, Rpc, RungFrame
<1>. HIDE DEF q, r
<1>4. CommType' /\ srand \in Nat /\ srand' \in {srand, srand + 1}
  BY <1>2, <1>3, RungServed, ServerIdle DEF FlowInv
<1>. QED  BY <1>2, <1>3, <1>4, RungDoneSound, RungFailedSound, MoveStep DEF FlowInv

-----------------------------------------------------------------------------
(* Decommissioning. *)

LEMMA FetchStep ==
    ASSUME FlowInv, NEW c \in Client, FetchChallenge(c)
    PROVE  FlowInv'
<1>. DEFINE r == cl[c]
            t == [r EXCEPT !.pc = "command", !.nonce = srand + 1]
            u == [r EXCEPT !.pc = "rd"]
<1>1. Sound(r) /\ r \in Process /\ r.pc = "arm"
  BY ProcessAt DEF FetchChallenge
<1>2. \/ UNCHANGED commVars /\ Move(c, u)
      \/ ArmChallenge(c, "COMMAND", FALSE) /\ (Move(c, u) \/ Move(c, t))
  BY DEF FetchChallenge, Rpc
<1>3. srand \in Nat
  BY DEF FlowInv, CommType, TypeOK
<1>4. ArmChallenge(c, "COMMAND", FALSE) => CommType' /\ srand < MaxRandom /\ srand' = srand + 1
  BY ArmChallengeType DEF FlowInv, ArmChallenge, Flow
<1>5. CommType' /\ srand' \in {srand, srand + 1}
  BY <1>2, <1>4, ServerIdle DEF FlowInv
<1>. HIDE DEF r
<1>6. CASE Move(c, u)
  <2>1. u \in Process
    BY <1>1 DEF Process, Pc, Prompt
  <2>2. /\ u.pc = "rd" /\ u.keyid = r.keyid /\ u.chosen = r.chosen
        /\ u.key = r.key /\ u.given = r.given /\ u.floor = r.floor
    BY <1>1 DEF Process
  <2>. HIDE DEF u
  <2>. QED  BY <1>1, <1>3, <1>5, <1>6, <2>1, <2>2, OnwardSound, MoveStep DEF FlowInv
<1>7. CASE ArmChallenge(c, "COMMAND", FALSE) /\ Move(c, t)
  <2>1. srand + 1 \in 0..MaxRandom /\ srand + 1 \in 1..srand'
    BY <1>3, <1>4, <1>7, SodConstants
  <2>2. t \in Process
    BY <1>1, <2>1 DEF Process, Pc
  <2>3. /\ t.pc = "command" /\ t.keyid = r.keyid /\ t.chosen = r.chosen
        /\ t.key = r.key /\ t.given = r.given /\ t.floor = r.floor /\ t.nonce = srand + 1
    BY <1>1 DEF Process
  <2>. HIDE DEF t
  <2>4. Sound(t)
    BY <1>1, <2>2, <2>3, OnwardSound
  <2>. QED  BY <1>3, <1>5, <1>7, <2>1, <2>3, <2>4, MoveStep DEF FlowInv
<1>. QED  BY <1>2, <1>6, <1>7

\* The signed restore, as the client sends it.
RestoreCommand(r, c) ==
    [flow |-> "COMMAND", by |-> Peer, cli |-> c, tgt |-> Restore,
     cn |-> CHOOSE x \in ClientRandom : TRUE, sn |-> r.nonce, pt |-> 0]

LEMMA RestoreCommandType ==
    ASSUME FlowInv, NEW c \in Client, cl[c].pc = "command"
    PROVE  RestoreCommand(cl[c], c) \in SignedAccess("COMMAND", {Restore, OtherCommand}, {0})
<1>1. (CHOOSE x \in ClientRandom : TRUE) \in ClientRandom
  BY FlowConstants
<1>2. cl[c].nonce \in 1..srand
  BY DEF FlowInv, ClientsInv
<1>. QED  BY <1>1, <1>2, CommissioningConstants DEF RestoreCommand, SignedAccess

LEMMA CommandStep ==
    ASSUME FlowInv, NEW c \in Client, SendCommand(c)
    PROVE  FlowInv'
<1>. DEFINE r == [cl[c] EXCEPT !.pc = "rd", !.nonce = 0]
            t == [r EXCEPT !.report = "decommissioned"]
            a == RestoreCommand(cl[c], c)
<1>1. Sound(cl[c]) /\ cl[c] \in Process /\ cl[c].pc = "command"
  BY ProcessAt DEF SendCommand
<1>2. /\ UNCHANGED commVars \/ SignedCommand(c, a)
      /\ Move(c, r) \/ Move(c, t)
  BY DEF SendCommand, Rpc, RestoreCommand
<1>3. CommType' /\ srand' = srand /\ srand \in Nat
  <2>1. CASE SignedCommand(c, a)
    <3>1. CommType'
      BY <1>1, <2>1, RestoreCommandType, SignedCommandType DEF FlowInv
    <3>. QED  BY <2>1, <3>1 DEF SignedCommand, Decommission, vars, FlowInv, CommType, TypeOK
  <2>. QED  BY <1>2, <2>1, ServerIdle DEF FlowInv
<1>4. r \in Process
  <2>1. "rd" \in Pc /\ 0 \in 0..MaxRandom
    BY SodConstants DEF Pc, Prompt
  <2>. QED  BY <1>1, <2>1 DEF Process
<1>5. /\ r.pc = "rd" /\ r.keyid = cl[c].keyid /\ r.chosen = cl[c].chosen
      /\ r.key = cl[c].key /\ r.given = cl[c].given /\ r.floor = cl[c].floor
  BY <1>1 DEF Process
<1>. HIDE DEF r
<1>6. t \in Process
  BY <1>4 DEF Process
<1>7. /\ t.pc = "rd" /\ t.keyid = r.keyid /\ t.chosen = r.chosen
      /\ t.key = r.key /\ t.given = r.given /\ t.floor = r.floor
  BY <1>4, <1>5 DEF Process
<1>. HIDE DEF t
<1>8. Sound(r) /\ Sound(t)
  BY <1>1, <1>4, <1>5, <1>6, <1>7, OnwardSound
<1>. QED  BY <1>2, <1>3, <1>5, <1>7, <1>8, MoveStep DEF FlowInv

-----------------------------------------------------------------------------
(* The invariant and what it says of the client. *)

LEMMA FlowStep == FlowInv /\ [FlowNext]_flowVars => FlowInv'
<1>. SUFFICES ASSUME FlowInv, [FlowNext]_flowVars
              PROVE  FlowInv'
  OBVIOUS
<1>1. ASSUME CommType', srand' = srand, UNCHANGED cl
      PROVE  FlowInv'
  BY <1>1 DEF FlowInv, ClientsInv, FlowTypeOK
<1>2. CASE UNCHANGED flowVars
  BY <1>1, <1>2, ServerIdle DEF flowVars, FlowInv
<1>3. CASE Tick /\ UNCHANGED <<asymVars, cl>>
  <2>1. CommType' /\ srand' = srand
    BY <1>3, CommTypeStep DEF FlowInv, CommNext, Tick, core
  <2>. QED  BY <1>1, <1>3, <2>1
<1>4. CASE CommRestart /\ UNCHANGED cl
  <2>1. CommType' /\ srand' = srand
    BY <1>4, CommRestartType DEF FlowInv, CommRestart, Restart
  <2>. QED  BY <1>1, <1>4, <2>1
<1>5. ASSUME NEW c \in Client, ClientStep(c)
      PROVE  FlowInv'
  <2>1. CASE Start(c) \/ Enforce(c) \/ SelectKey(c) \/ Navigate(c)
    BY <2>1, StartStep, EnforceStep, SelectKeyStep, NavigateStep
  <2>2. CASE ReadState(c) \/ Choose(c) \/ VerifyGenuineness(c) \/ ReadOwnerEpoch(c)
    BY <2>2, ReadStateStep, ChooseStep, GenuinenessStep, EpochStep
  <2>3. CASE PresentVoucher(c) \/ InstallProvisioning(c) \/ GenerateLdevid(c)
    BY <2>3, PresentStep, ProvisionStep, LdevidStep
  <2>4. CASE RungArm(c) \/ RungWrite(c) \/ FetchChallenge(c) \/ SendCommand(c)
    BY <2>4, RungArmStep, RungWriteStep, FetchStep, CommandStep
  <2>. QED  BY <1>5, <2>1, <2>2, <2>3, <2>4 DEF ClientStep
<1>. QED  BY <1>2, <1>3, <1>4, <1>5 DEF FlowNext

LEMMA FlowInitial == FlowInit => FlowInv
<1>. SUFFICES ASSUME FlowInit
              PROVE  FlowInv
  OBVIOUS
<1>1. CommType
  BY CommInitType DEF FlowInit
<1>2. ASSUME NEW c \in Client
      PROVE  cl[c] \in Process /\ Sound(cl[c]) /\ cl[c].pc = "idle"
  <2>1. MaxChoices[c] \in Nat
    BY FlowConstants
  <2>. QED  BY <2>1, IdleSound DEF FlowInit, Sound
<1>3. FlowTypeOK
  BY <1>2 DEF FlowInit, FlowTypeOK
<1>. QED  BY <1>1, <1>2, <1>3 DEF FlowInv, ClientsInv

\* parse_args, the gate, the submenu and every request of a commissioning
\* action: clients and device stay as FlowInv says, whatever is lost and whoever
\* else commissions the device.
THEOREM FlowInvariant == FlowSpec => []FlowInv
BY FlowInitial, FlowStep, PTL DEF FlowSpec

\* Every client process, and the device it talks to, is well formed.
THEOREM FlowTypeCorrect == FlowSpec => [](TypeOK /\ CommTypeOK /\ FlowTypeOK)
<1>1. FlowInv => TypeOK /\ CommTypeOK /\ FlowTypeOK
  BY DEF FlowInv, CommType, ClientsInv
<1>. QED  BY <1>1, FlowInvariant, PTL

\* install_key_rung, install_ladder: the key the user selected is selected again
\* whenever the client waits for the user, for any number of rungs, failures and
\* clients.
THEOREM ChoiceAlwaysKept == FlowSpec => []KeyChoiceKept
<1>1. FlowInv => KeyChoiceKept
  BY DEF FlowInv, ClientsInv, Sound, Borrowed, KeyChoiceKept, Prompt
<1>. QED  BY <1>1, FlowInvariant, PTL

\* parse_args, derive_session_if_needed, load_demo_all: for every order of key
\* flags and every key file, no session key of the user is replaced, and a verb
\* runs under a key the user supplied or derived.
THEOREM KeysAlwaysGiven == FlowSpec => []KeyGiven
<1>1. FlowInv => KeyGiven
  BY DEF FlowInv, ClientsInv, Sound, Supplied, Launched, KeyGiven
<1>. QED  BY <1>1, FlowInvariant, PTL

\* fbsec_client_enforce_min_security: no client gets past a floor that the device
\* does not meet, whichever reads are lost.
THEOREM GateAlwaysHolds == FlowSpec => []GateHolds
<1>1. FlowInv => GateHolds
  <2>. SUFFICES ASSUME FlowInv, NEW c \in Client, cl[c].floor # "ANY",
                       cl[c].pc \notin {"idle", "gate"}
                PROVE  HasBit(LiveCaps[8], Mech[cl[c].floor])
    BY DEF GateHolds
  <2>1. cl[c].floor \in {"AEAD", "SIGNED"}
    BY DEF FlowInv, ClientsInv, Sound, Floored
  <2>2. LiveCaps[8] = Mech.AEAD + Mech.SIGNED
    BY CapReplyBody DEF FlowInv, CapSubMax
  <2>. QED  BY <2>1, <2>2 DEF HasBit, Mech
<1>. QED  BY <1>1, FlowInvariant, PTL

-----------------------------------------------------------------------------
(* Session keys are not replaced. *)

\* A write of the key set fills an empty slot.
LEMMA RequestKeepsKeys ==
    ASSUME TypeOK, NEW c, NEW e, NEW q, NEW f, SodRequest(c, e, q, f)
    PROVE  \A i \in 1..3 : keys[i] # NoKey => keys'[i] = keys[i]
<1>1. CASE UNCHANGED keys
  BY <1>1
<1>2. ASSUME NEW kid, NEW by, WriteAfterAbort(e, q.box.pt, by) = "NONE",
             WriteAfter(e, q.box, kid)
      PROVE  \A i \in 1..3 : keys[i] # NoKey => keys'[i] = keys[i]
  <2>1. CASE e \in KeySet
    <3>1. q.box.pt.sel \in 1..3 /\ ~HasKey(q.box.pt.sel)
      BY <1>2, <2>1 DEF WriteAfterAbort, ApplyKeySetAbort
    <3>2. keys[q.box.pt.sel] = NoKey
      BY <3>1 DEF HasKey, KeySlot
    <3>3. keys' = [keys EXCEPT ![q.box.pt.sel] = q.box.pt.w]
      BY <1>2, <2>1 DEF WriteAfter, ApplyKeySet
    <3>. QED  BY <3>1, <3>2, <3>3 DEF TypeOK, KeySlot
  <2>. QED  BY <1>1, <1>2, <2>1 DEF WriteAfter
<1>3. CASE UNCHANGED <<core, seals, applied, rungBy>>
  BY <1>1, <1>3 DEF core
<1>4. CASE VerifyAndApplyWrite(e, q)
  BY <1>1, <1>2, <1>4 DEF VerifyAndApplyWrite
<1>5. CASE HandleWritePoll(c, e, q)
  BY <1>1, <1>2, <1>5 DEF HandleWritePoll
<1>. QED  BY <1>1, <1>3, <1>4, <1>5
          DEF SodRequest, Dispatch, ArmReadResponse, DeliverRead, HandleReadPoll, ArmWriteChallenge

\* What a step of a client does to the keys of the device.
LEMMA ClientKeys ==
    ASSUME FlowInv, NEW c \in Client, ClientStep(c)
    PROVE  \/ \A i \in 1..3 : keys[i] # NoKey => keys'[i] = keys[i]
           \/ Decommission
<1>1. CASE UNCHANGED keys
  BY <1>1
<1>2. CASE UNCHANGED commVars
  BY <1>1, <1>2 DEF commVars, vars
<1>3. CASE HandleProvision(DemoKey, Peer)
  <2>1. keys' = keys \/ (keys[1] = NoKey /\ keys' = [keys EXCEPT ![1] = DemoKey])
    BY <1>3 DEF HandleProvision, HasKey, KeySlot
  <2>. QED  BY <2>1 DEF FlowInv, CommType, TypeOK, KeySlot
<1>4. ASSUME NEW q, SodRequest(c, KS, q, "none")
      PROVE  \A i \in 1..3 : keys[i] # NoKey => keys'[i] = keys[i]
  BY <1>4, RequestKeepsKeys DEF FlowInv, CommType
<1>5. CASE RungArm(c) \/ RungWrite(c)
  BY <1>2, <1>4, <1>5 DEF RungArm, RungWrite, Rpc
<1>6. CASE PresentVoucher(c)
  BY <1>1, <1>2, <1>6 DEF PresentVoucher, Rpc, HandleVoucher
<1>7. CASE InstallProvisioning(c)
  BY <1>2, <1>3, <1>7 DEF InstallProvisioning, Rpc
<1>8. CASE GenerateLdevid(c)
  BY <1>1, <1>2, <1>8 DEF GenerateLdevid, Rpc, HandleLdevid, vars
<1>9. CASE FetchChallenge(c)
  BY <1>1, <1>2, <1>9 DEF FetchChallenge, Rpc, ArmChallenge
<1>10. CASE SendCommand(c)
  BY <1>1, <1>2, <1>10 DEF SendCommand, Rpc, SignedCommand, vars
<1>11. CASE Start(c) \/ Enforce(c) \/ SelectKey(c) \/ Navigate(c)
  BY <1>2, <1>11 DEF Start, Enforce, ColdRead, Rpc, SelectKey, Navigate
<1>12. CASE ReadState(c) \/ Choose(c) \/ VerifyGenuineness(c) \/ ReadOwnerEpoch(c)
  BY <1>2, <1>12 DEF ReadState, Choose, VerifyGenuineness, ReadOwnerEpoch, Rpc
<1>. QED  BY <1>5, <1>6, <1>7, <1>8, <1>9, <1>10, <1>11, <1>12 DEF ClientStep

\* fbsec_server_apply_key_set, fbsec_server_handover: for any interleaving of
\* ladders, claims and provisioning a session key is replaced by nothing; it goes
\* with all others in a factory restore or a restart.
THEOREM SessionKeysKept == FlowSpec => SessionKeyKept
<1>. DEFINE Kept == (\E i \in 1..3 : keys[i] # NoKey /\ keys'[i] # keys[i]) =>
                       \E k \in BootKeys \cup {[i \in 1..3 |-> NoKey]} : keys' = Boot(k)
<1>1. FlowInv /\ [FlowNext]_flowVars => [Kept]_flowVars
  <2>. SUFFICES ASSUME FlowInv, FlowNext
                PROVE  Kept
    OBVIOUS
  <2>1. CASE Decommission
    <3>1. keys' = Boot([i \in 1..3 |-> NoKey])
      BY <2>1 DEF Decommission, Boot, KeySlot
    <3>. QED  BY <3>1
  <2>2. CASE CommRestart
    BY <2>2 DEF CommRestart, Restart
  <2>3. CASE Tick
    BY <2>3 DEF Tick, core
  <2>. QED  BY <2>1, <2>2, <2>3, ClientKeys DEF FlowNext
<1>. QED  BY <1>1, FlowInvariant, PTL DEF FlowSpec, SessionKeyKept

-----------------------------------------------------------------------------
(* Reports are true. *)

\* No key file has the Integrator key without the Provisioning key.
NoGap == \A k \in BootKeys : k[2] # NoKey => k[1] # NoKey

\* Nor has the device.
Rising == keys[2] # NoKey => keys[1] # NoKey

\* The first pass of a rung changes no key.
LEMMA ArmKeepsKeys ==
    ASSUME NEW c, SodRequest(c, KS, Bare("empty", 0, 0), "none")
    PROVE  UNCHANGED keys
<1>. DEFINE q == Bare("empty", 0, 0)
<1>1. q.shape = "empty"
  BY DEF Bare
<1>. HIDE DEF q
<1>2. Route(KS, q) \in {"deliver", "arm_write"}
  BY <1>1, KeySetEntry DEF Route
<1>3. DeliverRead(KS) \/ ArmWriteChallenge(c, KS, q, "none")
  BY <1>2 DEF SodRequest, Dispatch, q
<1>. QED  BY <1>3 DEF DeliverRead, ArmWriteChallenge

\* The second pass installs the rung's key on the authority of the key it was
\* sealed under, which is the device's, or changes no key.
LEMMA RungEffect ==
    ASSUME FlowInv, NEW c \in Client, cl[c].pc = "pass2",
           SodRequest(c, KS, RungFrame(cl[c], c), "none")
    PROVE  LET r == cl[c]
               a == DispatchAbort(c, KS, RungFrame(r, c), "none")
           IN  \/ a # "NONE" /\ UNCHANGED keys
               \/ /\ keys' = [keys EXCEPT ![r.rung] = r.key[r.rung]]
                  /\ stage' = IF keys'[3] # NoKey THEN "OPERATIONAL"
                              ELSE IF keys'[1] # NoKey THEN "OWNED" ELSE stage
                  /\ keys[r.keyid] = r.key[r.keyid] /\ keys[r.keyid] # NoKey
<1>. DEFINE r == cl[c]
            q == RungFrame(r, c)
            pt == [sel |-> r.rung, w |-> r.key[r.rung]]
<1>1. Sound(r) /\ r.pc = "pass2"
  BY ProcessAt
<1>2. q \in Request /\ KidBase(q.b) = r.keyid
  BY <1>1, RungFrameType
<1>3. q.shape = "write" /\ q.box.pt = pt /\ q.box.key = r.key[r.keyid]
  BY DEF RungFrame, Seal
<1>. HIDE DEF q, r
<1>4. Route(KS, q) = "write"
  BY <1>3, KeySetEntry DEF Route
<1>5. VerifyAndApplyWrite(KS, q)
  BY <1>4 DEF SodRequest, Dispatch, q, r
<1>6. DispatchAbort(c, KS, q, "none") = IF VerifyAbort(KS, q) # "NONE" THEN VerifyAbort(KS, q)
                                        ELSE WriteAfterAbort(KS, q.box.pt, KidBase(q.b))
  BY <1>4 DEF DispatchAbort
<1>7. CASE VerifyAbort(KS, q) = "NONE" /\ WriteAfterAbort(KS, q.box.pt, KidBase(q.b)) = "NONE"
  <2>1. WriteAfter(KS, q.box, KidBase(q.b))
    BY <1>5, <1>7 DEF VerifyAndApplyWrite
  <2>2. ApplyKeySet(pt)
    BY <1>3, <2>1, KeySetEntry DEF WriteAfter
  <2>3. /\ keys' = [keys EXCEPT ![r.rung] = r.key[r.rung]]
        /\ stage' = IF keys'[3] # NoKey THEN "OPERATIONAL"
                    ELSE IF keys'[1] # NoKey THEN "OWNED" ELSE stage
    BY <2>2 DEF ApplyKeySet
  <2>4. KeyUsable(KS, q.b) /\ WriteOpens(KS, q)
    BY <1>7 DEF VerifyAbort
  <2>5. q.box.key = keys[KidBase(q.b)]
    BY <2>4 DEF WriteOpens, Opens, Seal
  <2>6. keys[KidBase(q.b)] # NoKey
    BY <2>4 DEF KeyUsable, HasKey
  <2>. QED  BY <1>2, <1>3, <2>3, <2>5, <2>6 DEF q, r
<1>8. CASE ~(VerifyAbort(KS, q) = "NONE" /\ WriteAfterAbort(KS, q.box.pt, KidBase(q.b)) = "NONE")
  <2>1. DispatchAbort(c, KS, q, "none") # "NONE"
    BY <1>6, <1>8
  <2>2. UNCHANGED keys
    BY <1>5, <1>8 DEF VerifyAndApplyWrite
  <2>. QED  BY <2>1, <2>2 DEF q, r
<1>. QED  BY <1>7, <1>8

LEMMA RisingStep ==
    ASSUME NoGap
    PROVE  FlowInv /\ Rising /\ [FlowNext]_flowVars => Rising'
<1>. SUFFICES ASSUME FlowInv, Rising, [FlowNext]_flowVars
              PROVE  Rising'
  OBVIOUS
<1>1. CASE UNCHANGED keys
  BY <1>1 DEF Rising
<1>2. CASE UNCHANGED commVars
  BY <1>1, <1>2 DEF commVars, vars
<1>3. CASE UNCHANGED flowVars \/ Tick
  BY <1>1, <1>2, <1>3 DEF flowVars, Tick, core
<1>4. CASE CommRestart
  <2>1. PICK k \in BootKeys : keys' = Boot(k)
    BY <1>4 DEF CommRestart, Restart
  <2>. QED  BY <2>1 DEF NoGap, Rising, Boot, KeySlot
<1>5. CASE Decommission
  BY <1>5 DEF Decommission, Rising, KeySlot
<1>6. ASSUME NEW c \in Client, ClientStep(c)
      PROVE  Rising'
  <2>1. CASE RungArm(c)
    BY <1>1, <1>2, <2>1, ArmKeepsKeys DEF RungArm, Rpc
  <2>2. CASE RungWrite(c)
    <3>1. cl[c].pc = "pass2" /\ (UNCHANGED commVars \/ SodRequest(c, KS, RungFrame(cl[c], c), "none"))
      BY <2>2 DEF RungWrite, Rpc, RungFrame
    <3>2. CASE /\ keys' = [keys EXCEPT ![cl[c].rung] = cl[c].key[cl[c].rung]]
               /\ keys[cl[c].keyid] # NoKey
      <4>1. /\ cl[c].rung \in 1..3 /\ cl[c].keyid = Authorizer[cl[c].rung]
            /\ cl[c].key[cl[c].rung] # NoKey
        BY <3>1, ProcessAt DEF Sound, Borrowed, Paired
      <4>2. cl[c].rung = 2 => keys[1] # NoKey
        BY <3>2, <4>1 DEF Authorizer
      <4>3. keys \in [KeySlot -> Word] /\ 1..3 \subseteq KeySlot
        BY DEF FlowInv, CommType, TypeOK, KeySlot
      <4>4. cl[c].rung # 1 => keys'[1] = keys[1]
        BY <3>2, <4>1, <4>3
      <4>5. cl[c].rung # 2 => keys'[2] = keys[2]
        BY <3>2, <4>1, <4>3
      <4>6. cl[c].rung = 1 => keys'[1] # NoKey
        BY <3>2, <4>1, <4>3
      <4>. QED  BY <4>2, <4>4, <4>5, <4>6 DEF Rising
    <3>. QED  BY <1>1, <1>2, <3>1, <3>2, RungEffect
  <2>3. CASE InstallProvisioning(c)
    <3>1. CASE HandleProvision(DemoKey, Peer)
      <4>1. keys' = keys \/ keys' = [keys EXCEPT ![1] = DemoKey]
        BY <3>1 DEF HandleProvision
      <4>. QED  BY <1>1, <4>1, KeyFacts DEF Rising, FlowInv, CommType, TypeOK, KeySlot
    <3>. QED  BY <1>2, <2>3, <3>1 DEF InstallProvisioning, Rpc
  <2>4. CASE PresentVoucher(c) \/ GenerateLdevid(c)
    BY <1>1, <1>2, <2>4 DEF PresentVoucher, GenerateLdevid, Rpc, HandleVoucher, HandleLdevid, vars
  <2>5. CASE FetchChallenge(c) \/ SendCommand(c)
    BY <1>1, <1>2, <1>5, <2>5 DEF FetchChallenge, SendCommand, Rpc, ArmChallenge, SignedCommand, vars
  <2>6. CASE Start(c) \/ Enforce(c) \/ SelectKey(c) \/ Navigate(c)
    BY <1>2, <2>6 DEF Start, Enforce, ColdRead, Rpc, SelectKey, Navigate
  <2>7. CASE ReadState(c) \/ Choose(c) \/ VerifyGenuineness(c) \/ ReadOwnerEpoch(c)
    BY <1>2, <2>7 DEF ReadState, Choose, VerifyGenuineness, ReadOwnerEpoch, Rpc
  <2>. QED  BY <1>6, <2>1, <2>2, <2>3, <2>4, <2>5, <2>6, <2>7 DEF ClientStep
<1>. QED  BY <1>3, <1>4, <1>6 DEF FlowNext

\* What FlowTruthful says of one client.
Told(c) ==
    cl'[c].report # cl[c].report =>
        CASE cl'[c].report = "owned" -> owner' = Peer
          [] cl'[c].report = "claimed" -> keys'[1] = cl'[c].key[1]
          [] cl'[c].report = "operational" ->
               /\ stage' = "OPERATIONAL" /\ keys'[1] # NoKey
               /\ \A i \in 2..3 : keys'[i] = cl'[c].key[i]
          [] cl'[c].report = "decommissioned" ->
               owner' = NoOwner /\ \A i \in 1..3 : keys'[i] = NoKey
          [] OTHER -> TRUE

\* Only the client that moves reports.
LEMMA MoverTold ==
    ASSUME FlowTypeOK, NEW c \in Client, NEW s, Move(c, s),
           \/ s.report \in {cl[c].report, "none"}
           \/ s.report = "owned" /\ owner' = Peer
           \/ s.report = "claimed" /\ keys'[1] = s.key[1]
           \/ /\ s.report = "operational" /\ stage' = "OPERATIONAL" /\ keys'[1] # NoKey
              /\ \A i \in 2..3 : keys'[i] = s.key[i]
           \/ s.report = "decommissioned" /\ owner' = NoOwner /\ \A i \in 1..3 : keys'[i] = NoKey
    PROVE  \A d \in Client : Told(d)
<1>1. cl'[c] = s /\ \A d \in Client : d # c => cl'[d] = cl[d]
  BY DEF Move, FlowTypeOK
<1>2. \A d \in Client : d # c => Told(d)
  BY <1>1 DEF Told
<1>3. Told(c)
  BY <1>1 DEF Told
<1>. QED  BY <1>2, <1>3

LEMMA QuietReports ==
    ASSUME NEW r \in Process
    PROVE  /\ Exit(r).report = "none"
           /\ PastGate(r).report \in {r.report, "none"}
           /\ \A n \in 1..3 : StartRung(r, n).report = r.report
           /\ \A to, rep : After(r, to, rep).report = rep
<1>1. Exit(r).report = "none"
  BY DEF Exit, Idle
<1>2. PastGate(r).report \in {r.report, "none"}
  BY <1>1 DEF PastGate, Process
<1>3. \A n \in 1..3 : StartRung(r, n).report = r.report
  BY DEF StartRung, Process
<1>4. \A to, rep : After(r, to, rep).report = rep
  BY DEF After, Process
<1>. QED  BY <1>1, <1>2, <1>3, <1>4

LEMMA StartQuiet ==
    ASSUME FlowInv, NEW c \in Client, Start(c)
    PROVE  \A d \in Client : Told(d)
<1>1. cl[c] \in Process /\ cl[c].left - 1 \in Nat
  BY ProcessAt DEF Process, Start
<1>2. PICK o \in Options[c] :
         LET r == Launch(o, cl[c].left - 1)
         IN  \E s \in {Exit(r), PastGate(r), [r EXCEPT !.pc = "gate"],
                       [Idle(cl[c].left - 1) EXCEPT !.mode = o.mode, !.pc = "genuine"]} :
                Move(c, s)
  BY DEF Start
<1>. DEFINE r == Launch(o, cl[c].left - 1)
<1>3. r \in Process
  BY <1>1, LaunchSound, OptionsTyped
<1>4. r.report = "none"
  BY DEF Launch, Idle
<1>. HIDE DEF r
<1>5. /\ Exit(r).report = "none" /\ PastGate(r).report = "none"
      /\ [r EXCEPT !.pc = "gate"].report = "none"
  BY <1>3, <1>4, QuietReports DEF Process
<1>6. [Idle(cl[c].left - 1) EXCEPT !.mode = o.mode, !.pc = "genuine"].report = "none"
  BY DEF Idle
<1>7. \E s : Move(c, s) /\ s.report = "none"
  BY <1>2, <1>5, <1>6 DEF r
<1>. QED  BY <1>7, MoverTold DEF FlowInv, ClientsInv

LEMMA MenuQuiet ==
    ASSUME FlowInv, NEW c \in Client,
           \/ Enforce(c) \/ SelectKey(c) \/ Navigate(c) \/ ReadState(c) \/ Choose(c)
    PROVE  \A d \in Client : Told(d)
<1>. DEFINE r == cl[c]
<1>1. r \in Process
  BY ProcessAt
<1>2. SUFFICES \E s : Move(c, s) /\ s.report \in {r.report, "none"}
  BY MoverTold DEF FlowInv, ClientsInv
<1>3. CASE Enforce(c)
  <2>. DEFINE reply == CapReply(r.sub)
  <2>1. \E s \in {NextCaps(r, reply), Exit(r)} : Move(c, s)
    BY <1>3 DEF Enforce, ColdRead, Rpc
  <2>. HIDE DEF reply, r
  <2>2. NextCaps(r, reply).report \in {r.report, "none"}
    BY <1>1, QuietReports DEF NextCaps, Process
  <2>. QED  BY <1>1, <2>1, <2>2, QuietReports
<1>4. CASE SelectKey(c)
  <2>1. PICK k : Move(c, [r EXCEPT !.keyid = k, !.chosen = k, !.report = "none",
                                   !.pc = IF @ = "pick" THEN "rd" ELSE @])
    BY <1>4 DEF SelectKey
  <2>. HIDE DEF r
  <2>. DEFINE t == [r EXCEPT !.keyid = k, !.chosen = k, !.report = "none",
                             !.pc = IF @ = "pick" THEN "rd" ELSE @]
  <2>2. t.report = "none"
    BY <1>1 DEF Process
  <2>3. Move(c, t)
    BY <2>1
  <2>. HIDE DEF t
  <2>. QED  BY <2>2, <2>3
<1>5. CASE Navigate(c)
  <2>. DEFINE n == [r EXCEPT !.report = "none"]
  <2>1. \/ \E p : Move(c, [n EXCEPT !.pc = p]) \/ Move(c, [n EXCEPT !.pc = p, !.acts = {}])
        \/ Move(c, Exit(n))
    BY <1>5 DEF Navigate
  <2>. HIDE DEF r
  <2>2. n \in Process /\ n.report = "none"
    BY <1>1 DEF Process
  <2>. HIDE DEF n
  <2>3. Exit(n).report = "none"
    BY <2>2, QuietReports
  <2>4. \A p : /\ [n EXCEPT !.pc = p].report = "none"
               /\ [n EXCEPT !.pc = p, !.acts = {}].report = "none"
    BY <2>2 DEF Process
  <2>. QED  BY <2>1, <2>3, <2>4
<1>6. CASE ReadState(c)
  <2>1. \E a : Move(c, [r EXCEPT !.pc = "choose", !.acts = a, !.report = "none"])
    BY <1>6 DEF ReadState
  <2>. HIDE DEF r
  <2>2. \A a : [r EXCEPT !.pc = "choose", !.acts = a, !.report = "none"].report = "none"
    BY <1>1 DEF Process
  <2>. QED  BY <2>1, <2>2
<1>7. CASE Choose(c)
  <2>. DEFINE n == [r EXCEPT !.acts = {}, !.left = @ - 1]
              k == [n EXCEPT !.key[4] = n.token]
              v == [n EXCEPT !.pc = IF n.file THEN "voucher" ELSE "epoch",
                             !.ep = IF n.file THEN DemoVoucherEpoch ELSE 0]
              e == [n EXCEPT !.pc = "arm"]
  <2>1. PICK a \in r.acts :
          Move(c, CASE a = "VOUCHER" -> v
                    [] a = "TOKEN" -> StartRung(k, 1)
                    [] a = "LADDER" -> StartLadder(n)
                    [] a = "DECOMMISSION" -> e)
    BY <1>7 DEF Choose
  <2>2. a \in {"VOUCHER", "TOKEN", "LADDER", "DECOMMISSION"}
    BY <1>1, <2>1 DEF Process
  <2>3. r.left - 1 \in Nat
    BY <1>1, <1>7 DEF Choose, Process
  <2>. HIDE DEF r
  <2>4. n \in Process /\ n.report = r.report
    BY <1>1, <2>3 DEF Process
  <2>. HIDE DEF n
  <2>5. k \in Process /\ k.report = n.report
    <3>1. n.key \in [ClientSlot -> KeyVal \cup {NoKey}] /\ n.token \in KeyVal /\ 4 \in ClientSlot
      BY <2>4, KeyFacts DEF Process
    <3>. QED  BY <2>4, <3>1 DEF Process
  <2>6. v.report = n.report /\ e.report = n.report
    BY <2>4 DEF Process
  <2>. HIDE DEF k, v, e
  <2>7. StartRung(k, 1).report = r.report /\ StartLadder(n).report = r.report
    BY <2>4, <2>5, QuietReports DEF StartLadder, Integrator
  <2>. QED  BY <2>1, <2>2, <2>4, <2>6, <2>7
<1>. QED  BY <1>3, <1>4, <1>5, <1>6, <1>7

LEMMA RequestQuiet ==
    ASSUME FlowInv, NEW c \in Client,
           \/ VerifyGenuineness(c) \/ ReadOwnerEpoch(c) \/ InstallProvisioning(c)
           \/ GenerateLdevid(c) \/ RungArm(c) \/ FetchChallenge(c)
    PROVE  \A d \in Client : Told(d)
<1>. DEFINE r == cl[c]
<1>1. r \in Process /\ Sound(r)
  BY ProcessAt
<1>2. SUFFICES \E s : Move(c, s) /\ s.report \in {r.report, "none"}
  BY MoverTold DEF FlowInv, ClientsInv
<1>3. CASE VerifyGenuineness(c)
  BY <1>1, <1>3, QuietReports DEF VerifyGenuineness
<1>4. CASE ReadOwnerEpoch(c)
  <2>1. \E x : Move(c, [r EXCEPT !.pc = "voucher", !.ep = x])
    BY <1>4 DEF ReadOwnerEpoch, Rpc
  <2>. HIDE DEF r
  <2>2. \A x : [r EXCEPT !.pc = "voucher", !.ep = x].report = r.report
    BY <1>1 DEF Process
  <2>. QED  BY <2>1, <2>2
<1>5. CASE InstallProvisioning(c)
  <2>. DEFINE n == After(r, r.pc, "none")
  <2>1. \E s \in {After(n, "ldevid", "none"), StartLadder(n), Failed(n, "ldevid")} : Move(c, s)
    BY <1>5 DEF InstallProvisioning, Rpc
  <2>2. n.report = "none"
    BY <1>1, QuietReports
  <2>3. n \in Process
    BY <1>1 DEF After, Process
  <2>. HIDE DEF n, r
  <2>. QED  BY <2>1, <2>2, <2>3, QuietReports DEF StartLadder, Integrator, Failed
<1>6. CASE GenerateLdevid(c)
  BY <1>1, <1>6, QuietReports DEF GenerateLdevid, Rpc
<1>7. CASE RungArm(c)
  <2>. DEFINE n == [r EXCEPT !.keyid = Authorizer[r.rung], !.report = "none"]
  <2>1. Move(c, RungFailed(n)) \/ \E x : Move(c, [n EXCEPT !.pc = "pass2", !.nonce = x])
    BY <1>7 DEF RungArm, Rpc
  <2>2. Lent(r)
    BY <1>1, <1>7, RungLent DEF RungArm
  <2>. HIDE DEF r
  <2>3. Authorizer[r.rung] \in 0..KeyidMax
    BY <2>2, KeyFacts DEF Lent, Authorizer
  <2>4. n \in Process
    BY <1>1, <2>3 DEF Process
  <2>5. /\ n.report = "none" /\ n.saved = r.saved /\ n.chosen = r.chosen /\ n.rung = r.rung
        /\ n.key = r.key /\ n.given = r.given /\ n.floor = r.floor
    BY <1>1 DEF Process
  <2>. HIDE DEF n
  <2>6. Lent(n)
    BY <2>2, <2>4, <2>5 DEF Lent, Supplied
  <2>7. RungFailed(n).report = "none"
    BY <2>5, <2>6, RungFailedSound
  <2>8. \A x : [n EXCEPT !.pc = "pass2", !.nonce = x].report = "none"
    BY <2>4, <2>5 DEF Process
  <2>. QED  BY <2>1, <2>7, <2>8
<1>8. CASE FetchChallenge(c)
  <2>1. \/ \E x : Move(c, [r EXCEPT !.pc = "command", !.nonce = x])
        \/ Move(c, [r EXCEPT !.pc = "rd"])
    BY <1>8 DEF FetchChallenge, Rpc
  <2>. HIDE DEF r
  <2>2. /\ \A x : [r EXCEPT !.pc = "command", !.nonce = x].report = r.report
        /\ [r EXCEPT !.pc = "rd"].report = r.report
    BY <1>1 DEF Process
  <2>. QED  BY <2>1, <2>2
<1>. QED  BY <1>3, <1>4, <1>5, <1>6, <1>7, <1>8

LEMMA OwnedTold ==
    ASSUME FlowInv, NEW c \in Client, PresentVoucher(c)
    PROVE  \A d \in Client : Told(d)
<1>. DEFINE r == [cl[c] EXCEPT !.ep = 0]
            v == DemoVoucher(cl[c].ep)
<1>1. \/ Move(c, Failed(r, "provision"))
      \/ HandleVoucher(v) /\ SecpOk(Verdict(ClaimOk(v))) /\ Move(c, After(r, "provision", "owned"))
  BY DEF PresentVoucher, Rpc
<1>2. r \in Process
  <2>1. cl[c] \in Process
    BY ProcessAt
  <2>. QED  BY <2>1, KeyFacts DEF Process
<1>. HIDE DEF r
<1>3. Failed(r, "provision").report = "none" /\ After(r, "provision", "owned").report = "owned"
  BY <1>2, QuietReports DEF Failed
<1>4. CASE Move(c, Failed(r, "provision"))
  BY <1>3, <1>4, MoverTold DEF FlowInv, ClientsInv
<1>5. CASE /\ HandleVoucher(v) /\ SecpOk(Verdict(ClaimOk(v)))
           /\ Move(c, After(r, "provision", "owned"))
  <2>1. owner' = Peer
    BY <1>5 DEF SecpOk, Verdict, HandleVoucher, DemoVoucher
  <2>. QED  BY <1>3, <1>5, <2>1, MoverTold DEF FlowInv, ClientsInv
<1>. QED  BY <1>1, <1>4, <1>5

LEMMA LadderTold ==
    ASSUME FlowInv, Rising, NEW c \in Client, RungWrite(c)
    PROVE  \A d \in Client : Told(d)
<1>. DEFINE r == cl[c]
            q == RungFrame(r, c)
<1>1. Sound(r) /\ r.pc = "pass2" /\ Lent(r)
  BY ProcessAt, RungLent DEF RungWrite
<1>2. \/ Move(c, RungFailed(r))
      \/ /\ SodRequest(c, KS, q, "none") /\ DispatchAbort(c, KS, q, "none") = "NONE"
         /\ Move(c, RungDone(r))
  BY DEF RungWrite, Rpc, RungFrame, SecpOk
<1>3. CASE Move(c, RungFailed(r))
  BY <1>1, <1>3, RungFailedSound, MoverTold DEF FlowInv, ClientsInv
<1>4. CASE /\ SodRequest(c, KS, q, "none") /\ DispatchAbort(c, KS, q, "none") = "NONE"
           /\ Move(c, RungDone(r))
  <2>1. /\ keys' = [keys EXCEPT ![r.rung] = r.key[r.rung]]
        /\ stage' = IF keys'[3] # NoKey THEN "OPERATIONAL"
                    ELSE IF keys'[1] # NoKey THEN "OWNED" ELSE stage
        /\ keys[r.keyid] = r.key[r.keyid] /\ keys[r.keyid] # NoKey
    BY <1>1, <1>4, RungEffect
  <2>2. r.rung \in 1..3 /\ r.keyid = Authorizer[r.rung] /\ r.key[r.rung] # NoKey
    BY <1>1 DEF Sound, Borrowed, Paired
  <2>3. keys \in [KeySlot -> Word] /\ 1..3 \subseteq KeySlot
    BY DEF FlowInv, CommType, TypeOK, KeySlot
  <2>. HIDE DEF r
  <2>4. /\ RungDone(r).key = r.key
        /\ r.rung = 1 => RungDone(r).report = "claimed"
        /\ r.rung = 2 => RungDone(r).report = r.report
        /\ r.rung = 3 => RungDone(r).report = "operational"
    BY <1>1, RungDoneSound
  <2>5. CASE r.rung = 1
    <3>1. keys'[1] = RungDone(r).key[1]
      BY <2>1, <2>3, <2>4, <2>5
    <3>. QED  BY <1>4, <2>4, <2>5, <3>1, MoverTold DEF FlowInv, ClientsInv
  <2>6. CASE r.rung = 2
    BY <1>4, <2>4, <2>6, MoverTold DEF FlowInv, ClientsInv, r
  <2>7. CASE r.rung = 3
    <3>1. r.keyid = 2
      BY <2>2, <2>7 DEF Authorizer
    <3>2. keys'[3] = r.key[3] /\ keys'[2] = r.key[2] /\ keys'[1] = keys[1]
      BY <2>1, <2>3, <2>7, <3>1
    <3>3. keys'[3] # NoKey /\ keys'[1] # NoKey
      BY <2>1, <2>2, <2>7, <3>1, <3>2 DEF Rising
    <3>4. stage' = "OPERATIONAL"
      BY <2>1, <3>3
    <3>5. \A i \in 2..3 : keys'[i] = RungDone(r).key[i]
      BY <2>4, <3>2
    <3>. QED  BY <1>4, <2>4, <2>7, <3>3, <3>4, <3>5, MoverTold DEF FlowInv, ClientsInv
  <2>. QED  BY <2>2, <2>5, <2>6, <2>7
<1>. QED  BY <1>2, <1>3, <1>4

LEMMA RestoreTold ==
    ASSUME FlowInv, NEW c \in Client, SendCommand(c)
    PROVE  \A d \in Client : Told(d)
<1>. DEFINE r == [cl[c] EXCEPT !.pc = "rd", !.nonce = 0]
            t == [r EXCEPT !.report = "decommissioned"]
            a == RestoreCommand(cl[c], c)
<1>1. \/ Move(c, r)
      \/ /\ SignedCommand(c, a) /\ Move(c, t)
         /\ SecpOk(Verdict(ChallengeFor(c, "COMMAND") /\ SignatureOk(a, "COMMAND", c)))
  BY DEF SendCommand, Rpc, RestoreCommand
<1>2. r \in Process /\ r.report = cl[c].report
  <2>1. "rd" \in Pc /\ 0 \in 0..MaxRandom
    BY SodConstants DEF Pc, Prompt
  <2>2. cl[c] \in Process
    BY ProcessAt
  <2>3. r \in Process
    BY <2>1, <2>2 DEF Process
  <2>4. r.report = cl[c].report
    BY <2>2 DEF Process
  <2>. QED  BY <2>3, <2>4
<1>. HIDE DEF r
<1>3. t.report = "decommissioned"
  BY <1>2 DEF Process
<1>. HIDE DEF t
<1>4. CASE Move(c, r)
  BY <1>2, <1>4, MoverTold DEF FlowInv, ClientsInv
<1>5. CASE /\ SignedCommand(c, a) /\ Move(c, t)
           /\ SecpOk(Verdict(ChallengeFor(c, "COMMAND") /\ SignatureOk(a, "COMMAND", c)))
  <2>1. ChallengeFor(c, "COMMAND") /\ SignatureOk(a, "COMMAND", c)
    BY <1>5 DEF SecpOk, Verdict
  <2>2. a.tgt = Restore
    BY DEF RestoreCommand
  <2>3. Decommission /\ AsymDecommission
    BY <1>5, <2>1, <2>2 DEF SignedCommand
  <2>4. owner' = NoOwner /\ \A i \in 1..3 : keys'[i] = NoKey
    BY <2>3 DEF Decommission, AsymDecommission, KeySlot
  <2>. QED  BY <1>3, <1>5, <2>4, MoverTold DEF FlowInv, ClientsInv
<1>. QED  BY <1>1, <1>4, <1>5

\* lifecycle_do_action, lifecycle_run_ladder: every success a client reports is
\* so at the device, for any number of clients, losses and restarts.  A key file
\* with the Integrator key and no Provisioning key is excluded: from there a
\* ladder ends "operational" without one.
THEOREM ReportsTrue ==
    ASSUME NoGap
    PROVE  FlowSpec => FlowTruthful
<1>1. FlowInit => Rising
  <2>1. ASSUME FlowInit
        PROVE  Rising
    <3>1. PICK k \in BootKeys : keys = Boot(k)
      BY <2>1 DEF FlowInit, CommInit, Init
    <3>. QED  BY <3>1 DEF NoGap, Rising, Boot, KeySlot
  <2>. QED  BY <2>1
<1>2. FlowInv /\ Rising /\ [FlowNext]_flowVars => [\A c \in Client : Told(c)]_flowVars
  <2>. SUFFICES ASSUME FlowInv, Rising, FlowNext
                PROVE  \A c \in Client : Told(c)
    OBVIOUS
  <2>1. CASE UNCHANGED cl
    BY <2>1 DEF Told
  <2>2. ASSUME NEW c \in Client, ClientStep(c)
        PROVE  \A d \in Client : Told(d)
    BY <2>2, StartQuiet, MenuQuiet, RequestQuiet, OwnedTold, LadderTold, RestoreTold DEF ClientStep
  <2>. QED  BY <2>1, <2>2 DEF FlowNext
<1>3. [][\A c \in Client : Told(c)]_flowVars => FlowTruthful
  BY DEF FlowTruthful, Told
<1>. QED  BY <1>1, <1>2, <1>3, FlowInvariant, RisingStep, PTL DEF FlowSpec

=============================================================================
