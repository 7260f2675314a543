--------------------------- MODULE SecureOdProofs ---------------------------
(***************************************************************************)
(* Machine-checked facts about the secure object dictionary, for every     *)
(* set of clients, entries, keys and every timeout and budget.             *)
(***************************************************************************)
EXTENDS SecureOd, FunctionTheorems, FiniteSetTheorems, TLAPS

-----------------------------------------------------------------------------
(* Operators. *)

LEMMA KidBaseType ==
    ASSUME NEW b \in Byte
    PROVE  KidBase(b) \in 0..15
BY DEF KidBase, Byte

LEMMA WordWrap ==
    ASSUME NEW w \in Word
    PROVE  (w + 1) % WordMod \in Word
BY SodConstants DEF Word

LEMMA SealType ==
    ASSUME NEW key \in Word, NEW cr \in Nat, NEW sr \in Nat, NEW ctr \in Nat,
           NEW dir \in Dir, NEW kid \in Byte, NEW c \in Nat, NEW e \in Entry, NEW pt \in Plain
    PROVE  Seal(key, cr, sr, ctr, dir, kid, c, e, pt) \in Box
BY DEF Seal, Box

LEMMA ZeroSlotTypes == ZeroReadSlot \in ReadSlot /\ ZeroWriteSlot \in WriteSlot
<1>1. 0 \in Clock /\ 0 \in Byte /\ ZeroBase \in Base
  BY SodConstants DEF Clock, Byte, ZeroBase, Base
<1>. QED  BY <1>1 DEF ZeroReadSlot, ReadSlot, ZeroWriteSlot, WriteSlot

\* Every request of the environment is well formed.
LEMMA PlainForType ==
    ASSUME NEW e \in Entry, NEW pt \in PlainFor(e)
    PROVE  pt \in Plain
<1>1. KeyVal \subseteq Word /\ 0..3 \subseteq 0..4 /\ {0} \subseteq 0..4
  BY SodConstants
<1>. QED  BY <1>1 DEF PlainFor, Plain

LEMMA UnsealedRequestType ==
    ASSUME NEW e \in Entry, NEW q \in UnsealedRequest(e)
    PROVE  q \in Request
<1>1. WireKid[e] \subseteq Byte
  BY SodConstants
<1>2. 1..((KeyUseLimit + 1) % 256) \subseteq Byte
  BY SodConstants DEF Byte
<1>3. ClientRandom \subseteq Nat
  BY SodConstants
<1>4. 0 \in Byte
  BY DEF Byte
<1>. QED  BY <1>1, <1>2, <1>3, <1>4 DEF UnsealedRequest, Bare, Request, Shape

LEMMA SealedRequestType ==
    ASSUME srand \in Nat, NEW c \in Client, NEW e \in WO,
           NEW q \in WriteRequest(c, e) \cup PollRequest(c, e)
    PROVE  q \in Request /\ q.box \in Box
<1>1. WireKid[e] \subseteq Byte /\ e \in Entry /\ c \in Nat
  BY SodConstants DEF Entry
<1>2. KeyVal \subseteq Word /\ ClientRandom \subseteq Nat
  BY SodConstants
<1>3. CASE q \in WriteRequest(c, e)
  <2>1. PICK b \in WireKid[e], key \in KeyVal, cr \in ClientRandom, sr \in 1..srand,
             pt \in PlainFor(e) :
          q = [shape |-> "write", b |-> b, cr |-> cr,
               box |-> Seal(key, cr, sr, 0, "WRITE_REQUEST", b, c, e, pt)]
    BY <1>3 DEF WriteRequest
  <2>2. pt \in Plain
    BY <1>1, PlainForType
  <2>3. Seal(key, cr, sr, 0, "WRITE_REQUEST", b, c, e, pt) \in Box
    <3>1. key \in Word /\ cr \in Nat /\ sr \in Nat /\ "WRITE_REQUEST" \in Dir /\ b \in Byte
      BY <1>1, <1>2 DEF Dir
    <3>. QED  BY <3>1, <2>2, <1>1, SealType
  <2>. QED  BY <2>1, <2>3, <1>1, <1>2 DEF Request, Shape
<1>4. CASE q \in PollRequest(c, e)
  <2>1. PICK b \in {k \in WireKid[e] : KidCyclic(k)}, key \in KeyVal,
             cr \in ClientRandom \cup {0}, sr \in 0..srand, ctr \in 1..(KeyUseLimit + 1), pt \in PlainFor(e) :
          q = [shape |-> "poll", b |-> ctr % 256, cr |-> 0,
               box |-> Seal(key, cr, sr, ctr, "WRITE_POLL_REQUEST", b, c, e, pt)]
    BY <1>4 DEF PollRequest
  <2>2. pt \in Plain
    BY <1>1, PlainForType
  <2>3. Seal(key, cr, sr, ctr, "WRITE_POLL_REQUEST", b, c, e, pt) \in Box
    <3>1. key \in Word /\ "WRITE_POLL_REQUEST" \in Dir /\ b \in Byte
      BY <1>1, <1>2 DEF Dir
    <3>3. cr \in Nat /\ sr \in Nat
      BY <1>2
    <3>2. ctr \in Nat
      BY SodConstants
    <3>. QED  BY <3>1, <3>2, <3>3, <2>2, <1>1, SealType
  <2>4. ctr % 256 \in Byte
    BY SodConstants DEF Byte
  <2>. QED  BY <2>1, <2>3, <2>4 DEF Request, Shape
<1>. QED  BY <1>3, <1>4
-----------------------------------------------------------------------------
(* Type correctness. *)

LEMMA ReadHookType ==
    ASSUME TypeOK, NEW e \in Entry
    PROVE  /\ ReadPlain(e) \in Plain
           /\ ReadBefore(e) => value' \in [Cell -> Word]
<1>1. CellOf[e] \in Cell /\ value[CellOf[e]] \in Word
  BY SodConstants DEF TypeOK
<1>2. (value[CellOf[e]] + 1) % WordMod \in Word
  BY <1>1, WordWrap
<1>. QED  BY <1>1, <1>2 DEF ReadPlain, Plain, ReadBefore, TypeOK

LEMMA ArmReadType ==
    ASSUME TypeOK, NEW c \in Client, NEW e \in Entry, NEW q \in Request, NEW f \in Fault,
           ArmReadResponse(c, e, q, f), UNCHANGED now
    PROVE  TypeOK'
<1>. USE DEF TypeOK
<1>1. q.b \in Byte /\ q.cr \in Nat /\ c \in Nat
  BY SodConstants DEF Request
<1>2. UNCHANGED <<now, wr, keys, lastKid, stage, applied, rungBy>>
  BY DEF ArmReadResponse
<1>3. CASE UNCHANGED <<rd, value, srand, seals>>
  BY <1>2, <1>3
<1>4. CASE /\ ReadBefore(e)
           /\ rd' = IF f = "seal" THEN [rd EXCEPT ![e] = ZeroReadSlot] ELSE rd
           /\ UNCHANGED <<srand, seals>>
  BY <1>2, <1>4, ReadHookType, ZeroSlotTypes
<1>5. CASE /\ ArmReadAbort(c, e, q, f) = "NONE"
           /\ ReadBefore(e)
           /\ srand' = srand + 1
           /\ seals' = seals \cup {ArmReadBox(c, e, q)}
           /\ rd' = [rd EXCEPT ![e] =
                       [in_use |-> TRUE, cyclic |-> KidCyclic(q.b), cli |-> c,
                        armed_at |-> now, prepared |-> ArmReadBox(c, e, q),
                        key_id |-> IF KidCyclic(q.b) THEN q.b ELSE 0,
                        base |-> IF KidCyclic(q.b) THEN [cr |-> q.cr, sr |-> srand + 1]
                                 ELSE ZeroBase,
                        counter |-> 0]]
  <2>1. keys[KidBase(q.b)] \in Word
    <3>1. KeyUsable(e, q.b)
      BY <1>5 DEF ArmReadAbort
    <3>. QED  BY <3>1 DEF KeyUsable, HasKey
  <2>2. ArmReadBox(c, e, q) \in Box
    <3>1. "READ_RESPONSE" \in Dir /\ srand + 1 \in Nat /\ 0 \in Nat
      BY DEF Dir
    <3>. QED  BY <1>1, <2>1, <3>1, ReadHookType, SealType DEF ArmReadBox
  <2>3. rd'[e] \in ReadSlot
    <3>1. KidCyclic(q.b) \in BOOLEAN /\ 0 \in Byte /\ ZeroBase \in Base
      BY DEF KidCyclic, Byte, ZeroBase, Base
    <3>2. [cr |-> q.cr, sr |-> srand + 1] \in Base
      BY <1>1 DEF Base
    <3>. QED  BY <1>1, <1>5, <2>2, <3>1, <3>2 DEF ReadSlot
  <2>4. rd' \in [Entry -> ReadSlot]
    BY <1>5, <2>3
  <2>. QED  BY <1>2, <1>5, <2>2, <2>4, ReadHookType
<1>. QED  BY <1>3, <1>4, <1>5 DEF ArmReadResponse

LEMMA DeliverReadType ==
    ASSUME TypeOK, NEW e \in Entry, DeliverRead(e), UNCHANGED now
    PROVE  TypeOK'
<1>1. rd' \in [Entry -> ReadSlot]
  BY ZeroSlotTypes DEF TypeOK, DeliverRead, ReadSlot
<1>. QED  BY <1>1 DEF TypeOK, DeliverRead

LEMMA ReadPollType ==
    ASSUME TypeOK, NEW c \in Client, NEW e \in Entry, NEW q \in Request, NEW f \in Fault,
           HandleReadPoll(c, e, q, f), UNCHANGED now
    PROVE  TypeOK'
<1>. USE DEF TypeOK
<1>1. UNCHANGED <<now, wr, keys, lastKid, stage, srand, applied, rungBy>>
  BY DEF HandleReadPoll
<1>2. CASE /\ rd' = [rd EXCEPT ![e] = IF PollTearsDown(@, c) THEN ZeroReadSlot ELSE @]
           /\ UNCHANGED <<value, seals>>
  BY <1>1, <1>2, ZeroSlotTypes
<1>3. CASE ReadBefore(e) /\ UNCHANGED <<rd, seals>>
  BY <1>1, <1>3, ReadHookType
<1>4. CASE /\ ReadPollAbort(c, e, q, f) = "NONE"
           /\ ReadBefore(e)
           /\ seals' = seals \cup {ReadPollBox(e)}
           /\ rd' = [rd EXCEPT ![e].counter = @ + 1, ![e].armed_at = now]
  <2>1. rd[e] \in ReadSlot
    OBVIOUS
  <2>2. keys[KidBase(rd[e].key_id)] \in Word
    BY <1>4 DEF ReadPollAbort, HasKey, PollCounterAbort
  <2>3. ReadPollBox(e) \in Box
    <3>1. /\ rd[e].base.cr \in Nat /\ rd[e].base.sr \in Nat /\ rd[e].counter + 1 \in Nat
          /\ rd[e].key_id \in Byte /\ rd[e].cli \in Nat
      BY <2>1 DEF ReadSlot, Base
    <3>2. "READ_POLL_RESPONSE" \in Dir
      BY DEF Dir
    <3>. QED  BY <2>2, <3>1, <3>2, ReadHookType, SealType DEF ReadPollBox
  <2>4. rd' \in [Entry -> ReadSlot]
    <3>1. rd[e].counter + 1 \in Nat /\ now \in Clock
      BY <2>1 DEF ReadSlot
    <3>2. [rd[e] EXCEPT !.counter = rd[e].counter + 1, !.armed_at = now] \in ReadSlot
      BY <2>1, <3>1 DEF ReadSlot
    <3>3. rd' = [rd EXCEPT ![e] = [rd[e] EXCEPT !.counter = rd[e].counter + 1, !.armed_at = now]]
      BY <1>4
    <3>. QED  BY <3>2, <3>3
  <2>. QED  BY <1>1, <1>4, <2>3, <2>4, ReadHookType
<1>. QED  BY <1>2, <1>3, <1>4 DEF HandleReadPoll

LEMMA ArmWriteType ==
    ASSUME TypeOK, NEW c \in Client, NEW e \in Entry, NEW q \in Request, NEW f \in Fault,
           ArmWriteChallenge(c, e, q, f), UNCHANGED now
    PROVE  TypeOK'
<1>1. q.b \in Byte /\ c \in Nat /\ 0 \in Byte /\ ZeroBase \in Base
  BY SodConstants DEF Request, Byte, ZeroBase, Base
<1>2. ASSUME NEW k \in Byte, NEW cyc \in BOOLEAN
      PROVE  [in_use |-> TRUE, cyclic |-> cyc, cli |-> c, armed_at |-> now, key_id |-> k,
              server_random |-> srand + 1, base |-> ZeroBase, counter |-> 0] \in WriteSlot
  BY <1>1 DEF TypeOK, WriteSlot
<1>3. wr' \in [Entry -> WriteSlot]
  <2>1. (IF q.shape = "byte" THEN q.b ELSE 0) \in Byte /\ (q.shape = "byte") \in BOOLEAN
    BY <1>1
  <2> DEFINE s == [in_use |-> TRUE, cyclic |-> q.shape = "byte", cli |-> c,
                   armed_at |-> now,
                   key_id |-> IF q.shape = "byte" THEN q.b ELSE 0,
                   server_random |-> srand + 1, base |-> ZeroBase, counter |-> 0]
  <2>2. s \in WriteSlot
    BY <1>2, <2>1
  <2>3. wr' = wr \/ wr' = [wr EXCEPT ![e] = s]
    BY DEF ArmWriteChallenge
  <2> HIDE DEF s
  <2>. QED  BY <2>2, <2>3 DEF TypeOK
<1>. QED  BY <1>3 DEF TypeOK, ArmWriteChallenge

\* What an accepted write leaves behind.
LEMMA WriteAfterType ==
    ASSUME TypeOK, NEW e \in Entry, NEW box \in Box, NEW kid \in 0..15, NEW by,
           WriteAfterAbort(e, box.pt, by) = "NONE", WriteAfter(e, box, kid)
    PROVE  /\ keys' \in [KeySlot -> Word] /\ stage' \in Stage /\ value' \in [Cell -> Word]
           /\ applied' \subseteq Box /\ rungBy' \in [1..3 -> 0..15]
<1>1. box.pt \in Plain
  BY DEF Box
<1>2. CASE e \in KeySet
  <2>1. box.pt.sel \in 1..3
    BY <1>2 DEF WriteAfterAbort, ApplyKeySetAbort
  <2>2. keys' = [keys EXCEPT ![box.pt.sel] = box.pt.w] /\ box.pt.w \in Word
    BY <1>1, <1>2 DEF WriteAfter, ApplyKeySet, Plain
  <2>3. keys' \in [KeySlot -> Word]
    BY <2>2 DEF TypeOK
  <2>4. stage' \in Stage
    BY <1>2 DEF WriteAfter, ApplyKeySet, TypeOK, Stage
  <2>. QED  BY <1>2, <2>1, <2>3, <2>4 DEF WriteAfter, TypeOK
<1>3. CASE e \notin KeySet
  BY <1>1, <1>3 DEF WriteAfter, TypeOK, Plain
<1>. QED  BY <1>2, <1>3

LEMMA VerifyWriteType ==
    ASSUME TypeOK, NEW e \in Entry, NEW q \in Request,
           VerifyAndApplyWrite(e, q), UNCHANGED now
    PROVE  TypeOK'
<1>. USE DEF TypeOK
<1>1. q.b \in Byte /\ q.cr \in Nat /\ KidBase(q.b) \in 0..15
  BY KidBaseType DEF Request
<1>2. UNCHANGED <<now, rd, srand, seals>>
  BY DEF VerifyAndApplyWrite
<1>3. CASE /\ wr' = [wr EXCEPT ![e] = ZeroWriteSlot]
           /\ UNCHANGED <<keys, lastKid, stage, value, applied, rungBy>>
  BY <1>2, <1>3, ZeroSlotTypes
<1>4. CASE /\ lastKid' = KidBase(q.b)
           /\ wr' = [wr EXCEPT ![e] = ZeroWriteSlot]
           /\ UNCHANGED <<keys, stage, value, applied, rungBy>>
  BY <1>1, <1>2, <1>4, ZeroSlotTypes
<1>5. CASE /\ VerifyAbort(e, q) = "NONE"
           /\ lastKid' = KidBase(q.b)
           /\ WriteAfterAbort(e, q.box.pt, lastKid') = "NONE"
           /\ WriteAfter(e, q.box, KidBase(q.b))
           /\ wr' = IF KidCyclic(q.b)
                    THEN [wr EXCEPT ![e].cyclic = TRUE, ![e].key_id = q.b,
                            ![e].base = [cr |-> q.cr, sr |-> wr[e].server_random],
                            ![e].counter = 0, ![e].armed_at = now]
                    ELSE [wr EXCEPT ![e] = ZeroWriteSlot]
  <2>1. q.box \in Box
    BY <1>5 DEF VerifyAbort, WriteOpens, Opens, Request
  <2>2. wr' \in [Entry -> WriteSlot]
    <3>1. [cr |-> q.cr, sr |-> wr[e].server_random] \in Base
      BY <1>1 DEF Base, WriteSlot
    <3> DEFINE s == [wr[e] EXCEPT !.cyclic = TRUE, !.key_id = q.b,
                        !.base = [cr |-> q.cr, sr |-> wr[e].server_random],
                        !.counter = 0, !.armed_at = now]
    <3>2. s \in WriteSlot
      BY <1>1, <3>1 DEF WriteSlot
    <3>3. wr' = [wr EXCEPT ![e] = IF KidCyclic(q.b) THEN s ELSE ZeroWriteSlot]
      BY <1>5
    <3>. QED  BY <3>2, <3>3, ZeroSlotTypes
  <2>. QED  BY <1>1, <1>2, <1>5, <2>1, <2>2, WriteAfterType
<1>. QED  BY <1>3, <1>4, <1>5 DEF VerifyAndApplyWrite

LEMMA WritePollType ==
    ASSUME TypeOK, NEW c \in Client, NEW e \in Entry, NEW q \in Request,
           HandleWritePoll(c, e, q), UNCHANGED now
    PROVE  TypeOK'
<1>. USE DEF TypeOK
<1>1. UNCHANGED <<now, rd, lastKid, srand, seals>>
  BY DEF HandleWritePoll
<1>2. CASE /\ wr' = [wr EXCEPT ![e] = IF PollTearsDown(@, c) THEN ZeroWriteSlot ELSE @]
           /\ UNCHANGED <<keys, stage, value, applied, rungBy>>
  BY <1>1, <1>2, ZeroSlotTypes
<1>3. CASE UNCHANGED <<wr, keys, stage, value, applied, rungBy>>
  BY <1>1, <1>3
<1>4. CASE /\ WritePollAbort(c, e, q) = "NONE"
           /\ WriteAfterAbort(e, q.box.pt, lastKid) = "NONE"
           /\ WriteAfter(e, q.box, KidBase(wr[e].key_id))
           /\ wr' = [wr EXCEPT ![e].counter = @ + 1, ![e].armed_at = now]
  <2>1. q.box \in Box
    BY <1>4 DEF WritePollAbort, PollCounterAbort, WritePollOpens, Opens, Request
  <2>2. KidBase(wr[e].key_id) \in 0..15
    BY KidBaseType DEF WriteSlot
  <2>3. wr' \in [Entry -> WriteSlot]
    <3>1. wr[e] \in WriteSlot /\ now \in Clock
      OBVIOUS
    <3>2. wr[e].counter + 1 \in Nat
      BY <3>1 DEF WriteSlot
    <3>3. [wr[e] EXCEPT !.counter = wr[e].counter + 1, !.armed_at = now] \in WriteSlot
      BY <3>1, <3>2 DEF WriteSlot
    <3>4. wr' = [wr EXCEPT ![e] = [wr[e] EXCEPT !.counter = wr[e].counter + 1, !.armed_at = now]]
      BY <1>4
    <3>. QED  BY <3>3, <3>4
  <2>. QED  BY <1>1, <1>4, <2>1, <2>2, <2>3, WriteAfterType
<1>. QED  BY <1>2, <1>3, <1>4 DEF HandleWritePoll

LEMMA DispatchType ==
    ASSUME TypeOK, NEW c \in Client, NEW e \in Entry, NEW q \in Request, NEW f \in Fault,
           SodRequest(c, e, q, f)
    PROVE  TypeOK'
<1>1. CASE UNCHANGED <<core, seals, applied, rungBy>>
  BY <1>1 DEF TypeOK, core, SodRequest
<1>. QED  BY <1>1, ArmReadType, DeliverReadType, ReadPollType, ArmWriteType, VerifyWriteType,
             WritePollType DEF SodRequest, Dispatch

LEMMA BootType ==
    ASSUME NEW k \in BootKeys
    PROVE  Boot(k) \in [KeySlot -> Word] /\ BootStage(k) \in Stage
<1>1. KeyVal \subseteq Word /\ NoKey \in Word
  BY SodConstants DEF NoKey, Word
<1>2. k \in [1..3 -> KeyVal \cup {NoKey}] /\ ClaimToken \in KeyVal
  BY SodConstants
<1>3. k \in [1..3 -> Word] /\ ClaimToken \in Word
  BY <1>1, <1>2
<1>. QED  BY <1>3 DEF Boot, BootStage, KeySlot, Stage

\* What the environment can send: a well-formed request, a poll only where a
\* cyclic keyid is in use.
LEMMA ServedRequest ==
    ASSUME TypeOK, Serve
    PROVE  \E c \in Client, e \in Entry, q \in Request, f \in Fault :
              /\ SodRequest(c, e, q, f)
              /\ q.shape = "poll" => \E k \in WireKid[e] : KidCyclic(k)
              /\ q.shape = "write" => e \in WO /\ q \in WriteRequest(c, e)
<1>1. CASE \E c \in Client, e \in Entry, f \in Fault :
              \E q \in UnsealedRequest(e) : SodRequest(c, e, q, f)
  <2>0. PICK c \in Client, e \in Entry, f \in Fault :
           \E q \in UnsealedRequest(e) : SodRequest(c, e, q, f)
    BY <1>1
  <2>1. PICK q \in UnsealedRequest(e) : SodRequest(c, e, q, f)
    BY <2>0
  <2>2. q.shape \notin {"poll", "write"}
    BY DEF UnsealedRequest, Bare
  <2>. QED  BY <2>1, <2>2, UnsealedRequestType
<1>2. CASE \E c \in Client, e \in WO :
              \E q \in WriteRequest(c, e) \cup PollRequest(c, e) : SodRequest(c, e, q, "none")
  <2>0. PICK c \in Client, e \in WO :
           \E q \in WriteRequest(c, e) \cup PollRequest(c, e) : SodRequest(c, e, q, "none")
    BY <1>2
  <2>1. PICK q \in WriteRequest(c, e) \cup PollRequest(c, e) : SodRequest(c, e, q, "none")
    BY <2>0
  <2>2. q \in Request /\ e \in Entry /\ "none" \in Fault
    BY SealedRequestType DEF TypeOK, Entry, Fault
  <2>3. q \in WriteRequest(c, e) => q.shape = "write"
    BY DEF WriteRequest
  <2>4. q \in PollRequest(c, e) => q.shape = "poll" /\ \E k \in WireKid[e] : KidCyclic(k)
    BY DEF PollRequest
  <2>. QED  BY <2>1, <2>2, <2>3, <2>4
<1>. QED  BY <1>1, <1>2 DEF Serve

LEMMA TypeStep == TypeOK /\ [Next]_vars => TypeOK'
<1>. SUFFICES ASSUME TypeOK, [Next]_vars
              PROVE  TypeOK'
  OBVIOUS
<1>1. CASE Tick
  <2>1. now' \in Clock
    BY <1>1, SodConstants DEF Tick, TypeOK, Clock
  <2>. QED  BY <1>1, <2>1 DEF Tick, TypeOK, core
<1>2. CASE Decommission
  <2>1. keys' \in [KeySlot -> Word] /\ stage' \in Stage /\ rungBy' \in [1..3 -> 0..15]
    BY <1>2, SodConstants DEF Decommission, NoKey, Word, Stage
  <2>. QED  BY <1>2, <2>1 DEF Decommission, TypeOK
<1>3. CASE Restart
  <2>1. value' \in [Cell -> Word] /\ rungBy' \in [1..3 -> 0..15] /\ lastKid' \in 0..15
    BY <1>3, SodConstants DEF Restart, Word
  <2>2. keys' \in [KeySlot -> Word] /\ stage' \in Stage
    BY <1>3, BootType DEF Restart
  <2>. QED  BY <1>3, <2>1, <2>2, ZeroSlotTypes DEF Restart, TypeOK
<1>4. CASE Serve
  BY <1>4, ServedRequest, DispatchType
<1>5. CASE UNCHANGED vars
  BY <1>5 DEF vars, TypeOK
<1>. QED  BY <1>1, <1>2, <1>3, <1>4, <1>5 DEF Next

\* Every handler, the clock, a factory restore and a restart keep the state
\* of fbsec_secure_od.c well formed.
THEOREM TypeCorrect == Spec => []TypeOK
<1>1. Init => TypeOK
  BY SodConstants, BootType, ZeroSlotTypes DEF Init, TypeOK, Clock, Word
<1>. QED  BY <1>1, TypeStep, PTL DEF Spec

-----------------------------------------------------------------------------
(* No (key, nonce) pair is used twice by the server. *)

\* A step that seals nothing and neither opens nor rewinds a session.
LEMMA NonceQuiet ==
    ASSUME TypeOK, NonceInv, srand' \in Nat, srand' >= srand, UNCHANGED seals,
           \A e \in Entry : Session(e)' =>
              /\ Session(e)
              /\ rd'[e].base = rd[e].base
              /\ rd'[e].counter = rd[e].counter
    PROVE  NonceInv'
<1>1. \A s \in seals : s.sr \in Nat
  BY DEF TypeOK, Box
<1>2. \A e \in Entry : rd[e].base.sr \in Nat
  BY DEF TypeOK, ReadSlot, Base
<1>. QED  BY <1>1, <1>2 DEF NonceInv, TypeOK

\* Pass 1 of a read draws a random no frame was sealed under.
LEMMA NonceArm ==
    ASSUME TypeOK, NonceInv, NEW c \in Client, NEW e \in Entry, NEW q \in Request,
           NEW f \in Fault, ArmReadResponse(c, e, q, f)
    PROVE  NonceInv'
<1>1. CASE UNCHANGED <<rd, value, srand, seals>>
  BY <1>1, NonceQuiet DEF Session, TypeOK
<1>2. CASE /\ rd' = IF f = "seal" THEN [rd EXCEPT ![e] = ZeroReadSlot] ELSE rd
           /\ UNCHANGED <<srand, seals>>
  <2>1. \A d \in Entry : Session(d)' => Session(d) /\ rd'[d] = rd[d]
    BY <1>2 DEF Session, ZeroReadSlot, TypeOK
  <2>. QED  BY <1>2, <2>1, NonceQuiet DEF TypeOK
<1>3. CASE /\ srand' = srand + 1
           /\ seals' = seals \cup {ArmReadBox(c, e, q)}
           /\ rd' = [rd EXCEPT ![e] =
                       [in_use |-> TRUE, cyclic |-> KidCyclic(q.b), cli |-> c,
                        armed_at |-> now, prepared |-> ArmReadBox(c, e, q),
                        key_id |-> IF KidCyclic(q.b) THEN q.b ELSE 0,
                        base |-> IF KidCyclic(q.b) THEN [cr |-> q.cr, sr |-> srand + 1]
                                 ELSE ZeroBase,
                        counter |-> 0]]
  <2>. DEFINE new == ArmReadBox(c, e, q)
  <2>1. new.sr = srand + 1 /\ new.ctr = 0 /\ new.dir = "READ_RESPONSE"
    BY DEF ArmReadBox, Seal
  <2>2. srand \in Nat /\ KeyUseLimit \in Nat /\ \A s \in seals : s.sr \in Nat /\ s.ctr \in Nat
    BY SodConstants DEF TypeOK, Box
  <2>3. \A d \in Entry : rd[d].base.sr \in Nat /\ rd[d].counter \in Nat
    BY DEF TypeOK, ReadSlot, Base
  <2>4. \A s \in seals : s.sr <= srand
    BY DEF NonceInv
  <2>5. \A d \in Entry : d # e => rd'[d] = rd[d]
    BY <1>3 DEF TypeOK
  <2>6. Session(e)' => rd'[e].base.sr = srand + 1 /\ rd'[e].counter = 0
    BY <1>3 DEF TypeOK, Session
  <2>. HIDE DEF new
  <2>7. \A s \in seals' : s.sr <= srand' /\ s.ctr <= KeyUseLimit
    BY <1>3, <2>1, <2>2 DEF NonceInv, new
  <2>8. \A s, t \in seals' : s.sr = t.sr /\ s.ctr = t.ctr => s = t
    BY <1>3, <2>1, <2>2, <2>4 DEF NonceInv, new
  <2>9. ASSUME NEW d \in Entry, Session(d)'
        PROVE  /\ rd'[d].base.sr <= srand'
               /\ \A s \in seals' : s.sr = rd'[d].base.sr => s.ctr <= rd'[d].counter
    <3>1. CASE d = e
      BY <1>3, <2>1, <2>2, <2>4, <2>6, <2>9, <3>1 DEF new
    <3>2. CASE d # e
      <4>1. Session(d) /\ rd'[d] = rd[d]
        BY <2>5, <2>9, <3>2 DEF Session
      <4>. QED  BY <1>3, <2>1, <2>2, <2>3, <4>1 DEF NonceInv, new
    <3>. QED  BY <3>1, <3>2
  <2>10. ASSUME NEW d \in Entry, NEW g \in Entry, Session(d)', Session(g)',
                rd'[d].base.sr = rd'[g].base.sr
         PROVE  d = g
    <3>1. \A x \in Entry : x # e /\ Session(x)' => Session(x) /\ rd'[x].base.sr <= srand
      BY <2>5 DEF Session, NonceInv
    <3>. QED  BY <2>2, <2>3, <2>5, <2>6, <2>10, <3>1 DEF NonceInv
  <2>11. \A s \in seals' : s.dir = "READ_POLL_RESPONSE" => s.ctr > 0
    BY <1>3, <2>1 DEF NonceInv, new
  <2>. QED  BY <2>7, <2>8, <2>9, <2>10, <2>11 DEF NonceInv
<1>. QED  BY <1>1, <1>2, <1>3 DEF ArmReadResponse

\* A poll seals under a counter above every frame of its session.
LEMMA NoncePoll ==
    ASSUME TypeOK, NonceInv, NEW c \in Client, NEW e \in Entry, NEW q \in Request,
           NEW f \in Fault, HandleReadPoll(c, e, q, f)
    PROVE  NonceInv'
<1>1. UNCHANGED srand
  BY DEF HandleReadPoll
<1>2. CASE /\ rd' = [rd EXCEPT ![e] = IF PollTearsDown(@, c) THEN ZeroReadSlot ELSE @]
           /\ UNCHANGED seals
  <2>1. \A d \in Entry : Session(d)' => Session(d) /\ rd'[d] = rd[d]
    BY <1>2 DEF Session, ZeroReadSlot, TypeOK
  <2>. QED  BY <1>1, <1>2, <2>1, NonceQuiet DEF TypeOK
<1>3. CASE UNCHANGED <<rd, seals>>
  BY <1>1, <1>3, NonceQuiet DEF Session, TypeOK
<1>4. CASE /\ ReadPollAbort(c, e, q, f) = "NONE"
           /\ seals' = seals \cup {ReadPollBox(e)}
           /\ rd' = [rd EXCEPT ![e].counter = @ + 1, ![e].armed_at = now]
  <2>. DEFINE new == ReadPollBox(e)
  <2>1. new.sr = rd[e].base.sr /\ new.ctr = rd[e].counter + 1
    BY DEF ReadPollBox, Seal
  <2>2. Session(e)
    BY <1>4 DEF ReadPollAbort, SessionAbort, Session
  <2>3. ~(rd[e].counter >= KeyUseLimit)
    BY <1>4, <2>2 DEF ReadPollAbort, PollCounterAbort
  <2>4. srand \in Nat /\ KeyUseLimit \in Nat /\ \A s \in seals : s.sr \in Nat /\ s.ctr \in Nat
    BY SodConstants DEF TypeOK, Box
  <2>5. \A d \in Entry : rd[d].base.sr \in Nat /\ rd[d].counter \in Nat
    BY DEF TypeOK, ReadSlot, Base
  <2>6. \A d \in Entry : d # e => rd'[d] = rd[d]
    BY <1>4 DEF TypeOK
  <2>7. /\ rd'[e].base = rd[e].base /\ rd'[e].counter = rd[e].counter + 1
        /\ rd'[e].in_use = rd[e].in_use /\ rd'[e].cyclic = rd[e].cyclic
    <3>1. rd[e] \in ReadSlot
      BY DEF TypeOK
    <3>2. rd'[e] = [rd[e] EXCEPT !.counter = rd[e].counter + 1, !.armed_at = now]
      BY <1>4 DEF TypeOK
    <3>. QED  BY <3>1, <3>2 DEF ReadSlot
  <2>8. \A d \in Entry : Session(d)' => Session(d) /\ rd'[d].base = rd[d].base
    BY <2>6, <2>7 DEF Session
  <2>9. \A s \in seals : s.sr = rd[e].base.sr => s.ctr <= rd[e].counter
    BY <2>2 DEF NonceInv
  <2>10. rd[e].base.sr <= srand
    BY <2>2 DEF NonceInv
  <2>. HIDE DEF new
  <2>11. \A s \in seals' : s.sr <= srand' /\ s.ctr <= KeyUseLimit
    BY <1>1, <1>4, <2>1, <2>3, <2>4, <2>5, <2>10 DEF NonceInv, new
  <2>12. \A s, t \in seals' : s.sr = t.sr /\ s.ctr = t.ctr => s = t
    BY <1>4, <2>1, <2>4, <2>5, <2>9 DEF NonceInv, new
  <2>13. ASSUME NEW d \in Entry, Session(d)'
         PROVE  /\ rd'[d].base.sr <= srand'
                /\ \A s \in seals' : s.sr = rd'[d].base.sr => s.ctr <= rd'[d].counter
    <3>1. CASE d = e
      <4>1. \A s \in seals' : s.sr = rd[e].base.sr => s.ctr <= rd[e].counter + 1
        BY <1>4, <2>1, <2>4, <2>5, <2>9 DEF new
      <4>. QED  BY <1>1, <2>7, <2>10, <3>1, <4>1
    <3>2. CASE d # e
      <4>1. Session(d) /\ rd'[d] = rd[d] /\ rd[d].base.sr # rd[e].base.sr
        BY <2>2, <2>6, <2>8, <2>13, <3>2 DEF NonceInv
      <4>. QED  BY <1>1, <1>4, <2>1, <4>1 DEF NonceInv, new
    <3>. QED  BY <3>1, <3>2
  <2>14. \A d, g \in Entry :
            Session(d)' /\ Session(g)' /\ rd'[d].base.sr = rd'[g].base.sr => d = g
    BY <2>8 DEF NonceInv
  <2>15. \A s \in seals' : s.dir = "READ_POLL_RESPONSE" => s.ctr > 0
    BY <1>4, <2>1, <2>5 DEF NonceInv, new
  <2>. QED  BY <2>11, <2>12, <2>13, <2>14, <2>15 DEF NonceInv
<1>. QED  BY <1>2, <1>3, <1>4 DEF HandleReadPoll

\* The other handlers leave the read slots and the sealed frames alone, or
\* only close a read slot.
LEMMA NonceServe ==
    ASSUME TypeOK, NonceInv, NEW c \in Client, NEW e \in Entry, NEW q \in Request,
           NEW f \in Fault, SodRequest(c, e, q, f)
    PROVE  NonceInv'
<1>1. CASE UNCHANGED <<rd, seals>> /\ srand' \in {srand, srand + 1}
  BY <1>1, NonceQuiet DEF Session, TypeOK
<1>2. CASE DeliverRead(e)
  <2>1. rd[e] \in ReadSlot
    BY DEF TypeOK
  <2>2. rd'[e] = [rd[e] EXCEPT !.prepared = NoBox, !.armed_at = now] \/ rd'[e] = ZeroReadSlot
    BY <1>2 DEF DeliverRead, TypeOK
  <2>3. Session(e)' => Session(e) /\ rd'[e].base = rd[e].base /\ rd'[e].counter = rd[e].counter
    <3>1. CASE rd'[e] = [rd[e] EXCEPT !.prepared = NoBox, !.armed_at = now]
      <4>1. /\ rd'[e].in_use = rd[e].in_use /\ rd'[e].cyclic = rd[e].cyclic
            /\ rd'[e].base = rd[e].base /\ rd'[e].counter = rd[e].counter
        BY <2>1, <3>1 DEF ReadSlot
      <4>. QED  BY <4>1 DEF Session
    <3>2. CASE rd'[e] = ZeroReadSlot
      BY <3>2 DEF Session, ZeroReadSlot
    <3>. QED  BY <2>2, <3>1, <3>2
  <2>4. \A d \in Entry : d # e => rd'[d] = rd[d]
    BY <1>2 DEF DeliverRead, TypeOK
  <2>5. UNCHANGED <<srand, seals>>
    BY <1>2 DEF DeliverRead
  <2>. QED  BY <2>3, <2>4, <2>5, NonceQuiet DEF Session, TypeOK
<1>3. CASE ArmReadResponse(c, e, q, f)
  BY <1>3, NonceArm
<1>4. CASE HandleReadPoll(c, e, q, f)
  BY <1>4, NoncePoll
<1>5. CASE ArmWriteChallenge(c, e, q, f)
  BY <1>1, <1>5 DEF ArmWriteChallenge
<1>6. CASE VerifyAndApplyWrite(e, q) \/ HandleWritePoll(c, e, q)
  BY <1>1, <1>6 DEF VerifyAndApplyWrite, HandleWritePoll
<1>7. CASE UNCHANGED <<core, seals, applied, rungBy>>
  BY <1>1, <1>7 DEF core
<1>. QED  BY <1>2, <1>3, <1>4, <1>5, <1>6, <1>7 DEF SodRequest, Dispatch

LEMMA NonceStep == TypeOK /\ NonceInv /\ [Next]_vars => NonceInv'
<1>. SUFFICES ASSUME TypeOK, NonceInv, [Next]_vars
              PROVE  NonceInv'
  OBVIOUS
<1>1. CASE UNCHANGED <<rd, srand, seals>>
  BY <1>1, NonceQuiet DEF Session, TypeOK
<1>2. CASE Tick \/ Decommission \/ UNCHANGED vars
  BY <1>1, <1>2 DEF Tick, Decommission, core, vars
<1>3. CASE Restart
  <2>1. \A e \in Entry : ~Session(e)'
    BY <1>3 DEF Restart, Session, ZeroReadSlot
  <2>. QED  BY <1>3, <2>1, NonceQuiet DEF Restart, TypeOK
<1>4. CASE Serve
  BY <1>4, ServedRequest, NonceServe
<1>. QED  BY <1>2, <1>3, <1>4 DEF Next

\* arm_read_response, handle_read_poll: the server random separates the
\* armings and the counter the frames of one arming, in every reachable state.
THEOREM NonceInvariant == Spec => []NonceInv
<1>1. Init => NonceInv
  BY DEF Init, NonceInv, Session, ZeroReadSlot
<1>. QED  BY <1>1, NonceStep, TypeCorrect, PTL DEF Spec

\* arm_read_response, handle_read_poll: no two frames of the server share a
\* key and a nonce, for any number of clients, entries, armings and restarts.
THEOREM NonceUnique == Spec => []NoNonceReuse
<1>1. NonceInv => NoNonceReuse
  BY DEF NonceInv, NoNonceReuse
<1>. QED  BY <1>1, NonceInvariant, PTL

\* poll_check_counter: the key budget bounds the polled frames of one session,
\* for every FBSEC_AEAD_KEY_USE_LIMIT.
THEOREM BudgetKept == Spec => []SealBudget
<1>1. TypeOK /\ NonceInv => SealBudget
  <2>. SUFFICES ASSUME TypeOK, NonceInv, NEW t \in seals
                PROVE  Cardinality({s \in seals : /\ s.cr = t.cr /\ s.sr = t.sr
                                                 /\ s.dir = "READ_POLL_RESPONSE"}) <= KeyUseLimit
    BY DEF SealBudget
  <2>. DEFINE S == {s \in seals : /\ s.cr = t.cr /\ s.sr = t.sr
                                 /\ s.dir = "READ_POLL_RESPONSE"}
              ctrOf == [s \in S |-> s.ctr]
  <2>1. KeyUseLimit \in Nat
    BY SodConstants
  <2>2. ctrOf \in [S -> 1..KeyUseLimit]
    BY <2>1 DEF TypeOK, Box, NonceInv
  <2>3. \A s, u \in S : ctrOf[s] = ctrOf[u] => s = u
    BY DEF NonceInv
  <2>4. ctrOf \in Injection(S, 1..KeyUseLimit)
    BY <2>2, <2>3, Fun_IsInj
  <2>5. IsFiniteSet(1..KeyUseLimit) /\ Cardinality(1..KeyUseLimit) = KeyUseLimit
    BY <2>1, FS_Interval
  <2>. HIDE DEF S, ctrOf
  <2>6. Cardinality(S) <= Cardinality(1..KeyUseLimit)
    BY <2>4, <2>5, FS_Injection
  <2>. QED  BY <2>5, <2>6 DEF S
<1>. QED  BY <1>1, TypeCorrect, NonceInvariant, PTL

-----------------------------------------------------------------------------
(* The single-client arming guard. *)

\* A handler passes a slot to another client only after SlotHeldByOther says
\* that nobody holds it.
LEMMA FreshSlotServe ==
    ASSUME TypeOK, NEW c \in Client, NEW e \in Entry, NEW q \in Request, NEW f \in Fault,
           SodRequest(c, e, q, f), NEW d \in Entry
    PROVE  /\ Live(rd[d]) /\ rd'[d].in_use => rd'[d].cli = rd[d].cli
           /\ Live(wr[d]) /\ wr'[d].in_use => wr'[d].cli = wr[d].cli
<1>. USE DEF TypeOK
<1>1. \A s : Live(s) /\ s.cli # c => SlotHeldByOther(s, c)
  BY DEF Live, SlotHeldByOther, SlotFresh, SessionFresh
<1>2. rd[d] \in ReadSlot /\ rd[e] \in ReadSlot /\ wr[d] \in WriteSlot /\ wr[e] \in WriteSlot
  OBVIOUS
<1>3. Live(rd[d]) /\ rd'[d].in_use => rd'[d].cli = rd[d].cli
  <2>1. CASE UNCHANGED rd
    BY <2>1
  <2>2. CASE ArmReadResponse(c, e, q, f)
    <3>1. rd' # rd /\ rd'[e].in_use => ~SlotHeldByOther(rd[e], c) /\ rd'[e].cli = c
      BY <2>2 DEF ArmReadResponse, ArmReadAbort, ZeroReadSlot
    <3>2. d # e => rd'[d] = rd[d]
      BY <2>2 DEF ArmReadResponse
    <3>. QED  BY <1>1, <3>1, <3>2
  <2>3. CASE DeliverRead(e)
    <3>1. rd'[e] = [rd[e] EXCEPT !.prepared = NoBox, !.armed_at = now] \/ rd'[e] = ZeroReadSlot
      BY <2>3 DEF DeliverRead
    <3>2. rd'[e].in_use => rd'[e].cli = rd[e].cli
      <4>1. CASE rd'[e] = [rd[e] EXCEPT !.prepared = NoBox, !.armed_at = now]
        BY <1>2, <4>1 DEF ReadSlot
      <4>2. CASE rd'[e] = ZeroReadSlot
        BY <4>2 DEF ZeroReadSlot
      <4>. QED  BY <3>1, <4>1, <4>2
    <3>. QED  BY <2>3, <3>2 DEF DeliverRead
  <2>4. CASE HandleReadPoll(c, e, q, f)
    <3>1. \/ rd'[e] = [rd[e] EXCEPT !.counter = rd[e].counter + 1, !.armed_at = now]
          \/ rd'[e] \in {ZeroReadSlot, rd[e]}
      BY <2>4 DEF HandleReadPoll
    <3>2. rd'[e].in_use => rd'[e].cli = rd[e].cli
      <4>1. CASE rd'[e] = [rd[e] EXCEPT !.counter = rd[e].counter + 1, !.armed_at = now]
        BY <1>2, <4>1 DEF ReadSlot
      <4>2. CASE rd'[e] = ZeroReadSlot
        BY <4>2 DEF ZeroReadSlot
      <4>. QED  BY <3>1, <4>1, <4>2
    <3>. QED  BY <2>4, <3>2 DEF HandleReadPoll
  <2>. QED  BY <2>1, <2>2, <2>3, <2>4
            DEF SodRequest, Dispatch, HandleWritePoll, ArmWriteChallenge, VerifyAndApplyWrite, core
<1>4. Live(wr[d]) /\ wr'[d].in_use => wr'[d].cli = wr[d].cli
  <2>1. CASE UNCHANGED wr
    BY <2>1
  <2>2. CASE ArmWriteChallenge(c, e, q, f)
    <3>1. wr' # wr /\ wr'[e].in_use => ~SlotHeldByOther(wr[e], c) /\ wr'[e].cli = c
      BY <2>2 DEF ArmWriteChallenge, ArmWriteAbort
    <3>2. d # e => wr'[d] = wr[d]
      BY <2>2 DEF ArmWriteChallenge
    <3>. QED  BY <1>1, <3>1, <3>2
  <2>3. CASE VerifyAndApplyWrite(e, q)
    <3>1. \/ wr'[e] = [wr[e] EXCEPT !.cyclic = TRUE, !.key_id = q.b,
                          !.base = [cr |-> q.cr, sr |-> wr[e].server_random],
                          !.counter = 0, !.armed_at = now]
          \/ wr'[e] = ZeroWriteSlot
      BY <2>3 DEF VerifyAndApplyWrite
    <3>2. wr'[e].in_use => wr'[e].cli = wr[e].cli
      <4>1. CASE wr'[e] = [wr[e] EXCEPT !.cyclic = TRUE, !.key_id = q.b,
                          !.base = [cr |-> q.cr, sr |-> wr[e].server_random],
                          !.counter = 0, !.armed_at = now]
        BY <1>2, <4>1 DEF WriteSlot
      <4>2. CASE wr'[e] = ZeroWriteSlot
        BY <4>2 DEF ZeroWriteSlot
      <4>. QED  BY <3>1, <4>1, <4>2
    <3>3. d # e => wr'[d] = wr[d]
      BY <2>3 DEF VerifyAndApplyWrite
    <3>. QED  BY <3>2, <3>3
  <2>4. CASE HandleWritePoll(c, e, q)
    <3>1. \/ wr'[e] = [wr[e] EXCEPT !.counter = wr[e].counter + 1, !.armed_at = now]
          \/ wr'[e] \in {ZeroWriteSlot, wr[e]}
      BY <2>4 DEF HandleWritePoll
    <3>2. wr'[e].in_use => wr'[e].cli = wr[e].cli
      <4>1. CASE wr'[e] = [wr[e] EXCEPT !.counter = wr[e].counter + 1, !.armed_at = now]
        BY <1>2, <4>1 DEF WriteSlot
      <4>2. CASE wr'[e] = ZeroWriteSlot
        BY <4>2 DEF ZeroWriteSlot
      <4>. QED  BY <3>1, <4>1, <4>2
    <3>. QED  BY <2>4, <3>2 DEF HandleWritePoll
  <2>. QED  BY <2>1, <2>2, <2>3, <2>4
            DEF SodRequest, Dispatch, HandleReadPoll, ArmReadResponse, DeliverRead, core
<1>. QED  BY <1>3, <1>4

\* slot_held_by_other: no sequence of requests, restores, restarts and clock
\* wraps hands a slot that is still held to another client.
THEOREM SlotNeverStolen == Spec => FreshSlotKept
<1>. DEFINE Kept == \A e \in Entry :
                       /\ Live(rd[e]) /\ rd'[e].in_use => rd'[e].cli = rd[e].cli
                       /\ Live(wr[e]) /\ wr'[e].in_use => wr'[e].cli = wr[e].cli
<1>1. TypeOK /\ [Next]_vars => [Kept]_vars
  <2>. SUFFICES ASSUME TypeOK, Next
                PROVE  Kept
    OBVIOUS
  <2>1. CASE Tick \/ Decommission
    BY <2>1 DEF Tick, Decommission, core
  <2>2. CASE Restart
    BY <2>2 DEF Restart, ZeroReadSlot, ZeroWriteSlot
  <2>3. CASE Serve
    BY <2>3, ServedRequest, FreshSlotServe
  <2>. QED  BY <2>1, <2>2, <2>3 DEF Next
<1>. QED  BY <1>1, TypeCorrect, PTL DEF Spec, FreshSlotKept
-----------------------------------------------------------------------------
(* A write frame is applied once. *)

\* A single-shot Pass-2 frame.
SingleShot(box) == box.dir = "WRITE_REQUEST" /\ ~KidCyclic(box.kid)

\* verify_and_apply_write: a frame without the cyclic bit that was applied is
\* never accepted again, whatever cyclic sessions run on the entry meanwhile.
SingleShotOnce ==
    \A c \in Client, e \in Entry, q \in Request :
        Commits(c, e, q) /\ SingleShot(q.box) => q.box \notin applied

\* Inductive: the server random of every arming is new, and the slot that
\* held the random of an applied single-shot frame was released with it.
OnceInv ==
    /\ \A e \in Entry : wr[e].in_use => wr[e].server_random <= srand
    /\ \A x \in applied : SingleShot(x) =>
          /\ x.sr <= srand
          /\ wr[x.e].in_use => wr[x.e].server_random # x.sr

\* Once no slot in use has changed its random, nothing new can match.
LEMMA OnceQuiet ==
    ASSUME TypeOK, OnceInv, srand' \in Nat, srand' >= srand,
           \A x \in applied' : SingleShot(x) => x \in applied,
           \A e \in Entry : wr'[e].in_use =>
              wr[e].in_use /\ wr'[e].server_random = wr[e].server_random
    PROVE  OnceInv'
<1>1. \A x \in applied : x.sr \in Nat /\ x.e \in Entry
  BY DEF TypeOK, Box
<1>2. \A e \in Entry : wr[e].server_random \in Nat
  BY DEF TypeOK, WriteSlot
<1>. QED  BY <1>1, <1>2 DEF OnceInv, TypeOK, SingleShot

LEMMA OnceArm ==
    ASSUME TypeOK, OnceInv, NEW c \in Client, NEW e \in Entry, NEW q \in Request,
           NEW f \in Fault, ArmWriteChallenge(c, e, q, f)
    PROVE  OnceInv'
<1>1. CASE UNCHANGED <<wr, srand>>
  BY <1>1, OnceQuiet DEF ArmWriteChallenge, TypeOK
<1>2. CASE srand' = srand + 1 /\ wr'[e].server_random = srand + 1
           /\ \A d \in Entry \ {e} : wr'[d] = wr[d]
  <2>1. \A x \in applied : x.sr \in Nat /\ x.e \in Entry
    BY DEF TypeOK, Box
  <2>2. srand \in Nat /\ \A d \in Entry : wr[d].server_random \in Nat
    BY DEF TypeOK, WriteSlot
  <2>3. applied' = applied
    BY DEF ArmWriteChallenge
  <2>. QED  BY <1>2, <2>1, <2>2, <2>3 DEF OnceInv, SingleShot
<1>. QED  BY <1>1, <1>2 DEF ArmWriteChallenge, TypeOK

LEMMA OnceVerify ==
    ASSUME TypeOK, OnceInv, NEW e \in Entry, NEW q \in Request, VerifyAndApplyWrite(e, q)
    PROVE  OnceInv'
<1>1. srand' = srand /\ srand \in Nat /\ \A d \in Entry : wr[d] \in WriteSlot
  BY DEF VerifyAndApplyWrite, TypeOK
<1>2. CASE wr' = [wr EXCEPT ![e] = ZeroWriteSlot] /\ UNCHANGED applied
  BY <1>1, <1>2, OnceQuiet DEF ZeroWriteSlot, TypeOK
<1>3. CASE /\ VerifyAbort(e, q) = "NONE"
           /\ WriteAfter(e, q.box, KidBase(q.b))
           /\ wr' = IF KidCyclic(q.b)
                    THEN [wr EXCEPT ![e].cyclic = TRUE, ![e].key_id = q.b,
                            ![e].base = [cr |-> q.cr, sr |-> wr[e].server_random],
                            ![e].counter = 0, ![e].armed_at = now]
                    ELSE [wr EXCEPT ![e] = ZeroWriteSlot]
  <2>1. applied' = applied \cup {q.box}
    BY <1>3 DEF WriteAfter
  <2>2. wr[e].in_use /\ WriteOpens(e, q)
    BY <1>3 DEF VerifyAbort
  <2>3. q.box.sr = wr[e].server_random /\ q.box.kid = q.b /\ q.box.e = e
    BY <2>2 DEF WriteOpens, Opens, Seal
  <2>4. \A d \in Entry : d # e => wr'[d] = wr[d]
    BY <1>3 DEF TypeOK
  <2>5. CASE KidCyclic(q.b)
    <3>1. wr'[e] = [wr[e] EXCEPT !.cyclic = TRUE, !.key_id = q.b,
                       !.base = [cr |-> q.cr, sr |-> wr[e].server_random],
                       !.counter = 0, !.armed_at = now]
      BY <1>3, <2>5 DEF TypeOK
    <3>2. wr'[e].server_random = wr[e].server_random
      BY <1>1, <3>1 DEF WriteSlot
    <3>3. ~SingleShot(q.box)
      BY <2>3, <2>5 DEF SingleShot
    <3>. QED  BY <1>1, <2>1, <2>2, <2>4, <3>2, <3>3, OnceQuiet
  <2>6. CASE ~KidCyclic(q.b)
    <3>1. ~wr'[e].in_use
      BY <1>3, <2>6 DEF TypeOK, ZeroWriteSlot
    <3>. QED  BY <1>1, <2>1, <2>2, <2>3, <2>4, <3>1 DEF OnceInv, SingleShot, TypeOK, Box
  <2>. QED  BY <2>5, <2>6
<1>. QED  BY <1>2, <1>3 DEF VerifyAndApplyWrite

LEMMA OncePoll ==
    ASSUME TypeOK, OnceInv, NEW c \in Client, NEW e \in Entry, NEW q \in Request,
           HandleWritePoll(c, e, q)
    PROVE  OnceInv'
<1>1. srand' = srand /\ srand \in Nat /\ \A d \in Entry : wr[d] \in WriteSlot
  BY DEF HandleWritePoll, TypeOK
<1>2. \A x \in applied' : SingleShot(x) => x \in applied
  <2>1. WritePollAbort(c, e, q) = "NONE" => ~SingleShot(q.box)
    BY DEF WritePollAbort, PollCounterAbort, WritePollOpens, Opens, Seal, SingleShot
  <2>. QED  BY <2>1 DEF HandleWritePoll, WriteAfter
<1>3. \A d \in Entry : wr'[d].in_use =>
         wr[d].in_use /\ wr'[d].server_random = wr[d].server_random
  <2>1. \/ wr'[e] = [wr[e] EXCEPT !.counter = wr[e].counter + 1, !.armed_at = now]
        \/ wr'[e] \in {ZeroWriteSlot, wr[e]}
    BY DEF HandleWritePoll, TypeOK
  <2>2. CASE wr'[e] = [wr[e] EXCEPT !.counter = wr[e].counter + 1, !.armed_at = now]
    <3>1. wr'[e].in_use = wr[e].in_use /\ wr'[e].server_random = wr[e].server_random
      BY <1>1, <2>2 DEF WriteSlot
    <3>. QED  BY <3>1 DEF HandleWritePoll, TypeOK
  <2>3. CASE wr'[e] \in {ZeroWriteSlot, wr[e]}
    BY <2>3 DEF HandleWritePoll, TypeOK, ZeroWriteSlot
  <2>. QED  BY <2>1, <2>2, <2>3
<1>. QED  BY <1>1, <1>2, <1>3, OnceQuiet

LEMMA OnceServe ==
    ASSUME TypeOK, OnceInv, NEW c \in Client, NEW e \in Entry, NEW q \in Request,
           NEW f \in Fault, SodRequest(c, e, q, f)
    PROVE  OnceInv'
<1>1. CASE UNCHANGED <<wr, applied>> /\ srand' \in {srand, srand + 1}
  BY <1>1, OnceQuiet DEF TypeOK
<1>2. CASE ArmReadResponse(c, e, q, f) \/ DeliverRead(e) \/ HandleReadPoll(c, e, q, f)
           \/ UNCHANGED <<core, seals, applied, rungBy>>
  BY <1>1, <1>2 DEF ArmReadResponse, DeliverRead, HandleReadPoll, core
<1>. QED  BY <1>2, OnceArm, OnceVerify, OncePoll DEF SodRequest, Dispatch

LEMMA OnceStep == TypeOK /\ OnceInv /\ [Next]_vars => OnceInv'
<1>. SUFFICES ASSUME TypeOK, OnceInv, [Next]_vars
              PROVE  OnceInv'
  OBVIOUS
<1>1. CASE Tick \/ Decommission \/ UNCHANGED vars
  BY <1>1, OnceQuiet DEF Tick, Decommission, core, vars, TypeOK
<1>2. CASE Restart
  BY <1>2, OnceQuiet DEF Restart, TypeOK, ZeroWriteSlot
<1>3. CASE Serve
  BY <1>3, ServedRequest, OnceServe
<1>. QED  BY <1>1, <1>2, <1>3 DEF Next

\* verify_and_apply_write: the challenge an accepted single-shot frame answered
\* is never in a slot again, and every challenge in use has been drawn.
THEOREM OnceInvariant == Spec => []OnceInv
<1>1. Init => OnceInv
  BY DEF Init, OnceInv, ZeroWriteSlot
<1>. QED  BY <1>1, OnceStep, TypeCorrect, PTL DEF Spec

\* A frame that opens under the slot's challenge is not one applied before.
LEMMA OnceCommits == TypeOK /\ OnceInv => SingleShotOnce
<1>. SUFFICES ASSUME TypeOK, OnceInv, NEW c \in Client, NEW e \in Entry, NEW q \in Request,
                     Commits(c, e, q), SingleShot(q.box)
              PROVE  q.box \notin applied
  BY DEF SingleShotOnce
<1>1. CASE VerifyAbort(e, q) = "NONE"
  <2>1. wr[e].in_use /\ WriteOpens(e, q)
    BY <1>1 DEF VerifyAbort
  <2>2. q.box.sr = wr[e].server_random /\ q.box.e = e
    BY <2>1 DEF WriteOpens, Opens, Seal
  <2>. QED  BY <2>1, <2>2 DEF OnceInv
<1>2. CASE WritePollAbort(c, e, q) = "NONE"
  <2>1. q.box.dir = "WRITE_POLL_REQUEST"
    BY <1>2 DEF WritePollAbort, PollCounterAbort, WritePollOpens, Opens, Seal
  <2>. QED  BY <2>1 DEF SingleShot
<1>. QED  BY <1>1, <1>2 DEF Commits

\* verify_and_apply_write, for any keyids, cyclic ones included: the replay of
\* a single-shot write frame is refused for ever, over re-armings, sessions,
\* restores and restarts.
THEOREM SingleShotNeverReplayed == Spec => []SingleShotOnce
<1>. QED  BY OnceCommits, OnceInvariant, TypeCorrect, PTL

\* Where no client uses a cyclic keyid to write, no frame at all is accepted
\* twice.  (With one, a session can be replayed from its first frame on.)
THEOREM NothingAppliedTwice ==
    ASSUME \A e \in WO : \A b \in WireKid[e] : ~KidCyclic(b)
    PROVE  Spec => []AppliedOnce
<1>1. TypeOK /\ SingleShotOnce => AppliedOnce
  <2>. SUFFICES ASSUME TypeOK, SingleShotOnce, NEW c \in Client, NEW e \in WO,
                       NEW q \in WriteRequest(c, e) \cup PollRequest(c, e), Commits(c, e, q)
                PROVE  q.box \notin applied
    BY DEF AppliedOnce
  <2>1. q \in WriteRequest(c, e)
    BY DEF PollRequest
  <2>2. SingleShot(q.box)
    BY <2>1 DEF WriteRequest, Seal, SingleShot
  <2>3. q \in Request /\ e \in Entry
    BY SealedRequestType DEF TypeOK, Entry
  <2>. QED  BY <2>2, <2>3 DEF SingleShotOnce
<1>. QED  BY <1>1, SingleShotNeverReplayed, TypeCorrect, PTL

-----------------------------------------------------------------------------
(* The key ladder. *)

\* One dispatched request keeps the ladder in order, unless it is a poll in a
\* cyclic session on the key set.
LEMMA LadderServe ==
    ASSUME TypeOK, LadderAuthorised, NEW c \in Client, NEW e \in Entry, NEW q \in Request,
           NEW f \in Fault, SodRequest(c, e, q, f), q.shape = "poll" => e \notin KeySet
    PROVE  LadderAuthorised'
<1>1. CASE UNCHANGED rungBy
  BY <1>1 DEF LadderAuthorised
<1>2. CASE VerifyAndApplyWrite(e, q)
  <2>1. CASE /\ lastKid' = KidBase(q.b)
             /\ WriteAfterAbort(e, q.box.pt, lastKid') = "NONE"
             /\ WriteAfter(e, q.box, KidBase(q.b))
             /\ e \in KeySet
    <3>1. q.box.pt.sel \in 1..3 /\ KidBase(q.b) = Authorizer[q.box.pt.sel]
      BY <2>1 DEF WriteAfterAbort, ApplyKeySetAbort
    <3>2. rungBy' = [rungBy EXCEPT ![q.box.pt.sel] = KidBase(q.b)]
      BY <2>1 DEF WriteAfter
    <3>. QED  BY <3>1, <3>2 DEF LadderAuthorised, TypeOK
  <2>. QED  BY <1>1, <1>2, <2>1 DEF VerifyAndApplyWrite, WriteAfter
<1>3. CASE Route(e, q) = "write_poll" /\ HandleWritePoll(c, e, q)
  <2>1. e \notin KeySet
    BY <1>3 DEF Route
  <2>. QED  BY <1>1, <1>3, <2>1 DEF HandleWritePoll, WriteAfter
<1>. QED  BY <1>1, <1>2, <1>3
          DEF SodRequest, Dispatch, ArmReadResponse, DeliverRead, HandleReadPoll, ArmWriteChallenge

LEMMA LadderStep ==
    ASSUME \A e \in KeySet : \A b \in WireKid[e] : ~KidCyclic(b)
    PROVE  TypeOK /\ LadderAuthorised /\ [Next]_vars => LadderAuthorised'
<1>. SUFFICES ASSUME TypeOK, LadderAuthorised, [Next]_vars
              PROVE  LadderAuthorised'
  OBVIOUS
<1>1. CASE Tick \/ UNCHANGED vars
  BY <1>1 DEF Tick, vars, LadderAuthorised
<1>2. CASE Decommission \/ Restart
  BY <1>2 DEF Decommission, Restart, LadderAuthorised
<1>3. CASE Serve
  BY <1>3, ServedRequest, LadderServe
<1>. QED  BY <1>1, <1>2, <1>3 DEF Next

\* fbsec_server_apply_key_set: where no client polls the key set, the tier
\* that verified the install of a rung is the one below it, in every order of
\* installs, restores and restarts.  A write poll does not record its key, and
\* breaks this.
THEOREM LadderInOrder ==
    ASSUME \A e \in KeySet : \A b \in WireKid[e] : ~KidCyclic(b)
    PROVE  Spec => []LadderAuthorised
<1>1. Init => LadderAuthorised
  BY DEF Init, LadderAuthorised
<1>. QED  BY <1>1, LadderStep, TypeCorrect, PTL DEF Spec
=============================================================================
