------------------------ MODULE CommissioningProofs ------------------------
(***************************************************************************)
(* Machine-checked facts about the asymmetric side of the server and the   *)
(* secure OD it shares the key store, the stage and the random source      *)
(* with, for every set of parties, clients, entries and keys.              *)
(***************************************************************************)
EXTENDS Commissioning, SecureOdProofs

-----------------------------------------------------------------------------
(* Type correctness of both sides. *)

\* The histories of signed access.
HistoryOK ==
    /\ issued \subseteq [cli : Nat, flow : Flow, nonce : Nat]
    /\ \A a \in signed : a.sn \in Nat

CommType == TypeOK /\ CommTypeOK /\ HistoryOK

\* The asymmetric handlers leave the slots, the frames and the ladder alone.
LEMMA AsymQuiet ==
    ASSUME CommType,
           \/ Handover
           \/ \E c \in Client, flow \in Flow, b \in BOOLEAN : ArmChallenge(c, flow, b)
           \/ \E c \in Client, tgt \in RO \cup {TwinRO, NoObject}, cn \in ClientRandom,
                 b \in BOOLEAN : SignedRead(c, tgt, cn, b)
           \/ \E c \in Client, a \in SignedAccess("WRITE", WO \cup {TwinWO, NoObject}, Word) :
                 SignedWrite(c, a)
    PROVE  /\ UNCHANGED <<now, rd, wr, lastKid, seals, applied, rungBy>>
           /\ srand' \in {srand, srand + 1}
BY DEF Handover, HandleVoucher, HandleProvision, HandleLdevid, ArmChallenge, SignedRead,
       SignedWrite, vars

LEMMA VoucherType ==
    ASSUME CommType, NEW v \in Voucher, HandleVoucher(v)
    PROVE  CommType'
<1>1. TypeOK'
  BY DEF CommType, TypeOK, HandleVoucher, Stage
<1>2. v.pub \in Party /\ v.epoch \in Epoch
  BY DEF Voucher
<1>3. CommTypeOK'
  BY <1>2 DEF CommType, CommTypeOK, HandleVoucher
<1>. QED  BY <1>1, <1>3 DEF CommType, HistoryOK, HandleVoucher

LEMMA ProvisionType ==
    ASSUME CommType, NEW k \in KeyVal, NEW by \in Party, HandleProvision(k, by)
    PROVE  CommType'
<1>1. k \in Word /\ 1 \in KeySlot
  BY SodConstants DEF KeySlot
<1>2. TypeOK'
  BY <1>1 DEF CommType, TypeOK, HandleProvision, Stage
<1>3. CommTypeOK'
  BY DEF CommType, CommTypeOK, HandleProvision
<1>. QED  BY <1>2, <1>3 DEF CommType, HistoryOK, HandleProvision

LEMMA LdevidType ==
    ASSUME CommType, NEW b \in BOOLEAN, HandleLdevid(b)
    PROVE  CommType'
<1>1. TypeOK'
  BY DEF CommType, TypeOK, HandleLdevid, vars
<1>2. CommTypeOK'
  BY DEF CommType, CommTypeOK, HandleLdevid
<1>. QED  BY <1>1, <1>2 DEF CommType, HistoryOK, HandleLdevid

LEMMA ArmChallengeType ==
    ASSUME CommType, NEW c \in Client, NEW flow \in Flow, NEW b \in BOOLEAN,
           ArmChallenge(c, flow, b)
    PROVE  CommType'
<1>1. TypeOK'
  BY DEF CommType, TypeOK, ArmChallenge
<1>2. srand + 1 \in Nat /\ c \in Nat
  BY SodConstants DEF CommType, TypeOK
<1>3. chal' \in [armed : BOOLEAN, cli : Client \cup {0}, flow : Flow, nonce : Nat]
  <2>1. [armed |-> TRUE, cli |-> c, flow |-> flow, nonce |-> srand + 1]
          \in [armed : BOOLEAN, cli : Client \cup {0}, flow : Flow, nonce : Nat]
    BY <1>2
  <2>. QED  BY <2>1 DEF CommType, CommTypeOK, ArmChallenge
<1>4. CommTypeOK'
  BY <1>3 DEF CommType, CommTypeOK, ArmChallenge, store
<1>5. HistoryOK'
  BY <1>2 DEF CommType, HistoryOK, ArmChallenge
<1>. QED  BY <1>1, <1>4, <1>5 DEF CommType

LEMMA DisarmType ==
    ASSUME CommTypeOK, Disarm
    PROVE  /\ chal' \in [armed : BOOLEAN, cli : Client \cup {0}, flow : Flow, nonce : Nat]
           /\ ~chal'.armed
BY DEF CommTypeOK, Disarm

LEMMA SignedReadType ==
    ASSUME CommType, NEW c \in Client, NEW tgt \in RO \cup {TwinRO, NoObject},
           NEW cn \in ClientRandom, NEW b \in BOOLEAN, SignedRead(c, tgt, cn, b)
    PROVE  CommType'
<1>1. chal' \in [armed : BOOLEAN, cli : Client \cup {0}, flow : Flow, nonce : Nat]
  BY DisarmType DEF SignedRead, CommType, CommTypeOK
<1>2. value' \in [Cell -> Word]
  <2>1. tgt \in RO /\ ReadBefore(tgt) => value' \in [Cell -> Word]
    BY ReadHookType DEF CommType, Entry
  <2>. QED  BY <2>1 DEF SignedRead, ReadTarget, CommType, TypeOK
<1>3. twin' \in [ro : Word, wo : Word]
  <2>1. twin.ro \in Word /\ twin \in [ro : Word, wo : Word]
    BY DEF CommType, CommTypeOK
  <2>2. [twin EXCEPT !.ro = (twin.ro + 1) % WordMod] \in [ro : Word, wo : Word]
    BY <2>1, WordWrap
  <2>. QED  BY <2>1, <2>2 DEF SignedRead, ReadTarget
<1>4. HistoryOK'
  <2>1. chal.nonce \in Nat
    BY DEF CommType, CommTypeOK
  <2>2. \A a \in signed' : a \in signed \/ a.sn = chal.nonce
    BY DEF SignedRead, Access
  <2>. QED  BY <2>1, <2>2 DEF CommType, HistoryOK, SignedRead
<1>5. TypeOK'
  BY <1>2 DEF CommType, TypeOK, SignedRead
<1>6. CommTypeOK'
  BY <1>1, <1>3 DEF CommType, CommTypeOK, SignedRead, store
<1>. QED  BY <1>4, <1>5, <1>6 DEF CommType

LEMMA SignedWriteType ==
    ASSUME CommType, NEW c \in Client,
           NEW a \in SignedAccess("WRITE", WO \cup {TwinWO, NoObject}, Word), SignedWrite(c, a)
    PROVE  CommType'
<1>1. chal' \in [armed : BOOLEAN, cli : Client \cup {0}, flow : Flow, nonce : Nat]
  BY DisarmType DEF SignedWrite, CommType, CommTypeOK
<1>2. a.pt \in Word /\ a.sn \in Nat
  BY DEF SignedAccess, CommType, TypeOK
<1>3. value' \in [Cell -> Word]
  BY <1>2 DEF SignedWrite, WriteTarget, CommType, TypeOK
<1>4. twin' \in [ro : Word, wo : Word]
  BY <1>2 DEF SignedWrite, WriteTarget, CommType, CommTypeOK
<1>5. HistoryOK'
  BY <1>2 DEF CommType, HistoryOK, SignedWrite
<1>6. TypeOK'
  BY <1>3 DEF CommType, TypeOK, SignedWrite
<1>7. CommTypeOK'
  BY <1>1, <1>4 DEF CommType, CommTypeOK, SignedWrite, store
<1>. QED  BY <1>5, <1>6, <1>7 DEF CommType

LEMMA SignedCommandType ==
    ASSUME CommType, NEW c \in Client,
           NEW a \in SignedAccess("COMMAND", {Restore, OtherCommand}, {0}), SignedCommand(c, a)
    PROVE  CommType'
<1>1. chal' \in [armed : BOOLEAN, cli : Client \cup {0}, flow : Flow, nonce : Nat]
  BY DisarmType DEF SignedCommand, CommType, CommTypeOK
<1>2. [Next]_vars
  BY DEF SignedCommand, Next
<1>3. TypeOK'
  BY <1>2, TypeStep DEF CommType
<1>4. a.sn \in Nat
  BY DEF SignedAccess, CommType, TypeOK
<1>5. HistoryOK'
  BY <1>4 DEF CommType, HistoryOK, SignedCommand
<1>6. CommTypeOK'
  BY <1>1 DEF CommType, CommTypeOK, SignedCommand, AsymDecommission, store
<1>. QED  BY <1>3, <1>5, <1>6 DEF CommType

LEMMA AsymInitType == AsymInit => CommTypeOK
<1>1. 0 \in Word /\ 0 \in Nat /\ NoChallenge \in [armed : BOOLEAN, cli : Client \cup {0}, flow : Flow, nonce : Nat]
  BY SodConstants DEF Word, NoChallenge, Flow
<1>. SUFFICES ASSUME AsymInit
              PROVE  CommTypeOK
  OBVIOUS
<1>2. owner \in Party \cup {NoOwner} /\ provBy \in Party \cup {NoOwner} /\ epoch \in Epoch
  BY CommissioningConstants DEF AsymInit
<1>3. uncommissioned \in BOOLEAN /\ ldevid \in BOOLEAN
  BY DEF AsymInit
<1>4. /\ twin \in [ro : Word, wo : Word] /\ claimed \subseteq Voucher
      /\ provKey \in KeyVal \cup {NoKey}
  BY <1>1 DEF AsymInit
<1>5. chal \in [armed : BOOLEAN, cli : Client \cup {0}, flow : Flow, nonce : Nat]
  BY <1>1 DEF AsymInit
<1>. QED  BY <1>2, <1>3, <1>4, <1>5 DEF CommTypeOK

LEMMA CommRestartType ==
    ASSUME CommType, CommRestart
    PROVE  CommType'
<1>1. TypeOK'
  BY TypeStep DEF CommType, CommRestart, Next
<1>2. CommTypeOK'
  <2>1. 0 \in Word /\ 0 \in Nat /\ NoChallenge \in [armed : BOOLEAN, cli : Client \cup {0}, flow : Flow, nonce : Nat]
    BY SodConstants DEF Word, NoChallenge, Flow
  <2>. QED  BY <2>1, CommissioningConstants DEF CommRestart, CommTypeOK
<1>. QED  BY <1>1, <1>2 DEF CommType, HistoryOK, CommRestart

LEMMA CommTypeStep == CommType /\ [CommNext]_commVars => CommType'
<1>. SUFFICES ASSUME CommType, [CommNext]_commVars
              PROVE  CommType'
  OBVIOUS
<1>1. CASE (Tick \/ Serve \/ UNCHANGED vars) /\ UNCHANGED asymVars
  <2>1. TypeOK'
    BY <1>1, TypeStep DEF CommType, Next
  <2>. QED  BY <1>1, <2>1 DEF CommType, CommTypeOK, HistoryOK, asymVars, store
<1>2. CASE UNCHANGED commVars
  BY <1>1, <1>2 DEF commVars
<1>3. CASE CommRestart
  BY <1>3, CommRestartType
<1>4. CASE Handover
  BY <1>4, VoucherType, ProvisionType, LdevidType DEF Handover
<1>5. CASE SignedServe
  BY <1>5, ArmChallengeType, SignedReadType, SignedWriteType, SignedCommandType DEF SignedServe
<1>. QED  BY <1>1, <1>2, <1>3, <1>4, <1>5 DEF CommNext

LEMMA CommInitType == CommInit => CommType
<1>1. Init => TypeOK
  BY SodConstants, BootType, ZeroSlotTypes DEF Init, TypeOK, Clock, Word
<1>. QED  BY <1>1, AsymInitType DEF CommInit, CommType, HistoryOK

\* Handover, signed access and the secure OD together keep every variable of
\* the server well formed.
THEOREM CommTypeCorrect == CommSpec => [](TypeOK /\ CommTypeOK)
<1>1. CommType => TypeOK /\ CommTypeOK
  BY DEF CommType
<1>. QED  BY <1>1, CommInitType, CommTypeStep, PTL DEF CommSpec
-----------------------------------------------------------------------------
(* Vouchers and ownership. *)

\* Inductive: the epoch has reached every voucher accepted since boot.
VoucherInv == \A v \in claimed : v.epoch <= epoch

\* Inductive: an uncommissioned device has no owner, and so no provisioning key.
OwnerInv == (uncommissioned <=> owner = NoOwner) /\ OwnerProvisioned

LEMMA VoucherStep == CommType /\ VoucherInv /\ [CommNext]_commVars => VoucherInv'
<1>. SUFFICES ASSUME CommType, VoucherInv, [CommNext]_commVars
              PROVE  VoucherInv'
  OBVIOUS
<1>1. CASE UNCHANGED <<claimed, epoch>>
  BY <1>1 DEF VoucherInv
<1>2. CASE \E v \in Voucher : HandleVoucher(v)
  <2>1. PICK v \in Voucher : HandleVoucher(v)
    BY <1>2
  <2>2. CASE ClaimOk(v)
    <3>1. claimed' = claimed \cup {v} /\ epoch' = v.epoch /\ v.epoch > epoch
      BY <2>1, <2>2 DEF HandleVoucher, ClaimOk
    <3>2. epoch \in Int /\ v.epoch \in Int /\ \A w \in claimed : w.epoch \in Int
      BY DEF CommType, CommTypeOK, Voucher, Epoch
    <3>. QED  BY <3>1, <3>2 DEF VoucherInv
  <2>. QED  BY <1>1, <2>1, <2>2 DEF HandleVoucher
<1>3. CASE CommRestart
  BY <1>3 DEF CommRestart, VoucherInv
<1>. QED  BY <1>1, <1>2, <1>3
          DEF CommNext, commVars, asymVars, store, Handover, HandleProvision, HandleLdevid,
              SignedServe, ArmChallenge, SignedRead, SignedWrite, SignedCommand, AsymDecommission

\* fbsec_server_asym_claim: an accepted voucher is refused from then on, for
\* every epoch range and any sequence of claims and factory restores, until
\* the device restarts.
THEOREM VoucherNeverReused == CommSpec => []VoucherOnce
<1>1. CommInit => CommType /\ VoucherInv
  BY CommInitType DEF CommInit, AsymInit, VoucherInv
<1>2. CommType /\ VoucherInv => VoucherOnce
  <2>1. CommType => epoch \in Int /\ \A v \in claimed : v.epoch \in Int
    BY DEF CommType, CommTypeOK, Voucher, Epoch
  <2>. QED  BY <2>1 DEF VoucherInv, VoucherOnce, ClaimOk
<1>. QED  BY <1>1, <1>2, CommTypeStep, VoucherStep, PTL DEF CommSpec

LEMMA OwnerStep == CommType /\ OwnerInv /\ [CommNext]_commVars => OwnerInv'
<1>. SUFFICES ASSUME CommType, OwnerInv, [CommNext]_commVars
              PROVE  OwnerInv'
  OBVIOUS
<1>1. CASE UNCHANGED <<uncommissioned, owner, provKey, provBy>>
  BY <1>1 DEF OwnerInv, OwnerProvisioned
<1>2. CASE \E v \in Voucher : HandleVoucher(v)
  <2>1. PICK v \in Voucher : HandleVoucher(v)
    BY <1>2
  <2>2. CASE ClaimOk(v)
    <3>1. v.pub \in Party /\ v.pub # NoOwner
      BY CommissioningConstants DEF Voucher
    <3>2. owner = NoOwner /\ provKey = NoKey
      BY <2>2 DEF ClaimOk, OwnerInv, OwnerProvisioned
    <3>. QED  BY <2>1, <2>2, <3>1, <3>2 DEF HandleVoucher, OwnerInv, OwnerProvisioned
  <2>. QED  BY <1>1, <2>1, <2>2 DEF HandleVoucher
<1>3. CASE \E k \in KeyVal, by \in Party : HandleProvision(k, by)
  BY <1>3 DEF HandleProvision, ProvisionOk, OwnerInv, OwnerProvisioned
<1>4. CASE CommRestart
  BY <1>4 DEF CommRestart, OwnerInv, OwnerProvisioned
<1>5. CASE AsymDecommission
  BY <1>5 DEF AsymDecommission, OwnerInv, OwnerProvisioned
<1>. QED  BY <1>1, <1>2, <1>3, <1>4, <1>5
          DEF CommNext, commVars, asymVars, store, Handover, HandleLdevid,
              SignedServe, ArmChallenge, SignedRead, SignedWrite, SignedCommand

\* fbsec_server_asym_install_provisioning and _decommission: whoever claimed,
\* provisioned or restored the device before, the provisioning key it holds
\* was signed by its owner of now.
THEOREM ProvisionedByOwner == CommSpec => []OwnerProvisioned
<1>1. CommInit => CommType /\ OwnerInv
  BY CommInitType DEF CommInit, AsymInit, OwnerInv, OwnerProvisioned
<1>2. OwnerInv => OwnerProvisioned
  BY DEF OwnerInv
<1>. QED  BY <1>1, <1>2, CommTypeStep, OwnerStep, PTL DEF CommSpec

-----------------------------------------------------------------------------
(* Signed access. *)

\* Inductive: the armed challenge was issued, and nothing was signed under it.
ChallengeInv ==
    /\ \A i \in issued : i.nonce <= srand
    /\ \A a \in signed : a.sn <= srand
    /\ chal.armed =>
          /\ [cli |-> chal.cli, flow |-> chal.flow, nonce |-> chal.nonce] \in issued
          /\ \A a \in signed : a.sn # chal.nonce
    /\ SignedBound

\* Steps that sign nothing and arm nothing.
LEMMA ChallengeQuiet ==
    ASSUME CommType, ChallengeInv, srand' \in {srand, srand + 1}, UNCHANGED <<issued, signed>>,
           chal' = chal \/ ~chal'.armed
    PROVE  ChallengeInv'
<1>1. srand \in Nat /\ \A i \in issued : i.nonce \in Nat
  BY DEF CommType, TypeOK, HistoryOK
<1>2. \A a \in signed : a.sn \in Nat
  BY DEF CommType, HistoryOK
<1>3. (\A i \in issued' : i.nonce <= srand') /\ \A a \in signed' : a.sn <= srand'
  BY <1>1, <1>2 DEF ChallengeInv
<1>. QED  BY <1>3 DEF ChallengeInv, SignedBound

\* An access signed under the armed challenge, which it disarms.
LEMMA ChallengeUsed ==
    ASSUME CommType, ChallengeInv, UNCHANGED <<srand, issued>>, ~chal'.armed, chal.armed,
           NEW a, a.cli = chal.cli, a.flow = chal.flow, a.sn = chal.nonce,
           signed' = signed \cup {a}
    PROVE  ChallengeInv'
<1>1. [cli |-> a.cli, flow |-> a.flow, nonce |-> a.sn] \in issued
  BY DEF ChallengeInv
<1>2. a.sn <= srand
  BY <1>1 DEF ChallengeInv
<1>3. \A x \in signed : x.sn # a.sn
  BY DEF ChallengeInv
<1>4. SignedBound'
  BY <1>1, <1>3 DEF ChallengeInv, SignedBound
<1>. QED  BY <1>2, <1>4 DEF ChallengeInv

LEMMA ChallengeArm ==
    ASSUME CommType, ChallengeInv, NEW c \in Client, NEW flow \in Flow, NEW b \in BOOLEAN,
           ArmChallenge(c, flow, b)
    PROVE  ChallengeInv'
<1>1. CASE UNCHANGED <<srand, chal, issued>>
  BY <1>1, ChallengeQuiet DEF ArmChallenge
<1>2. CASE /\ srand' = srand + 1
           /\ chal' = [armed |-> TRUE, cli |-> c, flow |-> flow, nonce |-> srand + 1]
           /\ issued' = issued \cup {[cli |-> c, flow |-> flow, nonce |-> srand + 1]}
  <2>1. srand \in Nat /\ (\A i \in issued : i.nonce \in Nat) /\ \A a \in signed : a.sn \in Nat
    BY DEF CommType, TypeOK, HistoryOK
  <2>2. signed' = signed
    BY DEF ArmChallenge
  <2>3. (\A i \in issued' : i.nonce <= srand') /\ \A a \in signed' : a.sn <= srand'
    BY <1>2, <2>1, <2>2 DEF ChallengeInv
  <2>4. \A a \in signed' : a.sn # chal'.nonce
    BY <1>2, <2>1, <2>2 DEF ChallengeInv
  <2>5. SignedBound'
    BY <1>2, <2>2 DEF ChallengeInv, SignedBound
  <2>. QED  BY <1>2, <2>3, <2>4, <2>5 DEF ChallengeInv
<1>. QED  BY <1>1, <1>2 DEF ArmChallenge

LEMMA ChallengeRead ==
    ASSUME CommType, ChallengeInv, NEW c \in Client, NEW tgt, NEW cn, NEW b \in BOOLEAN,
           SignedRead(c, tgt, cn, b)
    PROVE  ChallengeInv'
<1>1. UNCHANGED <<srand, issued>>
  BY DEF SignedRead
<1>2. CASE UNCHANGED signed
  BY <1>1, <1>2, ChallengeQuiet, DisarmType DEF SignedRead, CommType
<1>3. CASE /\ ChallengeFor(c, "READ") /\ Disarm
           /\ signed' = signed \cup {Access("READ", Dev, c, tgt, cn, TargetValue(tgt))}
  <2>. DEFINE a == Access("READ", Dev, c, tgt, cn, TargetValue(tgt))
  <2>1. a.cli = chal.cli /\ a.flow = chal.flow /\ a.sn = chal.nonce /\ chal.armed
    BY <1>3 DEF Access, ChallengeFor
  <2>2. ~chal'.armed
    BY <1>3, DisarmType DEF CommType
  <2>. HIDE DEF a
  <2>. QED  BY <1>1, <1>3, <2>1, <2>2, ChallengeUsed DEF a
<1>. QED  BY <1>2, <1>3 DEF SignedRead

\* A verified access carries the challenge it was checked against.
LEMMA SignatureBinds ==
    ASSUME NEW a, NEW flow, NEW c, SignatureOk(a, flow, c), ChallengeFor(c, flow)
    PROVE  a.cli = chal.cli /\ a.flow = chal.flow /\ a.sn = chal.nonce /\ chal.armed
<1>1. a = Access(flow, a.by, c, a.tgt, a.cn, a.pt)
  BY DEF SignatureOk
<1>2. a.cli = c /\ a.flow = flow /\ a.sn = chal.nonce
  BY <1>1 DEF Access
<1>. QED  BY <1>2 DEF ChallengeFor

LEMMA ChallengeWrite ==
    ASSUME CommType, ChallengeInv, NEW c \in Client, NEW a,
           SignedWrite(c, a) \/ SignedCommand(c, a)
    PROVE  ChallengeInv'
<1>1. UNCHANGED <<srand, issued>>
  BY DEF SignedWrite, SignedCommand, Decommission, vars
<1>2. CASE UNCHANGED signed
  BY <1>1, <1>2, ChallengeQuiet, DisarmType DEF SignedWrite, SignedCommand, CommType
<1>3. ASSUME NEW flow, ChallengeFor(c, flow), SignatureOk(a, flow, c), Disarm,
             signed' = signed \cup {a}
      PROVE  ChallengeInv'
  <2>1. ~chal'.armed
    BY <1>3, DisarmType DEF CommType
  <2>. QED  BY <1>1, <1>3, <2>1, SignatureBinds, ChallengeUsed
<1>. QED  BY <1>2, <1>3 DEF SignedWrite, SignedCommand

LEMMA RequestSrand ==
    ASSUME NEW c, NEW e, NEW q, NEW f, SodRequest(c, e, q, f)
    PROVE  srand' \in {srand, srand + 1}
<1>1. CASE UNCHANGED <<core, seals, applied, rungBy>>
  BY <1>1 DEF core
<1>. QED  BY <1>1
          DEF SodRequest, Dispatch, ArmReadResponse, DeliverRead, HandleReadPoll,
              ArmWriteChallenge, VerifyAndApplyWrite, HandleWritePoll

LEMMA SrandStep == TypeOK /\ [Next]_vars => srand' \in {srand, srand + 1}
<1>1. Serve => srand' \in {srand, srand + 1}
  BY RequestSrand DEF Serve
<1>. QED  BY <1>1 DEF Next, Tick, Decommission, Restart, vars, core

LEMMA ChallengeStep == CommType /\ ChallengeInv /\ [CommNext]_commVars => ChallengeInv'
<1>. SUFFICES ASSUME CommType, ChallengeInv, [CommNext]_commVars
              PROVE  ChallengeInv'
  OBVIOUS
<1>1. CASE (Tick \/ Serve \/ UNCHANGED vars) /\ UNCHANGED asymVars
  BY <1>1, SrandStep, ChallengeQuiet DEF CommType, Next, asymVars
<1>2. CASE UNCHANGED commVars
  BY <1>1, <1>2 DEF commVars
<1>3. CASE CommRestart
  <2>1. srand' = srand /\ UNCHANGED <<issued, signed>> /\ ~chal'.armed
    BY <1>3 DEF CommRestart, Restart, NoChallenge
  <2>. QED  BY <2>1, ChallengeQuiet
<1>4. CASE Handover
  BY <1>4, ChallengeQuiet DEF Handover, HandleVoucher, HandleProvision, HandleLdevid, vars
<1>5. CASE SignedServe
  BY <1>5, ChallengeArm, ChallengeRead, ChallengeWrite DEF SignedServe
<1>. QED  BY <1>1, <1>2, <1>3, <1>4, <1>5 DEF CommNext

\* arm_challenge, verify_signed: one issued challenge authorises at most one
\* access, of the client and the flow it was issued for, with any number of
\* clients re-arming the one challenge of the server in between.
THEOREM SignedAccessBound == CommSpec => []SignedBound
<1>1. CommInit => CommType /\ ChallengeInv
  BY CommInitType DEF CommInit, AsymInit, ChallengeInv, SignedBound, NoChallenge
<1>2. ChallengeInv => SignedBound
  BY DEF ChallengeInv
<1>. QED  BY <1>1, <1>2, CommTypeStep, ChallengeStep, PTL DEF CommSpec

-----------------------------------------------------------------------------
(* The secure OD beside the asymmetric side. *)

\* A step of the composed server, as the secure OD sees it.
LEMMA SodView ==
    ASSUME CommType, [CommNext]_commVars
    PROVE  \/ [Next]_vars
           \/ /\ UNCHANGED <<now, rd, wr, lastKid, seals, applied, rungBy>>
              /\ srand' \in {srand, srand + 1}
<1>1. CASE UNCHANGED commVars
  BY <1>1 DEF commVars
<1>2. CASE (Tick \/ Serve) \/ CommRestart
  BY <1>2 DEF CommRestart, Next
<1>3. CASE \E c \in Client, a \in SignedAccess("COMMAND", {Restore, OtherCommand}, {0}) :
              SignedCommand(c, a)
  BY <1>3 DEF SignedCommand, Next
<1>4. CASE Handover
  BY <1>4, AsymQuiet
<1>5. CASE SignedServe
  BY <1>3, <1>5, AsymQuiet DEF SignedServe
<1>. QED  BY <1>1, <1>2, <1>4, <1>5 DEF CommNext

\* Challenges of signed access and server randoms come from one source; the
\* frames of the secure OD still never share a key and a nonce.
THEOREM CommNonceUnique == CommSpec => []NoNonceReuse
<1>1. CommInit => CommType /\ NonceInv
  BY CommInitType DEF CommInit, Init, NonceInv, Session, ZeroReadSlot
<1>2. CommType /\ NonceInv /\ [CommNext]_commVars => NonceInv'
  <2>. SUFFICES ASSUME CommType, NonceInv, [CommNext]_commVars
                PROVE  NonceInv'
    OBVIOUS
  <2>1. CASE [Next]_vars
    BY <2>1, NonceStep DEF CommType
  <2>2. CASE UNCHANGED <<rd, seals>> /\ srand' \in {srand, srand + 1}
    BY <2>2, NonceQuiet DEF Session, CommType, TypeOK
  <2>. QED  BY <2>1, <2>2, SodView
<1>3. NonceInv => NoNonceReuse
  BY DEF NonceInv, NoNonceReuse
<1>. QED  BY <1>1, <1>2, <1>3, CommTypeStep, PTL DEF CommSpec

\* A single-shot write frame stays used up over claims, provisioning, signed
\* writes and signed restores too.
THEOREM CommSingleShot == CommSpec => []SingleShotOnce
<1>1. CommInit => CommType /\ OnceInv
  BY CommInitType DEF CommInit, Init, OnceInv, ZeroWriteSlot
<1>2. CommType /\ OnceInv /\ [CommNext]_commVars => OnceInv'
  <2>. SUFFICES ASSUME CommType, OnceInv, [CommNext]_commVars
                PROVE  OnceInv'
    OBVIOUS
  <2>1. CASE [Next]_vars
    BY <2>1, OnceStep DEF CommType
  <2>2. CASE UNCHANGED <<wr, applied>> /\ srand' \in {srand, srand + 1}
    BY <2>2, OnceQuiet DEF CommType, TypeOK
  <2>. QED  BY <2>1, <2>2, SodView
<1>3. CommType /\ OnceInv => SingleShotOnce
  BY OnceCommits DEF CommType
<1>. QED  BY <1>1, <1>2, <1>3, CommTypeStep, PTL DEF CommSpec

\* The key set is written, never polled.
NoKeySetPoll == \A e \in KeySet : \A b \in WireKid[e] : ~KidCyclic(b)

\* fbsec_server_apply_key_set in the composed server: provisioning by the
\* owner's signature and signed restores do not let a rung be installed by
\* another tier than the one below it.
THEOREM CommLadder ==
    ASSUME NoKeySetPoll
    PROVE  CommSpec => []LadderAuthorised
<1>1. CommInit => CommType /\ LadderAuthorised
  BY CommInitType DEF CommInit, Init, LadderAuthorised
<1>2. CommType /\ LadderAuthorised /\ [CommNext]_commVars => LadderAuthorised'
  <2>. SUFFICES ASSUME CommType, LadderAuthorised, [CommNext]_commVars
                PROVE  LadderAuthorised'
    OBVIOUS
  <2>1. CASE [Next]_vars
    BY <2>1, LadderStep DEF CommType, NoKeySetPoll
  <2>2. CASE UNCHANGED rungBy
    BY <2>2 DEF LadderAuthorised
  <2>. QED  BY <2>1, <2>2, SodView
<1>. QED  BY <1>1, <1>2, CommTypeStep, PTL DEF CommSpec

-----------------------------------------------------------------------------
(* The commissioning stage. *)

\* What StatusHonest says, spelled out.
LEMMA HonestMeans ==
    StatusHonest <=> (stage \in {"OWNED", "OPERATIONAL"}
                      <=> owner # NoOwner \/ \E i \in 1..3 : keys[i] # NoKey)
<1>1. Status.commissioned = (stage \in {"OWNED", "OPERATIONAL"})
  BY Zenon DEF Status
<1>2. Status.keys = {i \in 1..3 : HasKey(i)}
  BY DEF Status
<1>3. \A i \in 1..3 : HasKey(i) <=> keys[i] # NoKey
  BY DEF HasKey, KeySlot
<1>4. Status.keys # {} <=> \E i \in 1..3 : keys[i] # NoKey
  BY <1>2, <1>3
<1>. QED  BY <1>1, <1>4, Zenon DEF StatusHonest

LEMMA HonestMeansNext ==
    StatusHonest' <=> (stage' \in {"OWNED", "OPERATIONAL"}
                      <=> owner' # NoOwner \/ \E i \in 1..3 : keys'[i] # NoKey)
<1>1. Status'.commissioned = (stage' \in {"OWNED", "OPERATIONAL"})
  BY Zenon DEF Status
<1>2. Status'.keys = {i \in 1..3 : HasKey(i)'}
  BY DEF Status
<1>3. \A i \in 1..3 : HasKey(i)' <=> keys'[i] # NoKey
  BY DEF HasKey, KeySlot
<1>4. Status'.keys # {} <=> \E i \in 1..3 : keys'[i] # NoKey
  BY <1>2, <1>3
<1>. QED  BY <1>1, <1>4, Zenon DEF StatusHonest

\* A ladder install moves the stage exactly when it should: the Integrator
\* rung finds the Provisioning key in place, which verified it.
LEMMA HonestServe ==
    ASSUME TypeOK, StatusHonest, UNCHANGED owner,
           NEW c \in Client, NEW e \in Entry, NEW q \in Request, NEW f \in Fault,
           SodRequest(c, e, q, f), q.shape = "poll" => e \notin KeySet,
           q.shape = "write" => e \in WO /\ q \in WriteRequest(c, e)
    PROVE  StatusHonest'
<1>1. CASE UNCHANGED <<keys, stage>>
  BY <1>1, HonestMeans, HonestMeansNext
<1>2. CASE VerifyAndApplyWrite(e, q)
  <2>1. CASE /\ VerifyAbort(e, q) = "NONE"
             /\ lastKid' = KidBase(q.b)
             /\ WriteAfterAbort(e, q.box.pt, lastKid') = "NONE"
             /\ WriteAfter(e, q.box, KidBase(q.b))
             /\ e \in KeySet
    <3>. DEFINE sel == q.box.pt.sel
    <3>1. sel \in 1..3 /\ KidBase(q.b) = Authorizer[sel]
      BY <2>1 DEF WriteAfterAbort, ApplyKeySetAbort
    <3>2. q.shape = "write" /\ KeyUsable(e, q.b)
      BY <2>1 DEF VerifyAbort
    <3>3. q.box.pt.w \in KeyVal /\ q.box.pt.w # NoKey
      <4>1. q.box.pt \in PlainFor(e)
        BY <3>2 DEF WriteRequest, Seal
      <4>. QED  BY <2>1, <4>1, SodConstants DEF PlainFor
    <3>4. keys' = [keys EXCEPT ![sel] = q.box.pt.w]
      BY <2>1 DEF WriteAfter, ApplyKeySet
    <3>5. stage' = IF keys'[3] # NoKey THEN "OPERATIONAL"
                   ELSE IF keys'[1] # NoKey THEN "OWNED" ELSE stage
      BY <2>1 DEF WriteAfter, ApplyKeySet
    <3>6. sel = 2 => keys[1] # NoKey
      BY <3>1, <3>2 DEF Authorizer, KeyUsable, HasKey
    <3>. HIDE DEF sel
    <3>7. keys'[sel] # NoKey /\ (sel = 2 => keys'[1] # NoKey)
      BY <3>1, <3>3, <3>4, <3>6 DEF TypeOK, KeySlot
    <3>8. stage' \in {"OWNED", "OPERATIONAL"} /\ \E i \in 1..3 : keys'[i] # NoKey
      BY <3>1, <3>5, <3>7
    <3>. QED  BY <3>8, HonestMeansNext
  <2>. QED  BY <1>1, <1>2, <2>1 DEF VerifyAndApplyWrite, WriteAfter
<1>3. CASE Route(e, q) = "write_poll" /\ HandleWritePoll(c, e, q)
  <2>1. e \notin KeySet
    BY <1>3 DEF Route
  <2>. QED  BY <1>1, <1>3, <2>1 DEF HandleWritePoll, WriteAfter
<1>4. CASE UNCHANGED <<core, seals, applied, rungBy>>
  BY <1>1, <1>4 DEF core
<1>. QED  BY <1>1, <1>2, <1>3, <1>4
          DEF SodRequest, Dispatch, ArmReadResponse, DeliverRead, HandleReadPoll, ArmWriteChallenge

LEMMA BootHonest ==
    ASSUME NEW k \in BootKeys
    PROVE  BootStage(k) \in {"OWNED", "OPERATIONAL"} <=> \E i \in 1..3 : Boot(k)[i] # NoKey
BY DEF BootStage, Boot, KeySlot

LEMMA HonestStep ==
    ASSUME NoKeySetPoll
    PROVE  CommType /\ StatusHonest /\ [CommNext]_commVars => StatusHonest'
<1>. SUFFICES ASSUME CommType, StatusHonest, [CommNext]_commVars
              PROVE  StatusHonest'
  OBVIOUS
<1>1. CASE UNCHANGED <<keys, stage, owner>>
  BY <1>1, HonestMeans, HonestMeansNext
<1>2. CASE Serve /\ UNCHANGED asymVars
  <2>1. UNCHANGED owner
    BY <1>2 DEF asymVars, store
  <2>. QED  BY <1>2, <2>1, ServedRequest, HonestServe DEF CommType, NoKeySetPoll
<1>3. CASE CommRestart
  BY <1>3, BootHonest, HonestMeansNext DEF CommRestart, Restart
<1>4. CASE \E v \in Voucher : HandleVoucher(v)
  <2>1. PICK v \in Voucher : HandleVoucher(v)
    BY <1>4
  <2>2. CASE ClaimOk(v)
    <3>1. owner' # NoOwner
      BY <2>1, <2>2, CommissioningConstants DEF HandleVoucher, Voucher
    <3>. QED  BY <2>1, <2>2, <3>1, HonestMeansNext DEF HandleVoucher
  <2>. QED  BY <1>1, <2>1, <2>2 DEF HandleVoucher
<1>5. CASE \E k \in KeyVal, by \in Party : HandleProvision(k, by)
  <2>1. PICK k \in KeyVal, by \in Party : HandleProvision(k, by)
    BY <1>5
  <2>2. CASE ProvisionOk(by)
    BY <2>1, <2>2, HonestMeansNext DEF HandleProvision, ProvisionOk
  <2>. QED  BY <1>1, <2>1, <2>2 DEF HandleProvision
<1>6. CASE Decommission /\ AsymDecommission
  <2>1. \A i \in 1..3 : keys'[i] = NoKey
    BY <1>6 DEF Decommission, KeySlot
  <2>. QED  BY <1>6, <2>1, HonestMeansNext DEF Decommission, AsymDecommission
<1>7. CASE SignedServe
  BY <1>1, <1>6, <1>7
     DEF SignedServe, ArmChallenge, SignedRead, SignedWrite, SignedCommand, vars, store
<1>. QED  BY <1>1, <1>2, <1>3, <1>4, <1>5, <1>7
          DEF CommNext, commVars, asymVars, store, vars, Handover, HandleLdevid, Tick, core

\* lifecycle_set, fbsec_server_apply_key_set, the handover objects and the
\* restore: however they are interleaved, C001h reports the device commissioned
\* exactly when it has an owner or a session key.
THEOREM StatusAlwaysHonest ==
    ASSUME NoKeySetPoll
    PROVE  CommSpec => []StatusHonest
<1>1. CommInit => CommType /\ StatusHonest
  BY CommInitType, BootHonest, HonestMeans DEF CommInit, Init, AsymInit
<1>. QED  BY <1>1, HonestStep, CommTypeStep, PTL DEF CommSpec
=============================================================================
