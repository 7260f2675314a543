--------------------------- MODULE Commissioning ---------------------------
(***************************************************************************)
(* The asymmetric side of the server, on top of SecureOd: the identity and *)
(* ownership store (server_common_asym.c), the handover objects            *)
(* (server_common_handover.c) and signed access with its single challenge  *)
(* (server_common_rpk.c).  Both sides share the key store, the stage, the  *)
(* stored values and the random source.                                    *)
(*                                                                         *)
(* Signatures are symbolic: a record carries its signer in "by", and all   *)
(* its other fields are what the transcript covers.                        *)
(***************************************************************************)
EXTENDS SecureOd

CONSTANTS
    Party,          \* integrators, the possible owners
    Peer,           \* the party whose public key is in peer slot 1
    Serial,         \* device serial numbers; mySerial is this device's
    mySerial,
    EpochMod,       \* range of the 32-bit owner epoch (2^32)
    EpochStart      \* FBSEC_DEMO_OWNER_EPOCH_START

Epoch == 0..(EpochMod - 1)
Mfg   == "manufacturer"
Dev   == "device"
NoOwner == "none"

ASSUME CommissioningConstants ==
    /\ Peer \in Party
    /\ mySerial \in Serial
    /\ EpochMod \in Nat \ {0}
    /\ EpochStart \in Epoch
    /\ {Mfg, Dev, NoOwner} \cap Party = {}

VARIABLES
    owner,          \* owner, NoOwner when owner_set is false
    epoch,          \* owner_epoch
    uncommissioned,
    provKey,        \* provisioning_key, NoKey when provisioning_set is false
    ldevid,         \* ldevid_present
    twin,           \* g_rpk_ro and g_rpk_wo, reached by signed access only
    chal,           \* g_challenge
    claimed,        \* history: the vouchers accepted since boot
    provBy,         \* history: who signed provKey
    issued,         \* history: every challenge handed out
    signed          \* history: every signed read answered, write or command accepted

store == <<owner, epoch, uncommissioned, provKey, ldevid>>
asymVars == <<store, twin, chal, claimed, provBy, issued, signed>>
commVars == <<vars, asymVars>>

Voucher == [serial : Serial, pub : Party, epoch : Epoch, by : Party \cup {Mfg}]

\* The three flows of signed access: C042h:01, C042h:02 and C049h.
Flow == {"READ", "WRITE", "COMMAND"}
NoChallenge == [armed |-> FALSE, cli |-> 0, flow |-> "READ", nonce |-> 0]

\* Targets of a generic access beyond the registered entries.
TwinRO == "RPK_RD"
TwinWO == "RPK_WR"
NoObject == "NO_OBJECT"
Restore == "FACTORY_RESTORE"
OtherCommand == "OTHER_COMMAND"

-----------------------------------------------------------------------------
(* The identity and ownership store. *)

\* Mutant: a claimed device may be claimed again.
ClaimOkAnyState(v) == v.by = Mfg /\ v.serial = mySerial /\ v.epoch > epoch

\* fbsec_server_asym_claim.
ClaimOk(v) ==
    /\ v.by = Mfg
    /\ v.serial = mySerial
    /\ uncommissioned
    /\ v.epoch > epoch

\* fbsec_server_asym_install_provisioning.
ProvisionOk(by) == owner # NoOwner /\ by = owner

\* Mutant: a restore also resets the epoch.
AsymDecommissionResetsEpoch ==
    /\ owner' = NoOwner
    /\ provKey' = NoKey /\ provBy' = NoOwner
    /\ ldevid' = FALSE
    /\ uncommissioned' = TRUE
    /\ epoch' = EpochStart

\* Mutant: a restore leaves the owner in place.
AsymDecommissionKeepsOwner ==
    /\ provKey' = NoKey /\ provBy' = NoOwner
    /\ ldevid' = FALSE
    /\ uncommissioned' = TRUE
    /\ UNCHANGED <<owner, epoch>>

\* fbsec_server_asym_decommission: the epoch outlives the restore.
AsymDecommission ==
    /\ owner' = NoOwner
    /\ provKey' = NoKey /\ provBy' = NoOwner
    /\ ldevid' = FALSE
    /\ uncommissioned' = TRUE
    /\ UNCHANGED epoch

-----------------------------------------------------------------------------
(* Handover objects. *)

\* C020h:02h.  A claim moves the device to Owned.
HandleVoucher(v) ==
    /\ \/ /\ ClaimOk(v)
          /\ owner' = v.pub
          /\ epoch' = v.epoch
          /\ uncommissioned' = FALSE
          /\ claimed' = claimed \cup {v}
          /\ stage' = "OWNED"
       \/ /\ ~ClaimOk(v)
          /\ UNCHANGED <<owner, epoch, uncommissioned, claimed, stage>>
    /\ UNCHANGED <<now, rd, wr, keys, lastKid, value, srand, seals, applied, rungBy,
                   provKey, ldevid, twin, chal, provBy, issued, signed>>

\* Mutant: the key goes into the slot whatever is there.
HandleProvisionOverwrites(k, by) ==
    /\ \/ /\ ProvisionOk(by)
          /\ provKey' = k /\ provBy' = by
          /\ keys' = [keys EXCEPT ![1] = k]
          /\ stage' = "OWNED"
       \/ /\ ~ProvisionOk(by)
          /\ UNCHANGED <<provKey, provBy, keys, stage>>
    /\ UNCHANGED <<now, rd, wr, lastKid, value, srand, seals, applied, rungBy,
                   owner, epoch, uncommissioned, ldevid, twin, chal, claimed, issued, signed>>

\* C02Fh.  The write-once key slot may refuse the key; the refusal is ignored.
HandleProvision(k, by) ==
    /\ \/ /\ ProvisionOk(by)
          /\ provKey' = k /\ provBy' = by
          /\ keys' = IF HasKey(1) THEN keys ELSE [keys EXCEPT ![1] = k]
          /\ stage' = "OWNED"
       \/ /\ ~ProvisionOk(by)
          /\ UNCHANGED <<provKey, provBy, keys, stage>>
    /\ UNCHANGED <<now, rd, wr, lastKid, value, srand, seals, applied, rungBy,
                   owner, epoch, uncommissioned, ldevid, twin, chal, claimed, issued, signed>>

\* C020h:03h.  The LDevID stays when only the export signature fails.
HandleLdevid(keygenFails) ==
    /\ ldevid' = (ldevid \/ ~keygenFails)
    /\ UNCHANGED <<vars, owner, epoch, uncommissioned, provKey, twin, chal,
                   claimed, provBy, issued, signed>>

-----------------------------------------------------------------------------
(* Signed access. *)

\* arm_challenge: the one challenge passes to whoever asks.
ArmChallenge(c, flow, randomFails) ==
    /\ \/ /\ randomFails
          /\ UNCHANGED <<srand, chal, issued>>
       \/ /\ ~randomFails
          /\ srand < MaxRandom
          /\ srand' = srand + 1
          /\ chal' = [armed |-> TRUE, cli |-> c, flow |-> flow, nonce |-> srand + 1]
          /\ issued' = issued \cup {[cli |-> c, flow |-> flow, nonce |-> srand + 1]}
    /\ UNCHANGED <<now, rd, wr, keys, lastKid, stage, value, seals, applied, rungBy,
                   store, twin, claimed, provBy, signed>>

ChallengeFor(c, flow) == chal.armed /\ chal.cli = c /\ chal.flow = flow

\* A signed access under the outstanding challenge.
Access(flow, by, c, tgt, cn, pt) ==
    [flow |-> flow, by |-> by, cli |-> c, tgt |-> tgt, cn |-> cn, sn |-> chal.nonce, pt |-> pt]

\* Mutant: a failed or finished access leaves the challenge armed.
DisarmNot == UNCHANGED chal

\* g_challenge.armed = false: one challenge, one attempt.
Disarm == chal' = [chal EXCEPT !.armed = FALSE]

\* verify_signed, after the challenge was found: does a's signature hold?
SignatureOk(a, flow, c) == a.by = Peer /\ a = Access(flow, a.by, c, a.tgt, a.cn, a.pt)

\* Mutant: the twin value is bumped without its wrap.
ReadTargetNoWrap(tgt) ==
    \/ tgt \in RO /\ ReadBefore(tgt) /\ UNCHANGED twin
    \/ /\ tgt = TwinRO
       /\ twin' = [twin EXCEPT !.ro = @ + 1]
       /\ UNCHANGED value

\* The read hook on a generic target.
ReadTarget(tgt) ==
    \/ tgt \in RO /\ ReadBefore(tgt) /\ UNCHANGED twin
    \/ /\ tgt = TwinRO
       /\ twin' = [twin EXCEPT !.ro = (@ + 1) % WordMod]
       /\ UNCHANGED value

TargetValue(tgt) == IF tgt = TwinRO THEN twin.ro ELSE value[CellOf[tgt]]

\* C042h:01, Pass 2.  An unknown object consumes the challenge too; so does a
\* failed signature, after the hook has run.
SignedRead(c, tgt, cn, signFails) ==
    /\ \/ ~ChallengeFor(c, "READ") /\ UNCHANGED <<chal, value, twin, signed>>
       \/ /\ ChallengeFor(c, "READ")
          /\ Disarm
          /\ \/ /\ tgt \in RO \cup {TwinRO}
                /\ ReadTarget(tgt)
                /\ signed' = IF signFails THEN signed
                             ELSE signed \cup {Access("READ", Dev, c, tgt, cn, TargetValue(tgt))}
             \/ tgt \notin RO \cup {TwinRO} /\ UNCHANGED <<value, twin, signed>>
    /\ UNCHANGED <<now, rd, wr, keys, lastKid, stage, srand, seals, applied, rungBy,
                   store, claimed, provBy, issued>>

\* The write hook on a generic target.  A C01Fh body is longer than a signed
\* value may be, so the key set always answers TYPE_MISMATCH.
WriteTarget(tgt, w) ==
    /\ value' = IF tgt \in WO \ KeySet THEN [value EXCEPT ![CellOf[tgt]] = w] ELSE value
    /\ twin' = IF tgt = TwinWO THEN [twin EXCEPT !.wo = w] ELSE twin

\* C042h:02, Pass 2.
SignedWrite(c, a) ==
    /\ \/ ~ChallengeFor(c, "WRITE") /\ UNCHANGED <<chal, value, twin, signed>>
       \/ /\ ChallengeFor(c, "WRITE")
          /\ Disarm
          /\ \/ ~SignatureOk(a, "WRITE", c) /\ UNCHANGED <<value, twin, signed>>
             \/ /\ SignatureOk(a, "WRITE", c)
                /\ WriteTarget(a.tgt, a.pt)
                /\ signed' = signed \cup {a}
    /\ UNCHANGED <<now, rd, wr, keys, lastKid, stage, srand, seals, applied, rungBy,
                   store, claimed, provBy, issued>>

\* C049h, Pass 2.  Only the factory restore has an effect.
SignedCommand(c, a) ==
    /\ \/ /\ ~ChallengeFor(c, "COMMAND")
          /\ UNCHANGED <<vars, store, provBy, chal, signed>>
       \/ /\ ChallengeFor(c, "COMMAND")
          /\ Disarm
          /\ \/ /\ ~SignatureOk(a, "COMMAND", c)
                /\ UNCHANGED <<vars, store, provBy, signed>>
             \/ /\ SignatureOk(a, "COMMAND", c)
                /\ signed' = signed \cup {a}
                /\ \/ a.tgt = Restore /\ Decommission /\ AsymDecommission
                   \/ a.tgt # Restore /\ UNCHANGED <<vars, store, provBy>>
    /\ UNCHANGED <<twin, claimed, issued>>

-----------------------------------------------------------------------------
(* The device. *)

\* C001h: the commissioning byte, the key flags and the identity flags.
Status ==
    [commissioned |-> stage \in {"OWNED", "OPERATIONAL"},
     keys |-> {i \in 1..3 : HasKey(i)},
     ldevid |-> ldevid]

AsymInit ==
    /\ owner = NoOwner
    /\ epoch = EpochStart
    /\ uncommissioned = TRUE
    /\ provKey = NoKey /\ provBy = NoOwner
    /\ ldevid = FALSE
    /\ twin = [ro |-> 0, wo |-> 0]
    /\ chal = NoChallenge
    /\ claimed = {}

CommInit == Init /\ AsymInit /\ issued = {} /\ signed = {}

\* The store is in RAM: a restart brings back the factory state.
CommRestart ==
    /\ Restart
    /\ owner' = NoOwner
    /\ epoch' = EpochStart
    /\ uncommissioned' = TRUE
    /\ provKey' = NoKey /\ provBy' = NoOwner
    /\ ldevid' = FALSE
    /\ twin' = [ro |-> 0, wo |-> 0]
    /\ chal' = NoChallenge
    /\ claimed' = {}
    /\ UNCHANGED <<issued, signed>>

\* Every access a party can sign with a challenge it may have seen.
SignedAccess(flow, tgts, pts) ==
    [flow : {flow}, by : Party, cli : Client, tgt : tgts, cn : ClientRandom,
     sn : 1..srand, pt : pts]

Handover ==
    \/ \E v \in Voucher : HandleVoucher(v)
    \/ \E k \in KeyVal, by \in Party : HandleProvision(k, by)
    \/ \E b \in BOOLEAN : HandleLdevid(b)

SignedServe ==
    \E c \in Client :
        \/ \E flow \in Flow, b \in BOOLEAN : ArmChallenge(c, flow, b)
        \/ \E tgt \in RO \cup {TwinRO, NoObject}, cn \in ClientRandom, b \in BOOLEAN :
              SignedRead(c, tgt, cn, b)
        \/ \E a \in SignedAccess("WRITE", WO \cup {TwinWO, NoObject}, Word) : SignedWrite(c, a)
        \/ \E a \in SignedAccess("COMMAND", {Restore, OtherCommand}, {0}) : SignedCommand(c, a)

CommNext ==
    \/ (Tick \/ Serve) /\ UNCHANGED asymVars
    \/ CommRestart
    \/ Handover
    \/ SignedServe

CommSpec == CommInit /\ [][CommNext]_commVars

-----------------------------------------------------------------------------
(* Properties. *)

\* Every variable of the asymmetric side has its type.
CommTypeOK ==
    /\ owner \in Party \cup {NoOwner}
    /\ epoch \in Epoch
    /\ uncommissioned \in BOOLEAN
    /\ provKey \in KeyVal \cup {NoKey}
    /\ ldevid \in BOOLEAN
    /\ twin \in [ro : Word, wo : Word]
    /\ chal \in [armed : BOOLEAN, cli : Client \cup {0}, flow : Flow, nonce : Nat]
    /\ claimed \subseteq Voucher
    /\ provBy \in Party \cup {NoOwner}

\* fbsec_server_asym_claim and _decommission: a voucher that was accepted once
\* is not accepted again, however often the device is restored in between.
VoucherOnce ==
    \A v \in claimed : ~ClaimOk(v)

\* The provisioning key in the store was signed by the party that owns the
\* device now, over claims, restores and claims by others.
OwnerProvisioned ==
    provKey # NoKey => owner # NoOwner /\ provBy = owner

\* lifecycle_set on every path: C001h reports a commissioned device exactly
\* when it has an owner or a session key.
StatusHonest ==
    Status.commissioned <=> owner # NoOwner \/ Status.keys # {}

\* arm_challenge, verify_signed, handle_generic_read: a signed access is
\* accepted or answered only under a challenge that was issued to the same
\* client for the same flow, and no challenge serves two accesses.
SignedBound ==
    /\ \A a \in signed : [cli |-> a.cli, flow |-> a.flow, nonce |-> a.sn] \in issued
    /\ \A a, b \in signed : a.sn = b.sn => a = b

=============================================================================
