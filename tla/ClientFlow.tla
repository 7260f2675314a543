----------------------------- MODULE ClientFlow -----------------------------
(***************************************************************************)
(* The commissioning client against the device of Commissioning: what the  *)
(* command line leaves in the key store (client_common_keys.c and _cli.c,  *)
(* parse_args), the minimum-security gate (client_common_caps.c), the      *)
(* lifecycle submenu (client_common_menu.c) with the requests each of its  *)
(* actions makes (client_common_commission.c, _rpk.c), and the one-shot    *)
(* `commission` command.                                                   *)
(*                                                                         *)
(* A request and its answer are one step, which may be lost on either way. *)
(* All clients sign as the demo integrator, Peer.  A key value says where  *)
(* the key came from: DemoKey is the demo key of the slot it is in.        *)
(***************************************************************************)
EXTENDS Commissioning, Descriptor
LOCAL INSTANCE SequencesExt

CONSTANTS
    Options,        \* the command lines of each client
    KeyidMax,       \* FBSEC_AEAD_KEYID_MAX (15), at least 4
    DemoKey,        \* the built-in key of a slot
    HkdfKey,        \* the key derived from a main key
    Faults,         \* what may go wrong: "loss", "restart"
    MaxChoices      \* bound: launches and lifecycle actions of each client

KS == CHOOSE e \in KeySet : TRUE
ClientSlot == 1..KeyidMax
DemoVoucherEpoch == 2
Integrator == 2

Mode == {"menu", "verb", "check", "commission"}
Prompt == {"menu", "rd", "choose", "pick"}
Pc == Prompt \cup {"idle", "gate", "verb", "genuine", "epoch", "voucher", "provision",
                   "ldevid", "rung", "pass2", "arm", "command"}

ASSUME FlowConstants ==
    /\ KeySet # {} /\ ClientRandom # {}
    /\ KeyidMax \in 4..15
    /\ {DemoKey, HkdfKey} \subseteq KeyVal
    /\ DemoVoucherEpoch \in Epoch
    /\ Faults \subseteq {"loss", "restart"}
    /\ MaxChoices \in [Client -> Nat]

\* A client process.
Process ==
    [pc : Pc, mode : Mode, left : Nat, keyid : 0..KeyidMax,
     key : [ClientSlot -> KeyVal \cup {NoKey}], main : BOOLEAN, enc : BOOLEAN,
     token : KeyVal, file : BOOLEAN, floor : Floor, caps : [0..CapSubMax -> Nat],
     sub : 0..CapSubMax, acts : SUBSET {"VOUCHER", "TOKEN", "LADDER", "DECOMMISSION"},
     saved : 0..KeyidMax, rung : 0..3, nonce : 0..MaxRandom, ep : Epoch,
     report : {"none", "owned", "claimed", "operational", "decommissioned"},
     chosen : 0..KeyidMax, given : [ClientSlot -> KeyVal \cup {NoKey}]]

VARIABLE cl         \* the state of each client process

flowVars == <<commVars, cl>>

\* The key store with the outcome of the flags so far, and as the process starts.
Store == [err : BOOLEAN, keyid : 0..KeyidMax, key : [ClientSlot -> KeyVal \cup {NoKey}],
          main : BOOLEAN, salt : BOOLEAN]
NoStore == [err |-> FALSE, keyid |-> 0, key |-> [i \in ClientSlot |-> NoKey],
            main |-> FALSE, salt |-> FALSE]

\* A process that is not running; only its budget of choices outlives it.
Idle(left) ==
    [pc |-> "idle", mode |-> "menu", left |-> left,
     keyid |-> 0, key |-> NoStore.key, main |-> FALSE, enc |-> FALSE, token |-> ClaimToken,
     file |-> FALSE, floor |-> "ANY", caps |-> NoCaps, sub |-> 0, acts |-> {},
     saved |-> 0, rung |-> 0, nonce |-> 0, ep |-> 0, report |-> "none",
     chosen |-> 0,              \* history: the key the user selected
     given |-> NoStore.key]     \* history: the keys the user supplied

-----------------------------------------------------------------------------
(* Command line and key store. *)

SessionSet(s) == s.keyid \in ClientSlot /\ s.key[s.keyid] # NoKey

\* fbsec_client_keys_load_file: refused rows (a malformed key is NoKey) are
\* skipped, and make the whole an error.
LoadFile(s, rows) ==
    [s EXCEPT !.key = [i \in ClientSlot |->
                          IF i \in DOMAIN rows /\ rows[i] # NoKey THEN rows[i] ELSE @[i]],
              !.err = \/ \A i \in DOMAIN rows : rows[i] = NoKey
                      \/ \E i \in DOMAIN rows : i \notin ClientSlot \/ rows[i] = NoKey]

\* One key flag; "bad" is any flag refused for its argument alone.
ApplyFlag(s, a) ==
    IF s.err THEN s
    ELSE CASE a.f = "keyid" -> IF a.n \in ClientSlot THEN [s EXCEPT !.keyid = a.n]
                               ELSE [s EXCEPT !.err = TRUE]
           [] a.f = "key" -> IF s.keyid # 0 /\ a.n # NoKey THEN [s EXCEPT !.key[s.keyid] = a.n]
                             ELSE [s EXCEPT !.err = TRUE]
           [] a.f = "main" -> [s EXCEPT !.main = TRUE]
           [] a.f = "salt" -> [s EXCEPT !.salt = TRUE]
           [] a.f = "file" -> LoadFile(s, a.n)
           [] a.f = "bad" -> [s EXCEPT !.err = TRUE]

Parse(flags) == FoldLeft(ApplyFlag, NoStore, flags)

\* The command lines are well formed; ApplyFlag keeps the store so.
ASSUME OptionsTyped ==
    /\ DOMAIN Options = Client
    /\ \A c \in Client : \A o \in Options[c] :
          /\ o.mode \in Mode /\ o.floor \in Floor /\ o.token \in KeyVal
          /\ o.enc \in BOOLEAN /\ o.file \in BOOLEAN
          /\ Parse(o.flags) \in Store

\* The end of parse_args.
CredentialsOk(s, mode, secureVerb) ==
    LET anySecure == IF mode = "menu" THEN SessionSet(s) \/ s.main ELSE secureVerb
    IN  anySecure \/ SessionSet(s) \/ s.main \/ s.keyid # 0 =>
          /\ s.keyid # 0
          /\ SessionSet(s) \/ s.main
          /\ s.main => s.salt
          /\ ~(SessionSet(s) /\ s.main)

\* fbsec_client_keys_derive_session_if_needed.
Derive(s) ==
    IF s.main /\ s.keyid \in ClientSlot /\ ~SessionSet(s)
    THEN [s EXCEPT !.key[s.keyid] = HkdfKey] ELSE s

\* Mutant: the demo keys go over the keys already loaded.
BackfillAll(key) == [i \in ClientSlot |-> IF i \in 1..3 THEN DemoKey ELSE key[i]]

\* fbsec_client_keys_load_demo_all.
Backfill(key) ==
    [i \in ClientSlot |-> IF i \in 1..3 /\ key[i] = NoKey THEN DemoKey ELSE key[i]]

\* fbsec_client_keys_effective_keyid.
EffectiveKeyid(r) == IF r.keyid = 0 THEN 0 ELSE KidBase(r.keyid) + (IF r.enc THEN 128 ELSE 0)

-----------------------------------------------------------------------------
(* Steps of a client. *)

Move(c, r) == cl' = [cl EXCEPT ![c] = r]

\* A process ends; its memory is gone, wiped or not.
Exit(r) == Idle(r.left)

\* Mutant: an abort is taken for an answer.
SecpOkAny(abort) == TRUE

\* The transport's verdict on an answered request.
SecpOk(abort) == abort = "NONE"

\* One request.  It may be lost on the way out (or fail in the client before
\* it is sent) or on the way back; otherwise the client sees the verdict.
Rpc(c, serve, abort, good, bad) ==
    \/ "loss" \in Faults /\ UNCHANGED commVars /\ Move(c, bad)
    \/ "loss" \in Faults /\ serve /\ Move(c, bad)
    \/ serve /\ Move(c, IF SecpOk(abort) THEN good ELSE bad)

Verdict(ok) == IF ok THEN "NONE" ELSE "REFUSED"

\* A read that changes nothing on the device.
ColdRead(c, reply, good, bad) == Rpc(c, UNCHANGED commVars, reply.abort, good, bad)

\* What follows the gate: the menu, the one verb, or nothing in check mode.
PastGate(r) ==
    IF r.mode = "check" THEN Exit(r)
    ELSE [r EXCEPT !.pc = IF r.mode = "menu" THEN "menu" ELSE "verb", !.caps = NoCaps, !.sub = 0]

\* The process as parse_args and the key set-up leave it.
Launch(o, left) ==
    LET s == Parse(o.flags)
        k == Derive(s)
    IN  [Idle(left) EXCEPT !.mode = o.mode, !.enc = o.enc, !.token = o.token, !.file = o.file,
                           !.floor = o.floor, !.main = s.main,
                           !.keyid = k.keyid, !.chosen = k.keyid,
                           !.key = Backfill(k.key), !.given = k.key]

\* main up to the gate; it may fail early, at the bus or in the derivation.  In
\* check mode nothing has set the verb the credential check looks at.
Start(c) ==
    /\ cl[c].pc = "idle" /\ cl[c].left > 0
    /\ \E o \in Options[c], anyVerb, fails \in BOOLEAN :
          LET s == Parse(o.flags)
              r == Launch(o, cl[c].left - 1)
          IN  /\ o.mode # "check" => anyVerb
              /\ Move(c, IF fails THEN Exit(r)
                         ELSE IF o.mode = "commission"
                         THEN [Idle(cl[c].left - 1) EXCEPT !.mode = o.mode, !.pc = "genuine"]
                         ELSE IF s.err \/ ~CredentialsOk(s, o.mode, anyVerb) THEN Exit(r)
                         ELSE IF o.floor = "ANY" THEN PastGate(r)
                         ELSE [r EXCEPT !.pc = "gate"])
    /\ UNCHANGED commVars

IdFlags == IdBit.IDEVID + (IF ldevid THEN IdBit.LDEVID ELSE 0)
LiveCaps == BuildCaps(IdFlags)
LiveStatus ==
    BuildStatus(IF Status.commissioned THEN 1 ELSE 0,
                LET bit(i) == IF i \in Status.keys THEN KeyBit[i] ELSE 0
                IN  bit(1) + bit(2) + bit(3),
                IdFlags)
CapReply(sub) == ServeDescriptor(CapWidth, LiveCaps, sub, 0)
StatReply(sub) == ServeDescriptor(StatWidth, LiveStatus, sub, 0)

\* The caps after one more sub-index; sub 0 bounds the loop.
NextCaps(r, reply) ==
    LET caps == DeserializeSub(r.caps, r.sub, reply.body)
    IN  IF ~DecodesSub(CapWidth, r.sub, reply.body) \/ caps[0] > CapSubMax THEN Exit(r)
        ELSE IF r.sub < caps[0] THEN [r EXCEPT !.caps = caps, !.sub = @ + 1]
        ELSE IF MeetsMin(caps, r.floor) THEN PastGate(r)
        ELSE Exit(r)

\* fbsec_client_enforce_min_security, one read at a time; any failure
\* refuses.  The floor ANY passes unread, in Start.
Enforce(c) ==
    LET r == cl[c] IN
    /\ r.pc = "gate"
    /\ ColdRead(c, CapReply(r.sub), NextCaps(r, CapReply(r.sub)), Exit(r))

\* The keys ensure_key_selected may leave selected.
Selectable(r) == IF r.keyid = 0 /\ ~r.main THEN 0..3 ELSE {r.keyid}

\* Before the first AEAD verb of the menu, and after a finished ladder.
SelectKey(c) ==
    /\ cl[c].pc \in {"menu", "pick"}
    /\ \E k \in Selectable(cl[c]) :
          Move(c, [cl[c] EXCEPT !.keyid = k, !.chosen = k, !.report = "none",
                                !.pc = IF @ = "pick" THEN "rd" ELSE @])
    /\ UNCHANGED commVars

\* L enters the submenu, Q leaves it; Q in the menu and a finished verb end
\* the process.
Navigate(c) ==
    LET r == [cl[c] EXCEPT !.report = "none"] IN
    /\ \/ r.pc = "menu" /\ Move(c, [r EXCEPT !.pc = "rd"])
       \/ r.pc = "choose" /\ \E to \in {"menu", "rd"} : Move(c, [r EXCEPT !.pc = to, !.acts = {}])
       \/ r.pc \in {"menu", "verb"} /\ Move(c, Exit(r))
    /\ UNCHANGED commVars

\* lifecycle_actions: what the submenu offers for a snapshot.
Offered(st) ==
    IF ~st.ok THEN {}
    ELSE IF st.commissioning # 1
    THEN {g \in {"VOUCHER", "TOKEN"} : HasBit(st.handover, Gate[g])}
    ELSE {"DECOMMISSION"} \cup (IF st.keys % (AllKeys + 1) # AllKeys THEN {"LADDER"} ELSE {})

\* lifecycle_read_state: three cold reads, of which each may be lost and leave
\* its default.  They are one step: a snapshot torn by another client offers
\* what some whole one with lost reads offers.
ReadState(c) ==
    /\ cl[c].pc = "rd"
    /\ \E lost \in SUBSET (IF "loss" \in Faults THEN 1..3 ELSE {}) :
          LET field(n, reply) == IF n \in lost THEN 0 ELSE GetLe(reply.body)
              st == [ok |-> 1 \notin lost,
                     commissioning |-> field(1, StatReply(1)),
                     keys |-> field(2, StatReply(3)),
                     handover |-> field(3, CapReply(7))]
          IN  Move(c, [cl[c] EXCEPT !.pc = "choose", !.acts = Offered(st), !.report = "none"])
    /\ UNCHANGED commVars

\* install_key_rung starts: the selected key is borrowed.  A ladder begins at
\* the Integrator rung.
StartRung(r, rung) == [r EXCEPT !.pc = "rung", !.rung = rung, !.saved = r.keyid]
StartLadder(r) == StartRung(r, Integrator)

\* lifecycle_do_action.
Choose(c) ==
    LET r == [cl[c] EXCEPT !.acts = {}, !.left = @ - 1] IN
    /\ cl[c].pc = "choose" /\ cl[c].left > 0
    /\ \E a \in cl[c].acts :
          Move(c, CASE a = "VOUCHER" -> [r EXCEPT !.pc = IF r.file THEN "voucher" ELSE "epoch",
                                                  !.ep = IF r.file THEN DemoVoucherEpoch ELSE 0]
                    [] a = "TOKEN" -> StartRung([r EXCEPT !.key[4] = r.token], 1)
                    [] a = "LADDER" -> StartLadder(r)
                    [] a = "DECOMMISSION" -> [r EXCEPT !.pc = "arm"])
    /\ UNCHANGED commVars

-----------------------------------------------------------------------------
(* Claim and provisioning. *)

\* Mutant: the epoch runs past its 32 bits.
NextEpochUnbounded(e) == e + 1

NextEpoch(e) == (e + 1) % EpochMod

\* The voucher the client signs as the demo manufacturer, or relays.
DemoVoucher(ep) == [serial |-> mySerial, pub |-> Peer, epoch |-> ep, by |-> Mfg]

\* Where a step of the claim goes on: the menu action stops at a failure, the
\* commission command does not.
After(r, to, report) == [r EXCEPT !.pc = to, !.report = report]
Failed(r, to) == After(r, IF r.mode = "commission" THEN to ELSE "rd", "none")

VerifyGenuineness(c) ==
    /\ cl[c].pc = "genuine"
    /\ Move(c, After(cl[c], "epoch", "none"))
    /\ UNCHANGED commVars

ReadOwnerEpoch(c) ==
    LET r == cl[c] IN
    /\ r.pc = "epoch"
    /\ Rpc(c, UNCHANGED commVars, "NONE",
           [r EXCEPT !.pc = "voucher", !.ep = NextEpoch(epoch)],
           [r EXCEPT !.pc = "voucher", !.ep = DemoVoucherEpoch])

PresentVoucher(c) ==
    LET r == [cl[c] EXCEPT !.ep = 0]
        v == DemoVoucher(cl[c].ep)
    IN  /\ r.pc = "voucher"
        /\ Rpc(c, HandleVoucher(v), Verdict(ClaimOk(v)),
               After(r, "provision", "owned"), Failed(r, "provision"))

InstallProvisioning(c) ==
    LET r == After(cl[c], cl[c].pc, "none") IN
    /\ r.pc = "provision"
    /\ Rpc(c, HandleProvision(DemoKey, Peer), Verdict(ProvisionOk(Peer)),
           IF r.mode = "commission" THEN After(r, "ldevid", "none") ELSE StartLadder(r),
           Failed(r, "ldevid"))

GenerateLdevid(c) ==
    /\ cl[c].pc = "ldevid"
    /\ \E keygenFails \in BOOLEAN :
          Rpc(c, HandleLdevid(keygenFails), Verdict(~keygenFails), Exit(cl[c]), Exit(cl[c]))

-----------------------------------------------------------------------------
(* The key ladder. *)

\* Mutant: a failed rung returns without giving the selected key back.
GiveBackLate(r, ok) == IF ok THEN [r EXCEPT !.keyid = r.saved, !.saved = 0] ELSE r

\* set_keyid(saved_keyid), on success and on failure.
GiveBack(r, ok) == [r EXCEPT !.keyid = r.saved, !.saved = 0]

RungFailed(r) == [GiveBack(r, FALSE) EXCEPT !.pc = "rd", !.rung = 0, !.nonce = 0]

\* After a rung: the token's rung leads to the ladder, Integrator to Operator,
\* and Operator to the report.
RungDone(r) ==
    LET d == [r EXCEPT !.nonce = 0] IN
    CASE r.rung = 1 -> [StartLadder(GiveBack(d, TRUE)) EXCEPT !.report = "claimed"]
      [] r.rung = 2 -> [d EXCEPT !.pc = "rung", !.rung = 3]
      [] r.rung = 3 -> [GiveBack(d, TRUE) EXCEPT !.pc = "pick", !.rung = 0,
                                                 !.report = "operational"]

\* The first pass of the rung's secure write, under the authorizing key.
RungArm(c) ==
    /\ cl[c].pc = "rung"
    /\ LET r == [cl[c] EXCEPT !.keyid = Authorizer[cl[c].rung], !.report = "none"]
           q == Bare("empty", 0, 0)
       IN  IF r.key[r.rung] = NoKey \/ ~SessionSet(r)
           THEN Move(c, RungFailed(r)) /\ UNCHANGED commVars
           ELSE Rpc(c, SodRequest(c, KS, q, "none") /\ UNCHANGED asymVars,
                    DispatchAbort(c, KS, q, "none"),
                    [r EXCEPT !.pc = "pass2", !.nonce = DispatchReply(c, KS, q, "none").sr],
                    RungFailed(r))

\* The second pass: selector || key, sealed under the authorizing key.
RungWrite(c) ==
    LET r == cl[c]
        cr == CHOOSE x \in ClientRandom : TRUE
        b == EffectiveKeyid(r)
        q == [shape |-> "write", b |-> b, cr |-> cr,
              box |-> Seal(r.key[r.keyid], cr, r.nonce, 0, "WRITE_REQUEST", b, c, KS,
                           [sel |-> r.rung, w |-> r.key[r.rung]])]
    IN  /\ r.pc = "pass2"
        /\ Rpc(c, SodRequest(c, KS, q, "none") /\ UNCHANGED asymVars,
               DispatchAbort(c, KS, q, "none"), RungDone(r), RungFailed(r))

-----------------------------------------------------------------------------
(* Decommissioning: a signed command in two passes. *)

FetchChallenge(c) ==
    /\ cl[c].pc = "arm"
    /\ Rpc(c, ArmChallenge(c, "COMMAND", FALSE), "NONE",
           [cl[c] EXCEPT !.pc = "command", !.nonce = srand + 1],
           [cl[c] EXCEPT !.pc = "rd"])

SendCommand(c) ==
    LET r == [cl[c] EXCEPT !.pc = "rd", !.nonce = 0]
        a == [flow |-> "COMMAND", by |-> Peer, cli |-> c, tgt |-> Restore,
              cn |-> CHOOSE x \in ClientRandom : TRUE, sn |-> cl[c].nonce, pt |-> 0]
    IN  /\ cl[c].pc = "command"
        /\ Rpc(c, SignedCommand(c, a),
               Verdict(ChallengeFor(c, "COMMAND") /\ SignatureOk(a, "COMMAND", c)),
               [r EXCEPT !.report = "decommissioned"], r)

-----------------------------------------------------------------------------

FlowInit == CommInit /\ cl = [c \in Client |-> Idle(MaxChoices[c])]

ClientStep(c) ==
    \/ Start(c) \/ Enforce(c) \/ SelectKey(c) \/ Navigate(c) \/ ReadState(c) \/ Choose(c)
    \/ VerifyGenuineness(c) \/ ReadOwnerEpoch(c) \/ PresentVoucher(c)
    \/ InstallProvisioning(c) \/ GenerateLdevid(c)
    \/ RungArm(c) \/ RungWrite(c) \/ FetchChallenge(c) \/ SendCommand(c)

FlowNext ==
    \/ \E c \in Client : ClientStep(c)
    \/ "restart" \in Faults /\ CommRestart /\ UNCHANGED cl
    \/ Tick /\ UNCHANGED <<asymVars, cl>>

FlowSpec == FlowInit /\ [][FlowNext]_flowVars

-----------------------------------------------------------------------------
(* Properties. *)

\* Every client process is well formed.
FlowTypeOK == cl \in [Client -> Process]

\* install_provisioning_by_token, install_ladder: a commissioning action
\* borrows the selected key and gives it back, whichever of its requests fail.
KeyChoiceKept ==
    \A c \in Client : cl[c].pc \in Prompt => cl[c].keyid = cl[c].chosen

\* parse_args, derive_session_if_needed, load_demo_all: a session key the user
\* supplied is never replaced by a demo key, and a one-shot verb runs under a
\* key the user supplied or derived, never under a demo key nobody asked for.
KeyGiven ==
    \A c \in Client :
        /\ \A i \in 1..3 : cl[c].given[i] # NoKey => cl[c].key[i] = cl[c].given[i]
        /\ cl[c].pc = "verb" => cl[c].keyid # 0 /\ cl[c].given[cl[c].keyid] # NoKey

\* fbsec_client_enforce_min_security: nothing is done for a client that asks
\* for a mechanism which the device does not advertise, whatever part of the
\* descriptor is lost while it is read.
GateHolds ==
    \A c \in Client :
        /\ cl[c].floor # "ANY"
        /\ cl[c].pc \notin {"idle", "gate"}
        => HasBit(LiveCaps[8], Mech[cl[c].floor])

\* lifecycle_do_action, lifecycle_run_ladder: what the client reports is so at
\* the device in that moment, whoever else is commissioning it: the owner is
\* the integrator, the Provisioning key is the client's, all keys are installed
\* and the upper two are the client's, or everything is erased. The message after
\* the signed install of C02Fh is left out: the device acknowledges that install
\* also when its slot keeps another key.
FlowTruthful ==
    [][\A c \in Client : cl'[c].report # cl[c].report =>
          CASE cl'[c].report = "owned" -> owner' = Peer
            [] cl'[c].report = "claimed" -> keys'[1] = cl'[c].key[1]
            [] cl'[c].report = "operational" ->
                 /\ stage' = "OPERATIONAL" /\ keys'[1] # NoKey
                 /\ \A i \in 2..3 : keys'[i] = cl'[c].key[i]
            [] cl'[c].report = "decommissioned" ->
                 owner' = NoOwner /\ \A i \in 1..3 : keys'[i] = NoKey
            [] OTHER -> TRUE]_flowVars

\* fbsec_server_apply_key_set, fbsec_server_handover: a session key that is in
\* place is never replaced, by ladder, claim or provisioning, in whatever order
\* clients run them; it only goes with all others, erased or by a restart.
SessionKeyKept ==
    [][(\E i \in 1..3 : keys[i] # NoKey /\ keys'[i] # keys[i]) =>
          \E k \in BootKeys \cup {[i \in 1..3 |-> NoKey]} : keys' = Boot(k)]_flowVars

\* lifecycle_actions: the ladder is offered while a session key is missing, to
\* "Install the next key in the ladder (Integrator, Operator)"; once it has run,
\* with no fault and nobody interfering, the Operator key is in place.
LadderFinishes ==
    [][\A c \in Client :
          cl[c].rung # 0 /\ cl'[c].rung = 0 => keys'[3] # NoKey]_flowVars

=============================================================================
