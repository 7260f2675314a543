------------------------------ MODULE SecureOd ------------------------------
(***************************************************************************)
(* The server-side secure object dictionary (shared/fbsec_secure_od.c)     *)
(* with the port hooks the server installs (server_common_hooks.c,         *)
(* server_common_keys.c).  One read slot and one write slot per entry hold *)
(* the armed challenge or the cyclic session; every request is answered by *)
(* one call of fbsec_sod_dispatch, which is atomic here because the server *)
(* is a single-threaded receive loop.                                      *)
(*                                                                         *)
(* AEAD is symbolic.  A sealed frame is a record Box of everything the tag *)
(* authenticates; it opens exactly under the key, nonce and associated     *)
(* data it was sealed with.  The nonce client_random XOR server_random     *)
(* XOR counter is the triple (cr, sr, ctr).                                *)
(***************************************************************************)
EXTENDS Integers, FiniteSets

CONSTANTS
    Client,             \* device ids (node numbers) of the clients
    RO, WO,             \* data ids registered SECURE_RO / SECURE_WO
    KeySet,             \* the C01Fh key-set entries, a subset of WO
    Bumping,            \* RO entries whose read hook increments the value (2020h)
    Cell, CellOf,       \* storage cells and the cell behind each entry
    BoundKey,           \* entry->key_id of each entry, 0 = FBSEC_SOD_KEY_NONE
    WordMod,            \* size of a stored word (2^32 for g_value)
    KeyVal,             \* key material: nonzero words
    ClaimToken,         \* the factory claim token, installed in slot 4
    BootKeys,           \* possible contents of key slots 1..3 at boot
    ClockMod,           \* range of the 16-bit millisecond clock (2^16)
    ChallengeTimeout,   \* FBSEC_SOD_CHALLENGE_TIMEOUT_MS
    SessionTimeout,     \* FBSEC_SOD_SESSION_IDLE_TIMEOUT_MS
    KeyUseLimit,        \* FBSEC_AEAD_KEY_USE_LIMIT
    WireKid,            \* wire keyid bytes the clients use on each entry
    ClientRandom,       \* client challenges
    MaxRandom           \* bound: server randoms drawn in a behaviour

Entry == RO \cup WO
Byte  == 0..255
Word  == 0..(WordMod - 1)
Clock == 0..(ClockMod - 1)
NoKey == 0

\* Key slots: Provisioning 1, Integrator 2, Operator 3, Claim Token 4.
KeySlot == 1..4
Stage == {"UNCOMMISSIONED", "OWNED", "OPERATIONAL"}

\* A plaintext.  A C01Fh body is selector || key; a value has selector 0.
Plain == [sel : 0..4, w : Word]
Dir == {"READ_RESPONSE", "WRITE_REQUEST", "READ_POLL_RESPONSE", "WRITE_POLL_REQUEST"}
Box == [key : Word, cr : Nat, sr : Nat, ctr : Nat, dir : Dir, kid : Byte,
        cli : Nat, e : Entry, pt : Plain]
NoBox == [key |-> NoKey]
Base == [cr : Nat, sr : Nat]
ZeroBase == [cr |-> 0, sr |-> 0]

\* Wire shapes by length: 0, 1, 1+R, 1+N+T, 1+R+N+T bytes, anything else.
Shape == {"empty", "byte", "challenge", "poll", "write", "other"}
Request == [shape : Shape, b : Byte, cr : Nat, box : Box \cup {NoBox}]

\* Failures of the port's random source and of the AEAD library.
Fault == {"none", "random", "seal"}

ASSUME SodConstants ==
    /\ Client \subseteq Nat \ {0}
    /\ KeySet \subseteq WO
    /\ CellOf \in [Entry -> Cell]
    /\ BoundKey \in [Entry -> 0..4]
    /\ WordMod \in Nat \ {0}
    /\ KeyVal \subseteq Word \ {NoKey}
    /\ ClaimToken \in KeyVal
    /\ BootKeys \subseteq [1..3 -> KeyVal \cup {NoKey}]
    /\ ClockMod \in Nat \ {0}
    /\ KeyUseLimit \in Nat \ {0}
    /\ WireKid \in [Entry -> SUBSET Byte]
    /\ ClientRandom \subseteq Nat \ {0}
    /\ MaxRandom \in Nat

VARIABLES
    now,        \* fbsec_sod_port_get_time_ms()
    rd, wr,     \* g_read_slot, g_write_slot
    keys,       \* g_keys / g_key_present
    lastKid,    \* g_last_write_kid_base
    stage,      \* g_stage, the commissioning stage
    value,      \* the hooks' backing stores
    srand,      \* number of server randoms drawn; the next one is srand + 1
    seals,      \* history: every frame the server sealed
    applied,    \* history: every write frame the server applied
    rungBy      \* history: base key id that verified the install of each rung

core == <<rd, wr, keys, lastKid, stage, value, srand>>
vars == <<now, rd, wr, keys, lastKid, stage, value, srand, seals, applied, rungBy>>

ReadSlot == [in_use : BOOLEAN, cyclic : BOOLEAN, cli : Nat, armed_at : Clock,
             prepared : Box \cup {NoBox}, key_id : Byte, base : Base, counter : Nat]
WriteSlot == [in_use : BOOLEAN, cyclic : BOOLEAN, cli : Nat, armed_at : Clock,
              key_id : Byte, server_random : Nat, base : Base, counter : Nat]

\* A slot whose in_use is false is not read again before an arming clears all
\* of it, so releasing a slot is modelled as zeroing it.
ZeroReadSlot == [in_use |-> FALSE, cyclic |-> FALSE, cli |-> 0, armed_at |-> 0,
                 prepared |-> NoBox, key_id |-> 0, base |-> ZeroBase, counter |-> 0]
ZeroWriteSlot == [in_use |-> FALSE, cyclic |-> FALSE, cli |-> 0, armed_at |-> 0,
                  key_id |-> 0, server_random |-> 0, base |-> ZeroBase, counter |-> 0]

-----------------------------------------------------------------------------
(* The wire keyid byte and the key store. *)

KidBase(b)   == b % 16
KidCyclic(b) == (b \div 64) % 2 = 1
KidReserved(b) == (b \div 16) % 4 # 0

HasKey(k) == k \in KeySlot /\ keys[k] # NoKey

\* Reserved bits clear, the entry's bound key (if any) used, key present.
KeyUsable(e, b) ==
    /\ ~KidReserved(b)
    /\ BoundKey[e] \in {0, KidBase(b)}
    /\ HasKey(KidBase(b))

RoleAllowed(op, kid, e) ==
    \/ op = "READ"
    \/ kid \in {1, 2}
    \/ kid = 4 /\ e \in KeySet

-----------------------------------------------------------------------------
(* Freshness: 16-bit subtraction of the clock, so the age wraps. *)

\* Mutant: the age is computed in int, without the cast back to 16 bits.
FreshForPromoted(t, timeout) == now - t <= timeout

FreshFor(t, timeout) == (now - t) % ClockMod <= timeout
SlotFresh(t)    == FreshFor(t, ChallengeTimeout)
SessionFresh(t) == FreshFor(t, SessionTimeout)

\* The single-client arming guard.
SlotHeldByOther(s, c) ==
    /\ s.in_use
    /\ s.cli # c
    /\ IF s.cyclic THEN SessionFresh(s.armed_at) ELSE SlotFresh(s.armed_at)

-----------------------------------------------------------------------------
(* AEAD and the port hooks. *)

Seal(key, cr, sr, ctr, dir, kid, c, e, pt) ==
    [key |-> key, cr |-> cr, sr |-> sr, ctr |-> ctr, dir |-> dir, kid |-> kid,
     cli |-> c, e |-> e, pt |-> pt]

Opens(box, key, cr, sr, ctr, dir, kid, c, e) ==
    box # NoBox /\ box = Seal(key, cr, sr, ctr, dir, kid, c, e, box.pt)

\* fbsec_sod_port_read_before returns the stored word and then bumps it.
ReadPlain(e) == [sel |-> 0, w |-> value[CellOf[e]]]

\* Mutant: the bump does not wrap at the word size.
ReadBeforeNoWrap(e) ==
    value' = IF e \in Bumping THEN [value EXCEPT ![CellOf[e]] = @ + 1] ELSE value

ReadBefore(e) ==
    value' = IF e \in Bumping THEN [value EXCEPT ![CellOf[e]] = (@ + 1) % WordMod]
             ELSE value

\* The tier that authorizes each rung of the C01Fh install ladder.
Authorizer == [sel \in 1..3 |-> IF sel = 1 THEN 4 ELSE sel - 1]

\* Mutant: the rung is not paired with its authorizer.
ApplyKeySetUnpaired(pt, by) ==
    IF pt.sel \notin 1..3 THEN "TYPE_MISMATCH"
    ELSE IF HasKey(pt.sel) THEN "DEVICE_STATE"
    ELSE "NONE"

\* fbsec_server_apply_key_set, given the key fbsec_sod_last_write_key_id names.
ApplyKeySetAbort(pt, by) ==
    IF pt.sel \notin 1..3 THEN "TYPE_MISMATCH"
    ELSE IF by # Authorizer[pt.sel] THEN "ROLE_DENIED"
    ELSE IF HasKey(pt.sel) THEN "DEVICE_STATE"
    ELSE "NONE"

ApplyKeySet(pt) ==
    /\ keys' = [keys EXCEPT ![pt.sel] = pt.w]
    /\ stage' = IF keys'[3] # NoKey THEN "OPERATIONAL"
                ELSE IF keys'[1] # NoKey THEN "OWNED" ELSE stage

WriteAfterAbort(e, pt, by) == IF e \in KeySet THEN ApplyKeySetAbort(pt, by) ELSE "NONE"

\* The effect of fbsec_sod_port_write_after when it accepts the plaintext of
\* box; kid is the base key id that verified the tag.
WriteAfter(e, box, kid) ==
    /\ IF e \in KeySet
       THEN /\ ApplyKeySet(box.pt)
            /\ rungBy' = [rungBy EXCEPT ![box.pt.sel] = kid]
            /\ UNCHANGED value
       ELSE /\ value' = [value EXCEPT ![CellOf[e]] = box.pt.w]
            /\ UNCHANGED <<keys, stage, rungBy>>
    /\ applied' = applied \cup {box}

-----------------------------------------------------------------------------
(* Secure read: Pass 1 arms, Pass 2 delivers, polls follow. *)

ArmReadAbort(c, e, q, f) ==
    IF ~KeyUsable(e, q.b) THEN "KEY_ID"
    ELSE IF ~RoleAllowed("READ", KidBase(q.b), e) THEN "ROLE_DENIED"
    ELSE IF SlotHeldByOther(rd[e], c) THEN "DEVICE_STATE"
    ELSE IF f # "none" THEN "INTERNAL"
    ELSE "NONE"

\* Mutant: a re-arm seals the plaintext of the response still prepared.
ArmReadBoxStale(c, e, q) ==
    Seal(keys[KidBase(q.b)], q.cr, srand + 1, 0, "READ_RESPONSE", q.b, c, e,
         IF rd[e].prepared # NoBox THEN rd[e].prepared.pt ELSE ReadPlain(e))

ArmReadBox(c, e, q) ==
    Seal(keys[KidBase(q.b)], q.cr, srand + 1, 0, "READ_RESPONSE", q.b, c, e, ReadPlain(e))

\* The hook has bumped the value before the random source or the seal fails;
\* a failed seal leaves the slot zeroed.
ArmReadResponse(c, e, q, f) ==
    /\ \/ /\ ArmReadAbort(c, e, q, f) \notin {"NONE", "INTERNAL"}
          /\ UNCHANGED <<rd, value, srand, seals>>
       \/ /\ ArmReadAbort(c, e, q, f) = "INTERNAL"
          /\ ReadBefore(e)
          /\ rd' = IF f = "seal" THEN [rd EXCEPT ![e] = ZeroReadSlot] ELSE rd
          /\ UNCHANGED <<srand, seals>>
       \/ /\ ArmReadAbort(c, e, q, f) = "NONE"
          /\ srand < MaxRandom
          /\ ReadBefore(e)
          /\ srand' = srand + 1
          /\ seals' = seals \cup {ArmReadBox(c, e, q)}
          /\ rd' = [rd EXCEPT ![e] =
                      [in_use |-> TRUE, cyclic |-> KidCyclic(q.b), cli |-> c,
                       armed_at |-> now, prepared |-> ArmReadBox(c, e, q),
                       key_id |-> IF KidCyclic(q.b) THEN q.b ELSE 0,
                       base |-> IF KidCyclic(q.b) THEN [cr |-> q.cr, sr |-> srand + 1]
                                ELSE ZeroBase,
                       counter |-> 0]]
    /\ UNCHANGED <<wr, keys, lastKid, stage, applied, rungBy>>

\* Pass 2 hands out the prepared bytes to whoever asks; a cyclic slot lives on.
CanDeliver(e) ==
    rd[e].in_use /\ rd[e].prepared # NoBox /\ SlotFresh(rd[e].armed_at)

DeliverRead(e) ==
    /\ rd' = IF rd[e].cyclic
             THEN [rd EXCEPT ![e].prepared = NoBox, ![e].armed_at = now]
             ELSE [rd EXCEPT ![e] = ZeroReadSlot]
    /\ UNCHANGED <<wr, keys, lastKid, stage, value, srand, seals, applied, rungBy>>

\* Mutant: the key budget is one frame too large.
PollCounterLax(counter, b) ==
    IF counter > KeyUseLimit THEN "KEY_BUDGET"
    ELSE IF (counter + 1) % 256 # b THEN "POLL_COUNTER"
    ELSE "NONE"

\* poll_check_counter: strict equality on the low byte of the next counter.
PollCounterAbort(counter, b) ==
    IF counter >= KeyUseLimit THEN "KEY_BUDGET"
    ELSE IF (counter + 1) % 256 # b THEN "POLL_COUNTER"
    ELSE "NONE"

SessionAbort(s, c) ==
    IF ~s.in_use \/ ~s.cyclic \/ s.cli # c \/ ~SessionFresh(s.armed_at)
    THEN "NO_SESSION" ELSE "NONE"

\* What a failed poll does to the slot: expiry and budget tear it down.
PollTearsDown(s, c) ==
    s.cli = c /\ (~SessionFresh(s.armed_at) \/ s.counter >= KeyUseLimit)

ReadPollAbort(c, e, q, f) ==
    LET s == rd[e] IN
    IF SessionAbort(s, c) # "NONE" THEN "NO_SESSION"
    ELSE IF PollCounterAbort(s.counter, q.b) # "NONE" THEN PollCounterAbort(s.counter, q.b)
    ELSE IF ~RoleAllowed("READ", KidBase(s.key_id), e) THEN "ROLE_DENIED"
    ELSE IF ~HasKey(KidBase(s.key_id)) THEN "KEY_ID"
    ELSE IF f = "seal" THEN "INTERNAL"
    ELSE "NONE"

\* Mutant: the poll is sealed under the last counter instead of the next one.
ReadPollBoxLast(e) ==
    LET s == rd[e] IN
    Seal(keys[KidBase(s.key_id)], s.base.cr, s.base.sr, s.counter,
         "READ_POLL_RESPONSE", s.key_id, s.cli, e, ReadPlain(e))

ReadPollBox(e) ==
    LET s == rd[e] IN
    Seal(keys[KidBase(s.key_id)], s.base.cr, s.base.sr, s.counter + 1,
         "READ_POLL_RESPONSE", s.key_id, s.cli, e, ReadPlain(e))

\* The read hook runs before the key lookup, so a poll that fails on the key
\* or in the AEAD has bumped the value already.
HandleReadPoll(c, e, q, f) ==
    /\ \/ /\ ReadPollAbort(c, e, q, f) \notin {"NONE", "KEY_ID", "INTERNAL"}
          /\ rd' = [rd EXCEPT ![e] = IF PollTearsDown(@, c) THEN ZeroReadSlot ELSE @]
          /\ UNCHANGED <<value, seals>>
       \/ /\ ReadPollAbort(c, e, q, f) \in {"KEY_ID", "INTERNAL"}
          /\ ReadBefore(e)
          /\ UNCHANGED <<rd, seals>>
       \/ /\ ReadPollAbort(c, e, q, f) = "NONE"
          /\ ReadBefore(e)
          /\ seals' = seals \cup {ReadPollBox(e)}
          /\ rd' = [rd EXCEPT ![e].counter = @ + 1, ![e].armed_at = now]
    /\ UNCHANGED <<wr, keys, lastKid, stage, srand, applied, rungBy>>

-----------------------------------------------------------------------------
(* Secure write: Pass 1 draws a server random, Pass 2 verifies and applies. *)

\* Mutant: the owner is checked after the slot was cleared, so never.
ArmWriteUnguarded(c, e, q, f) ==
    IF q.shape = "byte" /\ (~KidCyclic(q.b) \/ ~KeyUsable(e, q.b)) THEN "KEY_ID"
    ELSE IF q.shape = "byte" /\ ~RoleAllowed("WRITE", KidBase(q.b), e) THEN "ROLE_DENIED"
    ELSE IF f = "random" THEN "INTERNAL"
    ELSE "NONE"

\* A one-byte request carries the wire keyid and must ask for a cyclic arm.
ArmWriteAbort(c, e, q, f) ==
    IF q.shape = "byte" /\ (~KidCyclic(q.b) \/ ~KeyUsable(e, q.b)) THEN "KEY_ID"
    ELSE IF q.shape = "byte" /\ ~RoleAllowed("WRITE", KidBase(q.b), e) THEN "ROLE_DENIED"
    ELSE IF f = "random" THEN "INTERNAL"
    ELSE IF SlotHeldByOther(wr[e], c) THEN "DEVICE_STATE"
    ELSE "NONE"

ArmWriteChallenge(c, e, q, f) ==
    /\ \/ /\ ArmWriteAbort(c, e, q, f) # "NONE"
          /\ UNCHANGED <<wr, srand>>
       \/ /\ ArmWriteAbort(c, e, q, f) = "NONE"
          /\ srand < MaxRandom
          /\ srand' = srand + 1
          /\ wr' = [wr EXCEPT ![e] =
                      [in_use |-> TRUE, cyclic |-> q.shape = "byte", cli |-> c,
                       armed_at |-> now,
                       key_id |-> IF q.shape = "byte" THEN q.b ELSE 0,
                       server_random |-> srand + 1, base |-> ZeroBase, counter |-> 0]]
    /\ UNCHANGED <<rd, keys, lastKid, stage, value, seals, applied, rungBy>>

\* Mutant: the tag does not cover the server's challenge.
WriteOpensAnyChallenge(e, q) ==
    Opens(q.box, keys[KidBase(q.b)], q.cr, q.box.sr, 0, "WRITE_REQUEST",
          q.b, wr[e].cli, e)

\* Does the Pass-2 frame open under the slot's challenge?  The slot's
\* client_dev, not the sender, is in the associated data.
WriteOpens(e, q) ==
    Opens(q.box, keys[KidBase(q.b)], q.cr, wr[e].server_random, 0, "WRITE_REQUEST",
          q.b, wr[e].cli, e)

VerifyAbort(e, q) ==
    IF ~wr[e].in_use \/ ~SlotFresh(wr[e].armed_at) THEN "NO_SESSION"
    ELSE IF q.shape # "write" THEN "LENGTH"
    ELSE IF ~KeyUsable(e, q.b) THEN "KEY_ID"
    ELSE IF ~RoleAllowed("WRITE", KidBase(q.b), e) THEN "ROLE_DENIED"
    ELSE IF ~WriteOpens(e, q) THEN "TAG_VERIFY"
    ELSE "NONE"

\* Any failure consumes the challenge; a verified frame records its key
\* before the hook runs; a cyclic keyid turns the slot into a session.
VerifyAndApplyWrite(e, q) ==
    /\ \/ /\ VerifyAbort(e, q) # "NONE"
          /\ wr' = [wr EXCEPT ![e] = ZeroWriteSlot]
          /\ UNCHANGED <<keys, lastKid, stage, value, applied, rungBy>>
       \/ /\ VerifyAbort(e, q) = "NONE"
          /\ lastKid' = KidBase(q.b)
          /\ \/ /\ WriteAfterAbort(e, q.box.pt, lastKid') # "NONE"
                /\ wr' = [wr EXCEPT ![e] = ZeroWriteSlot]
                /\ UNCHANGED <<keys, stage, value, applied, rungBy>>
             \/ /\ WriteAfterAbort(e, q.box.pt, lastKid') = "NONE"
                /\ WriteAfter(e, q.box, KidBase(q.b))
                /\ wr' = IF KidCyclic(q.b)
                         THEN [wr EXCEPT ![e].cyclic = TRUE, ![e].key_id = q.b,
                                 ![e].base = [cr |-> q.cr, sr |-> wr[e].server_random],
                                 ![e].counter = 0, ![e].armed_at = now]
                         ELSE [wr EXCEPT ![e] = ZeroWriteSlot]
    /\ UNCHANGED <<rd, srand, seals>>

WritePollOpens(e, q) ==
    LET s == wr[e] IN
    Opens(q.box, keys[KidBase(s.key_id)], s.base.cr, s.base.sr, s.counter + 1,
          "WRITE_POLL_REQUEST", s.key_id, s.cli, e)

WritePollAbort(c, e, q) ==
    LET s == wr[e] IN
    IF SessionAbort(s, c) # "NONE" THEN "NO_SESSION"
    ELSE IF PollCounterAbort(s.counter, q.b) # "NONE" THEN PollCounterAbort(s.counter, q.b)
    ELSE IF ~RoleAllowed("WRITE", KidBase(s.key_id), e) THEN "ROLE_DENIED"
    ELSE IF ~HasKey(KidBase(s.key_id)) THEN "KEY_ID"
    ELSE IF ~WritePollOpens(e, q) THEN "TAG_VERIFY"
    ELSE "NONE"

\* A bad tag or a refused hook leaves the session as it was.  lastKid is not
\* updated here, so the hook sees the key of an earlier Pass-2 write.
HandleWritePoll(c, e, q) ==
    /\ \/ /\ WritePollAbort(c, e, q) # "NONE"
          /\ wr' = [wr EXCEPT ![e] = IF PollTearsDown(@, c) THEN ZeroWriteSlot ELSE @]
          /\ UNCHANGED <<keys, stage, value, applied, rungBy>>
       \/ /\ WritePollAbort(c, e, q) = "NONE"
          /\ \/ /\ WriteAfterAbort(e, q.box.pt, lastKid) # "NONE"
                /\ UNCHANGED <<wr, keys, stage, value, applied, rungBy>>
             \/ /\ WriteAfterAbort(e, q.box.pt, lastKid) = "NONE"
                /\ WriteAfter(e, q.box, KidBase(wr[e].key_id))
                /\ wr' = [wr EXCEPT ![e].counter = @ + 1, ![e].armed_at = now]
    /\ UNCHANGED <<rd, lastKid, srand, seals>>

-----------------------------------------------------------------------------
(* Dispatch. *)

\* The handler fbsec_sod_dispatch selects: poll matchers first, then the
\* SECURE_RO shapes, then the SECURE_WO shapes.
Route(e, q) ==
    IF e \in RO /\ q.shape = "byte" /\ rd[e].in_use /\ rd[e].cyclic THEN "read_poll"
    ELSE IF e \in WO /\ q.shape = "poll" /\ wr[e].in_use /\ wr[e].cyclic THEN "write_poll"
    ELSE IF e \in RO /\ q.shape = "challenge" THEN "arm_read"
    ELSE IF e \in RO /\ q.shape = "empty" /\ CanDeliver(e) THEN "deliver"
    ELSE IF e \in WO THEN IF q.shape \in {"empty", "byte"} THEN "arm_write" ELSE "write"
    ELSE IF q.shape = "empty" THEN "NO_SESSION"
    ELSE "TYPE_MISMATCH"

Dispatch(c, e, q, f) ==
    \/ Route(e, q) = "read_poll"  /\ HandleReadPoll(c, e, q, f)
    \/ Route(e, q) = "write_poll" /\ HandleWritePoll(c, e, q)
    \/ Route(e, q) = "arm_read"   /\ ArmReadResponse(c, e, q, f)
    \/ Route(e, q) = "deliver"    /\ DeliverRead(e)
    \/ Route(e, q) = "arm_write"  /\ ArmWriteChallenge(c, e, q, f)
    \/ Route(e, q) = "write"      /\ VerifyAndApplyWrite(e, q)
    \/ Route(e, q) \in {"NO_SESSION", "TYPE_MISMATCH"} /\ UNCHANGED <<core, seals, applied, rungBy>>

\* A request that passes every check of its handler.
Commits(c, e, q) ==
    \/ /\ Route(e, q) = "write" /\ VerifyAbort(e, q) = "NONE"
       /\ WriteAfterAbort(e, q.box.pt, KidBase(q.b)) = "NONE"
    \/ /\ Route(e, q) = "write_poll" /\ WritePollAbort(c, e, q) = "NONE"
       /\ WriteAfterAbort(e, q.box.pt, lastKid) = "NONE"

DispatchAbort(c, e, q, f) ==
    LET r == Route(e, q) IN
    CASE r = "read_poll"  -> ReadPollAbort(c, e, q, f)
      [] r = "arm_read"   -> ArmReadAbort(c, e, q, f)
      [] r = "deliver"    -> "NONE"
      [] r = "arm_write"  -> ArmWriteAbort(c, e, q, f)
      [] r = "write"      -> IF VerifyAbort(e, q) # "NONE" THEN VerifyAbort(e, q)
                             ELSE WriteAfterAbort(e, q.box.pt, KidBase(q.b))
      [] r = "write_poll" -> IF WritePollAbort(c, e, q) # "NONE" THEN WritePollAbort(c, e, q)
                             ELSE WriteAfterAbort(e, q.box.pt, lastKid)
      [] OTHER            -> r

\* The reply of fbsec_sod_dispatch: an abort code or the body of an OK/DEFER.
DispatchReply(c, e, q, f) ==
    LET r == Route(e, q)
        a == DispatchAbort(c, e, q, f)
    IN  [abort |-> a,
         sr  |-> IF r = "arm_write" /\ a = "NONE" THEN srand + 1 ELSE 0,
         b   |-> IF r = "read_poll" /\ a = "NONE" THEN (rd[e].counter + 1) % 256 ELSE 0,
         box |-> CASE r = "read_poll" /\ a = "NONE" -> ReadPollBox(e)
                   [] r = "deliver" -> rd[e].prepared
                   [] OTHER -> NoBox]

-----------------------------------------------------------------------------
(* Boot, time and factory restore. *)

BootStage(k) == IF \A i \in 1..3 : k[i] = NoKey THEN "UNCOMMISSIONED" ELSE "OPERATIONAL"

Boot(k) == [i \in KeySlot |-> IF i = 4 THEN ClaimToken ELSE k[i]]

Init ==
    /\ now = 0
    /\ rd = [e \in Entry |-> ZeroReadSlot]
    /\ wr = [e \in Entry |-> ZeroWriteSlot]
    /\ lastKid = 0
    /\ \E k \in BootKeys : keys = Boot(k) /\ stage = BootStage(k)
    /\ value = [x \in Cell |-> 0]
    /\ srand = 0
    /\ seals = {}
    /\ applied = {}
    /\ rungBy = [i \in 1..3 |-> 0]

\* The millisecond clock is free running and wraps.
Tick ==
    /\ now' = (now + 1) % ClockMod
    /\ UNCHANGED <<core, seals, applied, rungBy>>

\* A factory restore clears the key store and re-arms the claim token; the
\* slots, the last write key and the stored values stay as they are.
Decommission ==
    /\ keys' = [i \in KeySlot |-> IF i = 4 THEN ClaimToken ELSE NoKey]
    /\ stage' = "UNCOMMISSIONED"
    /\ rungBy' = [i \in 1..3 |-> 0]
    /\ UNCHANGED <<now, rd, wr, lastKid, value, srand, seals, applied>>

\* The process is restarted: RAM state is rebuilt from the key file, and the
\* random source does not repeat.
Restart ==
    /\ rd' = [e \in Entry |-> ZeroReadSlot]
    /\ wr' = [e \in Entry |-> ZeroWriteSlot]
    /\ lastKid' = 0
    /\ \E k \in BootKeys : keys' = Boot(k) /\ stage' = BootStage(k)
    /\ value' = [x \in Cell |-> 0]
    /\ rungBy' = [i \in 1..3 |-> 0]
    /\ UNCHANGED <<now, srand, seals, applied>>

-----------------------------------------------------------------------------
(* The environment: every request a client holding some key can frame. *)

Bare(shape, b, cr) == [shape |-> shape, b |-> b, cr |-> cr, box |-> NoBox]

PlainFor(e) ==
    IF e \in KeySet THEN [sel : 0..3, w : KeyVal] ELSE [sel : {0}, w : Word]

UnsealedRequest(e) ==
    {Bare("empty", 0, 0), Bare("other", 0, 0)}
        \cup {Bare("byte", b, 0) : b \in WireKid[e] \cup 1..((KeyUseLimit + 1) % 256)}
        \cup {Bare("challenge", b, cr) : b \in WireKid[e], cr \in ClientRandom}

WriteRequest(c, e) ==
    {[shape |-> "write", b |-> b, cr |-> cr,
      box |-> Seal(key, cr, sr, 0, "WRITE_REQUEST", b, c, e, pt)] :
        b \in WireKid[e], key \in KeyVal, cr \in ClientRandom, sr \in 1..srand,
        pt \in PlainFor(e)}

\* A client seals polls in a cyclic session only.
PollRequest(c, e) ==
    {[shape |-> "poll", b |-> ctr % 256, cr |-> 0,
      box |-> Seal(key, cr, sr, ctr, "WRITE_POLL_REQUEST", b, c, e, pt)] :
        b \in {k \in WireKid[e] : KidCyclic(k)}, key \in KeyVal,
        cr \in ClientRandom \cup {0}, sr \in 0..srand,
        ctr \in 1..(KeyUseLimit + 1), pt \in PlainFor(e)}

SodRequest(c, e, q, f) == Dispatch(c, e, q, f) /\ UNCHANGED now

Serve ==
    \/ \E c \in Client, e \in Entry, f \in Fault :
          \E q \in UnsealedRequest(e) : SodRequest(c, e, q, f)
    \/ \E c \in Client, e \in WO :
          \E q \in WriteRequest(c, e) \cup PollRequest(c, e) : SodRequest(c, e, q, "none")

Next == Tick \/ Decommission \/ Restart \/ Serve

Spec == Init /\ [][Next]_vars

-----------------------------------------------------------------------------
(* Properties. *)

\* Every variable has its type.
TypeOK ==
    /\ now \in Clock
    /\ rd \in [Entry -> ReadSlot]
    /\ wr \in [Entry -> WriteSlot]
    /\ keys \in [KeySlot -> Word]
    /\ lastKid \in 0..15
    /\ stage \in Stage
    /\ value \in [Cell -> Word]
    /\ srand \in Nat
    /\ seals \subseteq Box
    /\ applied \subseteq Box
    /\ rungBy \in [1..3 -> 0..15]

\* arm_read_response, handle_read_poll: the server never seals two different
\* frames under one (key, nonce), whatever is armed, polled, aborted,
\* restored, expired or restarted in between.
NoNonceReuse ==
    \A s, t \in seals :
        s.key = t.key /\ s.cr = t.cr /\ s.sr = t.sr /\ s.ctr = t.ctr => s = t

\* Why it holds, and inductive: the server random separates the armings, the
\* counter separates the frames of one arming (0 is the Pass-2 response, the
\* polls count from 1), and a live cyclic session is the only one that can still
\* add a frame under its random, above all others.
Session(e) == rd[e].in_use /\ rd[e].cyclic

NonceInv ==
    /\ \A s \in seals : s.sr <= srand /\ s.ctr <= KeyUseLimit
    /\ \A s \in seals : s.dir = "READ_POLL_RESPONSE" => s.ctr > 0
    /\ \A s, t \in seals : s.sr = t.sr /\ s.ctr = t.ctr => s = t
    /\ \A e \in Entry : Session(e) =>
          /\ rd[e].base.sr <= srand
          /\ \A s \in seals : s.sr = rd[e].base.sr => s.ctr <= rd[e].counter
    /\ \A d, e \in Entry : Session(d) /\ Session(e) /\ rd[d].base.sr = rd[e].base.sr => d = e

\* poll_check_counter: a session seals at most KeyUseLimit polled frames under
\* one nonce base, over polls, failed seals, re-arming and restarts. The Pass-2
\* response that opened the session is sealed under the same key and base and
\* is not counted by the code, so the frames of a session are one more.
SealBudget ==
    \A t \in seals :
        Cardinality({s \in seals : /\ s.cr = t.cr /\ s.sr = t.sr
                                  /\ s.dir = "READ_POLL_RESPONSE"}) <= KeyUseLimit

\* The slot holds an arming that is not yet due to expire.
Live(s) ==
    s.in_use /\ FreshFor(s.armed_at, IF s.cyclic THEN SessionTimeout ELSE ChallengeTimeout)

\* slot_held_by_other: while one client's arming or session is fresh (the
\* challenge timeout, or the idle timeout once it is cyclic), neither slot of
\* the entry passes to another client. (The head of the file still says that two
\* clients arming one entry overwrite each other; the guard refuses the second.)
FreshSlotKept ==
    [][\A e \in Entry :
          /\ Live(rd[e]) /\ rd'[e].in_use => rd'[e].cli = rd[e].cli
          /\ Live(wr[e]) /\ wr'[e].in_use => wr'[e].cli = wr[e].cli]_vars

\* verify_and_apply_write, handle_write_poll: a frame that was applied is never
\* accepted a second time, by whomever and however late it is delivered again.
AppliedOnce ==
    \A c \in Client, e \in WO :
        \A q \in WriteRequest(c, e) \cup PollRequest(c, e) :
            Commits(c, e, q) => q.box \notin applied

\* fbsec_server_apply_key_set: every installed rung was installed by a write
\* that the tier below it verified.
LadderAuthorised ==
    \A i \in 1..3 : rungBy[i] \in {0, Authorizer[i]}

=============================================================================
