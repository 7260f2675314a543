-------------------------- MODULE SlotExpiryProofs --------------------------
(***************************************************************************)
(* Machine-checked facts about the expiry of slots on the 16-bit clock,    *)
(* for every clock range and every timeout.                                *)
(***************************************************************************)
EXTENDS SlotExpiry, SecureOdProofs

\* slot_is_fresh_for's (uint16_t)(now - armed_at).
Since(t) == (now - t) % ClockMod

-----------------------------------------------------------------------------
(* Subtraction modulo the clock range. *)

LEMMA ModFits ==
    ASSUME NEW m \in Nat \ {0}, NEW a \in 0..(m - 1)
    PROVE  a % m = a
OBVIOUS

LEMMA ModWraps ==
    ASSUME NEW m \in Nat \ {0}, NEW a \in 1..(m - 1)
    PROVE  (a - m) % m = a
OBVIOUS

LEMMA ModTop ==
    ASSUME NEW m \in Nat \ {0}
    PROVE  m % m = 0
OBVIOUS

LEMMA DiffMod ==
    ASSUME NEW m \in Nat \ {0}, NEW a \in 0..(m - 1), NEW t \in 0..(m - 1)
    PROVE  (a - t) % m = IF t <= a THEN a - t ELSE a - t + m
<1>1. CASE t <= a
  <2>1. a - t \in 0..(m - 1)
    BY <1>1
  <2>. QED  BY <1>1, <2>1, ModFits
<1>2. CASE ~(t <= a)
  <2>1. a - t + m \in 1..(m - 1) /\ (a - t + m) - m = a - t
    BY <1>2
  <2>. QED  BY <1>2, <2>1, ModWraps
<1>. QED  BY <1>1, <1>2

\* A tick makes every armed_at one older, until its age has gone round.
LEMMA TickAges ==
    ASSUME now \in Clock, NEW t \in Clock, Since(t) + 1 < ClockMod, Tick
    PROVE  Since(t)' = Since(t) + 1
<1>. DEFINE m == ClockMod
<1>1. m \in Nat \ {0} /\ now \in 0..(m - 1) /\ t \in 0..(m - 1)
  BY SodConstants DEF Clock
<1>2. now' = IF now + 1 = m THEN 0 ELSE now + 1
  <2>1. now + 1 # m => (now + 1) % m = now + 1
    BY <1>1, ModFits
  <2>2. now + 1 = m => (now + 1) % m = 0
    BY <1>1, ModTop
  <2>. QED  BY <2>1, <2>2 DEF Tick
<1>3. now' \in 0..(m - 1)
  BY <1>1, <1>2
<1>4. Since(t) = IF t <= now THEN now - t ELSE now - t + m
  BY <1>1, DiffMod DEF Since
<1>5. Since(t)' = IF t <= now' THEN now' - t ELSE now' - t + m
  BY <1>1, <1>3, DiffMod DEF Since
<1>. QED  BY <1>1, <1>2, <1>4, <1>5

LEMMA SinceNow ==
    ASSUME now \in Clock
    PROVE  Since(now) = 0
<1>1. now - now = 0 /\ 0 \in 0..(ClockMod - 1) /\ ClockMod \in Nat \ {0}
  BY SodConstants DEF Clock
<1>. QED  BY <1>1, ModFits DEF Since

-----------------------------------------------------------------------------
(* The real age of a slot. *)

\* Inductive: the 16-bit age of a slot in use is its real age.
ExpiryInv ==
    /\ idle \in [Entry -> [r : 0..MaxIdle, w : 0..MaxIdle]]
    /\ \A e \in Entry :
          /\ rd[e].in_use => Since(rd[e].armed_at) = idle[e].r
          /\ wr[e].in_use => Since(wr[e].armed_at) = idle[e].w

\* A handler that changes a slot either releases it or stamps it.
LEMMA ServeStamps ==
    ASSUME TypeOK, NEW c \in Client, NEW e \in Entry, NEW q \in Request, NEW f \in Fault,
           SodRequest(c, e, q, f), NEW d \in Entry
    PROVE  /\ rd'[d] # rd[d] /\ rd'[d].in_use => rd'[d].armed_at = now
           /\ wr'[d] # wr[d] /\ wr'[d].in_use => wr'[d].armed_at = now
<1>. USE DEF TypeOK
<1>1. rd[e] \in ReadSlot /\ wr[e] \in WriteSlot
  OBVIOUS
<1>2. rd'[d] # rd[d] /\ rd'[d].in_use => rd'[d].armed_at = now
  <2>1. CASE UNCHANGED rd
    BY <2>1
  <2>2. CASE ArmReadResponse(c, e, q, f)
    BY <2>2 DEF ArmReadResponse, ZeroReadSlot
  <2>3. CASE DeliverRead(e)
    <3>. DEFINE s == [rd[e] EXCEPT !.prepared = NoBox, !.armed_at = now]
    <3>1. s.armed_at = now
      BY <1>1 DEF ReadSlot
    <3>2. d = e => rd'[d] \in {s, ZeroReadSlot}
      BY <2>3 DEF DeliverRead
    <3>3. d # e => rd'[d] = rd[d]
      BY <2>3 DEF DeliverRead
    <3>. HIDE DEF s
    <3>. QED  BY <3>1, <3>2, <3>3 DEF ZeroReadSlot
  <2>4. CASE HandleReadPoll(c, e, q, f)
    <3>. DEFINE s == [rd[e] EXCEPT !.counter = rd[e].counter + 1, !.armed_at = now]
    <3>1. s.armed_at = now
      BY <1>1 DEF ReadSlot
    <3>2. d = e => rd'[d] \in {s, ZeroReadSlot, rd[d]}
      BY <2>4 DEF HandleReadPoll
    <3>3. d # e => rd'[d] = rd[d]
      BY <2>4 DEF HandleReadPoll
    <3>. HIDE DEF s
    <3>. QED  BY <3>1, <3>2, <3>3 DEF ZeroReadSlot
  <2>. QED  BY <2>1, <2>2, <2>3, <2>4
            DEF SodRequest, Dispatch, HandleWritePoll, ArmWriteChallenge, VerifyAndApplyWrite, core
<1>3. wr'[d] # wr[d] /\ wr'[d].in_use => wr'[d].armed_at = now
  <2>1. CASE UNCHANGED wr
    BY <2>1
  <2>2. CASE ArmWriteChallenge(c, e, q, f)
    BY <2>2 DEF ArmWriteChallenge
  <2>3. CASE VerifyAndApplyWrite(e, q)
    <3>. DEFINE s == [wr[e] EXCEPT !.cyclic = TRUE, !.key_id = q.b,
                        !.base = [cr |-> q.cr, sr |-> wr[e].server_random],
                        !.counter = 0, !.armed_at = now]
    <3>1. s.armed_at = now
      BY <1>1 DEF WriteSlot
    <3>2. d = e => wr'[d] \in {s, ZeroWriteSlot}
      BY <2>3 DEF VerifyAndApplyWrite
    <3>3. d # e => wr'[d] = wr[d]
      BY <2>3 DEF VerifyAndApplyWrite
    <3>. HIDE DEF s
    <3>. QED  BY <3>1, <3>2, <3>3 DEF ZeroWriteSlot
  <2>4. CASE HandleWritePoll(c, e, q)
    <3>. DEFINE s == [wr[e] EXCEPT !.counter = wr[e].counter + 1, !.armed_at = now]
    <3>1. s.armed_at = now
      BY <1>1 DEF WriteSlot
    <3>2. d = e => wr'[d] \in {s, ZeroWriteSlot, wr[d]}
      BY <2>4 DEF HandleWritePoll
    <3>3. d # e => wr'[d] = wr[d]
      BY <2>4 DEF HandleWritePoll
    <3>. HIDE DEF s
    <3>. QED  BY <3>1, <3>2, <3>3 DEF ZeroWriteSlot
  <2>. QED  BY <2>1, <2>2, <2>3, <2>4
            DEF SodRequest, Dispatch, HandleReadPoll, ArmReadResponse, DeliverRead, core
<1>. QED  BY <1>2, <1>3

LEMMA ExpiryStep ==
    ASSUME MaxIdle < ClockMod
    PROVE  TypeOK /\ ExpiryInv /\ [ExpiryNext]_expiryVars => ExpiryInv'
<1>. SUFFICES ASSUME TypeOK, ExpiryInv, [ExpiryNext]_expiryVars
              PROVE  ExpiryInv'
  OBVIOUS
<1>1. MaxIdle \in Nat /\ ClockMod \in Nat
  BY MaxIdleAssumption, SodConstants
<1>2. CASE UNCHANGED expiryVars
  BY <1>2 DEF ExpiryInv, Since, expiryVars, vars
<1>3. CASE Age
  <2>1. UNCHANGED <<rd, wr>>
    BY <1>3 DEF Age, Tick, core
  <2>2. ASSUME NEW t \in Clock, NEW age \in 0..MaxIdle, age < MaxIdle, Since(t) = age
        PROVE  Since(t)' = age + 1
    <3>1. Since(t) + 1 < ClockMod
      BY <1>1, <2>2
    <3>. QED  BY <1>3, <2>2, <3>1, TickAges DEF Age, TypeOK
  <2>3. idle' \in [Entry -> [r : 0..MaxIdle, w : 0..MaxIdle]]
    BY <1>1, <1>3 DEF Age, ExpiryInv
  <2>4. \A e \in Entry : rd[e].armed_at \in Clock /\ wr[e].armed_at \in Clock
    BY DEF TypeOK, ReadSlot, WriteSlot
  <2>5. ASSUME NEW e \in Entry
        PROVE  /\ rd'[e].in_use => Since(rd[e].armed_at)' = idle'[e].r
               /\ wr'[e].in_use => Since(wr[e].armed_at)' = idle'[e].w
    <3>1. /\ idle[e].r \in 0..MaxIdle /\ idle[e].w \in 0..MaxIdle
          /\ idle[e].r < MaxIdle /\ idle[e].w < MaxIdle
      BY <1>3 DEF ExpiryInv, Age
    <3>2. /\ rd[e].in_use => idle'[e].r = idle[e].r + 1
          /\ wr[e].in_use => idle'[e].w = idle[e].w + 1
      BY <1>3 DEF Age
    <3>3. /\ rd[e].in_use => Since(rd[e].armed_at) = idle[e].r
          /\ wr[e].in_use => Since(wr[e].armed_at) = idle[e].w
      BY DEF ExpiryInv
    <3>4. rd[e].in_use => (now' - rd[e].armed_at) % ClockMod = idle[e].r + 1
      BY <2>2, <2>4, <3>1, <3>3 DEF Since
    <3>5. wr[e].in_use => (now' - wr[e].armed_at) % ClockMod = idle[e].w + 1
      BY <2>2, <2>4, <3>1, <3>3 DEF Since
    <3>. QED  BY <2>1, <3>2, <3>4, <3>5 DEF Since
  <2>. QED  BY <2>1, <2>3, <2>5 DEF ExpiryInv
<1>4. CASE (Serve \/ Decommission \/ Restart) /\ Touch
  <2>1. now' = now
    BY <1>4 DEF Serve, SodRequest, Decommission, Restart
  <2>2. ASSUME NEW d \in Entry
        PROVE  /\ rd'[d] # rd[d] /\ rd'[d].in_use => rd'[d].armed_at = now
               /\ wr'[d] # wr[d] /\ wr'[d].in_use => wr'[d].armed_at = now
    <3>1. CASE Serve
      BY <3>1, ServedRequest, ServeStamps
    <3>2. CASE Decommission \/ Restart
      BY <3>2 DEF Decommission, Restart, ZeroReadSlot, ZeroWriteSlot
    <3>. QED  BY <1>4, <3>1, <3>2
  <2>3. Since(now) = 0
    BY SinceNow DEF TypeOK
  <2>4. idle' \in [Entry -> [r : 0..MaxIdle, w : 0..MaxIdle]]
    BY <1>1, <1>4 DEF Touch, ExpiryInv
  <2>5. ASSUME NEW e \in Entry
        PROVE  /\ rd'[e].in_use => (now' - rd'[e].armed_at) % ClockMod = idle'[e].r
               /\ wr'[e].in_use => (now' - wr'[e].armed_at) % ClockMod = idle'[e].w
    <3>1. /\ idle'[e].r = IF rd'[e] = rd[e] THEN idle[e].r ELSE 0
          /\ idle'[e].w = IF wr'[e] = wr[e] THEN idle[e].w ELSE 0
      BY <1>4 DEF Touch
    <3>. QED  BY <2>1, <2>2, <2>3, <3>1 DEF ExpiryInv, Since
  <2>. QED  BY <2>4, <2>5 DEF ExpiryInv, Since
<1>. QED  BY <1>2, <1>3, <1>4 DEF ExpiryNext

\* The specification with real time only adds to the secure OD: every theorem
\* about Spec holds of it.
THEOREM ExpiryImplementsSod == ExpirySpec => Spec
<1>1. ExpiryInit => Init
  BY DEF ExpiryInit
<1>2. [ExpiryNext]_expiryVars => [Next]_vars
  BY DEF ExpiryNext, Age, Next, expiryVars
<1>. QED  BY <1>1, <1>2, PTL DEF ExpirySpec, Spec

\* slot_is_fresh, session_is_fresh: for any clock range and any timeouts, the
\* wrapping 16-bit age decides freshness exactly as the real age does, as long
\* as no slot in use is left alone for a whole round of the clock.
THEOREM ExpiryIsTruthful ==
    ASSUME MaxIdle < ClockMod
    PROVE  ExpirySpec => []ExpiryTruthful
<1>1. ExpiryInit => ExpiryInv
  <2>1. 0 \in 0..MaxIdle
    BY MaxIdleAssumption
  <2>. QED  BY <2>1 DEF ExpiryInit, Init, ExpiryInv, ZeroReadSlot, ZeroWriteSlot
<1>2. ExpiryInv => ExpiryTruthful
  BY DEF ExpiryInv, ExpiryTruthful, AgreesWith, SlotFresh, SessionFresh, FreshFor, Since
<1>. QED  BY <1>1, <1>2, ExpiryStep, ExpiryImplementsSod, TypeCorrect, PTL DEF ExpirySpec
=============================================================================
