------------------------- MODULE SecureTunnelProofs -------------------------
(***************************************************************************)
(* Machine-checked facts about clients and server together, for every      *)
(* number of clients, entries, keys, requests in transit and restarts.     *)
(***************************************************************************)
EXTENDS SecureTunnel, SecureOdProofs, SequenceTheorems

AbortCode == {"NONE", "KEY_ID", "ROLE_DENIED", "DEVICE_STATE", "INTERNAL", "NO_SESSION",
              "KEY_BUDGET", "POLL_COUNTER", "LENGTH", "TAG_VERIFY", "TYPE_MISMATCH"}
Frame == [e : Entry, q : Request, live : BOOLEAN]
Reply == [abort : AbortCode, sr : Nat, b : Nat, box : Box \cup {NoBox}]
Answer == [r : Reply, live : BOOLEAN]
Verb == [e : Entry \cup {NoEntry}, kid : Byte, cr : Nat, box : Box \cup {NoBox}]
ClientSession == [in_use : BOOLEAN, e : Entry \cup {NoEntry}, kid : Byte, base : Base, counter : Nat]

ClientTypeOK ==
    /\ pc \in [Client -> PC]
    /\ op \in [Client -> Verb]
    /\ sess \in [Client -> ClientSession]
    /\ up \in [Client -> Seq(Frame)]
    /\ down \in [Client -> Seq(Answer)]
    /\ crand \in Nat
    /\ cseals \subseteq Box
    /\ \A c \in Client :
          /\ pc[c] \in {"read1", "read2"} => op[c].e \in RO
          /\ pc[c] \in {"write1", "write2"} => op[c].e \in WO
          /\ pc[c] = "write2" => op[c].box \in Box
          /\ sess[c].in_use => sess[c].e \in Entry

TunnelType == TypeOK /\ ClientTypeOK

\* A client random that was drawn for a read: no client seals under it.
ReadRandom(x) == x <= crand /\ \A t \in cseals : t.cr # x

\* A frame in transit whose challenge, if it has one, is such a random.
Ready == {m \in Frame : m.q.shape = "challenge" => ReadRandom(m.q.cr)}

\* Client c, and nobody else, has sealed under x, and not above the counter n.
Owned(c, x, n) ==
    /\ \E t \in cseals : t.cr = x
    /\ \A t \in cseals : t.cr = x => t.cli = c /\ t.ctr <= n

\* The randoms a client still seals under, or will.
Mine(c, p, o, s) ==
    /\ p = "write2" => Owned(c, o.cr, 0)
    /\ s.in_use /\ s.e \in WO =>
          Owned(c, s.base.cr, IF p = "pollw" THEN s.counter + 1 ELSE s.counter)

\* Every client random has one purpose, and a counter is used once under it.
RandomInv ==
    /\ NonceInv
    /\ \A s \in seals : ReadRandom(s.cr)
    /\ \A e \in Entry : Session(e) => ReadRandom(rd[e].base.cr)
    /\ \A c \in Client : up[c] \in Seq(Ready)
    /\ \A s, t \in cseals : s.cr = t.cr /\ s.ctr = t.ctr => s = t
    /\ \A t \in cseals : t.cr <= crand
    /\ \A c \in Client : Mine(c, pc[c], op[c], sess[c])

-----------------------------------------------------------------------------
(* Type correctness. *)

\* What a server answers is well formed.
LEMMA ReplyType ==
    ASSUME TypeOK, NEW c \in Client, NEW e \in Entry, NEW q \in Request, NEW f \in Fault
    PROVE  DispatchReply(c, e, q, f) \in Reply
<1>1. DispatchAbort(c, e, q, f) \in AbortCode
  <2>1. ReadPollAbort(c, e, q, f) \in AbortCode
    BY DEF ReadPollAbort, PollCounterAbort, AbortCode
  <2>2. ArmReadAbort(c, e, q, f) \in AbortCode /\ ArmWriteAbort(c, e, q, f) \in AbortCode
    BY DEF ArmReadAbort, ArmWriteAbort, AbortCode
  <2>3. VerifyAbort(e, q) \in AbortCode
    BY DEF VerifyAbort, AbortCode
  <2>4. WritePollAbort(c, e, q) \in AbortCode
    BY DEF WritePollAbort, PollCounterAbort, AbortCode
  <2>5. \A pt, by : WriteAfterAbort(e, pt, by) \in AbortCode
    BY DEF WriteAfterAbort, ApplyKeySetAbort, AbortCode
  <2>6. Route(e, q) \in {"read_poll", "write_poll", "arm_read", "deliver", "arm_write", "write",
                         "NO_SESSION", "TYPE_MISMATCH"}
    BY DEF Route
  <2>7. "NONE" \in AbortCode /\ "NO_SESSION" \in AbortCode /\ "TYPE_MISMATCH" \in AbortCode
    BY DEF AbortCode
  <2>. QED  BY <2>1, <2>2, <2>3, <2>4, <2>5, <2>6, <2>7 DEF DispatchAbort
<1>2. rd[e] \in ReadSlot /\ srand \in Nat
  BY DEF TypeOK
<1>3. rd[e].prepared \in Box \cup {NoBox} /\ (rd[e].counter + 1) % 256 \in Nat
  BY <1>2 DEF ReadSlot
<1>4. ReadPollAbort(c, e, q, f) = "NONE" => ReadPollBox(e) \in Box
  <2>. SUFFICES ASSUME ReadPollAbort(c, e, q, f) = "NONE"
                PROVE  ReadPollBox(e) \in Box
    OBVIOUS
  <2>1. HasKey(KidBase(rd[e].key_id))
    BY DEF ReadPollAbort
  <2>2. keys[KidBase(rd[e].key_id)] \in Word
    BY <2>1 DEF HasKey, TypeOK
  <2>3. ReadPlain(e) \in Plain
    BY ReadHookType
  <2>4. /\ rd[e].base.cr \in Nat /\ rd[e].base.sr \in Nat /\ rd[e].counter + 1 \in Nat
        /\ rd[e].key_id \in Byte /\ rd[e].cli \in Nat
    BY <1>2 DEF ReadSlot, Base
  <2>5. "READ_POLL_RESPONSE" \in Dir
    BY DEF Dir
  <2>. QED  BY <2>2, <2>3, <2>4, <2>5, SealType DEF ReadPollBox
<1>5. Route(e, q) = "read_poll" => DispatchAbort(c, e, q, f) = ReadPollAbort(c, e, q, f)
  BY DEF DispatchAbort
<1>. QED  BY <1>1, <1>2, <1>3, <1>4, <1>5 DEF DispatchReply, Reply

LEMMA AbandonType ==
    ASSUME NEW s
    PROVE  /\ s \in Seq(Frame) => Abandon(s) \in Seq(Frame)
           /\ s \in Seq(Answer) => Abandon(s) \in Seq(Answer)
<1>1. ASSUME NEW S, s \in Seq(S), \A x \in S : [x EXCEPT !.live = FALSE] \in S
      PROVE  Abandon(s) \in Seq(S)
  <2>1. Len(s) \in Nat /\ DOMAIN s = 1..Len(s) /\ \A i \in 1..Len(s) : s[i] \in S
    BY <1>1, LenProperties
  <2>2. Abandon(s) \in [1..Len(s) -> S]
    BY <1>1, <2>1 DEF Abandon
  <2>. QED  BY <2>1, <2>2, SeqDef
<1>2. \A x \in Frame : [x EXCEPT !.live = FALSE] \in Frame
  BY DEF Frame
<1>3. \A x \in Answer : [x EXCEPT !.live = FALSE] \in Answer
  BY DEF Answer
<1>. QED  BY <1>1, <1>2, <1>3

LEMMA SendType ==
    ASSUME ClientTypeOK, NEW c \in Client, NEW e \in Entry, NEW q \in Request, Send(c, e, q)
    PROVE  up' \in [Client -> Seq(Frame)]
<1>1. [e |-> e, q |-> q, live |-> TRUE] \in Frame
  BY DEF Frame
<1>2. Append(up[c], [e |-> e, q |-> q, live |-> TRUE]) \in Seq(Frame)
  BY <1>1 DEF ClientTypeOK
<1>. QED  BY <1>2 DEF Send, ClientTypeOK

\* Taking the oldest reply.
LEMMA ReplyTaken ==
    ASSUME ClientTypeOK, NEW c \in Client, HasReply(c), down' = [down EXCEPT ![c] = Tail(@)]
    PROVE  ReplyOf(c) \in Reply /\ down' \in [Client -> Seq(Answer)]
<1>1. down[c] \in Seq(Answer) /\ down[c] # <<>>
  BY DEF ClientTypeOK, HasReply
<1>2. Head(down[c]) \in Answer /\ Tail(down[c]) \in Seq(Answer)
  BY <1>1, HeadTailProperties
<1>. QED  BY <1>2 DEF ReplyOf, Answer, ClientTypeOK

LEMMA NoneTypes ==
    /\ NoOp \in Verb /\ NoSession \in ClientSession /\ ~NoSession.in_use
    /\ Bare("empty", 0, 0) \in Request
    /\ \A b \in Byte, n \in Nat : Bare("challenge", b, n) \in Request /\ Bare("byte", b, 0) \in Request
    /\ \A n \in Nat : n % 256 \in Byte
    /\ \A c \in Client, cyc \in BOOLEAN : WireKidOf(c, cyc) \in Byte
<1>1. 0 \in Byte /\ ZeroBase \in Base /\ \A n \in Nat : n % 256 \in Byte
  BY DEF Byte, Base, ZeroBase
<1>2. \A c \in Client, cyc \in BOOLEAN : WireKidOf(c, cyc) \in Byte
  BY TunnelConstants DEF WireKidOf, KeySlot, Byte
<1>3. NoOp \in Verb /\ NoSession \in ClientSession /\ ~NoSession.in_use
  BY <1>1 DEF NoOp, Verb, NoSession, ClientSession
<1>4. \A b \in Byte, n \in Nat : Bare("challenge", b, n) \in Request /\ Bare("byte", b, 0) \in Request
                                 /\ Bare("empty", b, n) \in Request
  BY DEF Bare, Request, Shape
<1>. QED  BY <1>1, <1>2, <1>3, <1>4

\* A step of client c: it now waits for p, in the verb o, with the session s.
Moves(c, p, o, s) ==
    /\ pc' = [pc EXCEPT ![c] = p]
    /\ op' = [op EXCEPT ![c] = o]
    /\ sess' = [sess EXCEPT ![c] = s]

Waits(p, o, s) ==
    /\ p \in PC /\ o \in Verb /\ s \in ClientSession
    /\ p \in {"read1", "read2"} => o.e \in RO
    /\ p \in {"write1", "write2"} => o.e \in WO
    /\ p = "write2" => o.box \in Box
    /\ s.in_use => s.e \in Entry

LEMMA MoveType ==
    ASSUME ClientTypeOK, NEW c \in Client, NEW p, NEW o, NEW s, Moves(c, p, o, s), Waits(p, o, s),
           up' \in [Client -> Seq(Frame)], down' \in [Client -> Seq(Answer)],
           crand' \in Nat, cseals' \subseteq Box
    PROVE  ClientTypeOK'
<1>1. /\ pc' \in [Client -> PC] /\ op' \in [Client -> Verb] /\ sess' \in [Client -> ClientSession]
      /\ pc'[c] = p /\ op'[c] = o /\ sess'[c] = s
      /\ \A d \in Client \ {c} : pc'[d] = pc[d] /\ op'[d] = op[d] /\ sess'[d] = sess[d]
  BY DEF ClientTypeOK, Moves, Waits
<1>2. ASSUME NEW d \in Client
      PROVE  /\ pc'[d] \in {"read1", "read2"} => op'[d].e \in RO
             /\ pc'[d] \in {"write1", "write2"} => op'[d].e \in WO
             /\ pc'[d] = "write2" => op'[d].box \in Box
             /\ sess'[d].in_use => sess'[d].e \in Entry
  <2>1. CASE d = c
    BY <1>1, <2>1 DEF Waits
  <2>2. CASE d # c
    BY <1>1, <2>2 DEF ClientTypeOK
  <2>. QED  BY <2>1, <2>2
<1>. QED  BY <1>1, <1>2 DEF ClientTypeOK

\* A verb that fails; a verb runner keeps no session.
LEMMA FailMoves ==
    ASSUME ClientTypeOK, NEW c \in Client, Fail(c)
    PROVE  \E s : /\ Moves(c, "idle", NoOp, s) /\ Waits("idle", NoOp, s)
                  /\ s = NoSession \/ (RetryPolls /\ s = sess[c])
<1>1. sess = [sess EXCEPT ![c] = sess[c]]
  BY DEF ClientTypeOK
<1>2. sess[c] \in ClientSession /\ (sess[c].in_use => sess[c].e \in Entry)
  BY DEF ClientTypeOK
<1>3. "idle" \in PC
  BY DEF PC
<1>4. CASE RetryPolls
  BY <1>1, <1>2, <1>3, <1>4, NoneTypes DEF Fail, Moves, Waits
<1>5. CASE ~RetryPolls
  BY <1>3, <1>5, NoneTypes DEF Fail, Moves, Waits
<1>. QED  BY <1>4, <1>5

-----------------------------------------------------------------------------
(* How the steps of a client touch the randoms. *)

\* Only a fresh random, or one already sealed under, is sealed under next.
SealsFresh(c) ==
    /\ crand' \in Nat /\ crand' >= crand
    /\ \A t \in cseals' : t \in cseals \/ t.cr > crand \/ \E u \in cseals : u.cr = t.cr /\ u.cli = c

LEMMA ReadyGrows ==
    ASSUME TunnelType, NEW c, SealsFresh(c)
    PROVE  /\ \A x \in Nat : ReadRandom(x) => ReadRandom(x)'
           /\ Ready \subseteq Ready'
           /\ \A s \in Seq(Ready) : s \in Seq(Ready') /\ s \in Seq(Frame)
<1>1. \A x \in Nat : ReadRandom(x) => ReadRandom(x)'
  <2>. SUFFICES ASSUME NEW x \in Nat, ReadRandom(x)
                PROVE  ReadRandom(x)'
    OBVIOUS
  <2>1. crand \in Nat /\ crand' \in Nat /\ crand' >= crand /\ x <= crand
    BY DEF TunnelType, ClientTypeOK, SealsFresh, ReadRandom
  <2>2. ASSUME NEW t \in cseals', t.cr = x
        PROVE  FALSE
    BY <2>1, <2>2 DEF SealsFresh, ReadRandom
  <2>. QED  BY <2>1, <2>2 DEF ReadRandom
<1>2. \A m \in Frame : m.q.cr \in Nat
  BY DEF Frame, Request
<1>3. Ready \subseteq Ready'
  BY <1>1, <1>2 DEF Ready
<1>4. Ready \subseteq Frame
  BY DEF Ready
<1>. QED  BY <1>1, <1>3, <1>4, SeqMonotonic

\* The queue of client c after a step.
Queued(c) ==
    /\ up' \in [Client -> Seq(Frame)]
    /\ up'[c] \in Seq(Ready')
    /\ \A d \in Client \ {c} : up'[d] = up[d]

LEMMA SendQueued ==
    ASSUME TunnelType, RandomInv, NEW c \in Client, SealsFresh(c), NEW e \in Entry, NEW q \in Request,
           q.shape = "challenge" => q.cr <= crand' /\ \A t \in cseals' : t.cr # q.cr,
           Send(c, e, q)
    PROVE  Queued(c)
<1>. DEFINE m == [e |-> e, q |-> q, live |-> TRUE]
<1>1. m \in Frame /\ m.q = q
  BY DEF Frame
<1>. HIDE DEF m
<1>2. m \in Ready'
  BY <1>1 DEF Ready, ReadRandom
<1>3. up[c] \in Seq(Ready')
  BY ReadyGrows DEF RandomInv
<1>4. Append(up[c], m) \in Seq(Ready')
  BY <1>2, <1>3
<1>5. up' = [up EXCEPT ![c] = Append(@, m)]
  BY DEF Send, m
<1>6. up' \in [Client -> Seq(Frame)]
  BY SendType DEF TunnelType
<1>. QED  BY <1>4, <1>5, <1>6 DEF Queued, TunnelType, ClientTypeOK

\* What a step of client c leaves to show of the randoms.
LEMMA MoveRandom ==
    ASSUME TunnelType, RandomInv, NEW c \in Client, NEW p, NEW o, NEW s, Moves(c, p, o, s),
           SealsFresh(c), UNCHANGED vars, Queued(c), Mine(c, p, o, s)',
           \A x, y \in cseals' : x.cr = y.cr /\ x.ctr = y.ctr => x = y,
           \A t \in cseals' : t.cr <= crand',
           cseals \subseteq cseals'
    PROVE  RandomInv'
<1>1. NonceInv'
  <2>1. \A e \in Entry : Session(e)' = Session(e)
    BY DEF Session, vars
  <2>. QED  BY <2>1 DEF RandomInv, NonceInv, vars
<1>2. \A x \in seals' : ReadRandom(x.cr)'
  <2>1. \A x \in seals : x.cr \in Nat
    BY DEF TunnelType, TypeOK, Box
  <2>. QED  BY <2>1, ReadyGrows DEF RandomInv, vars, ReadRandom
<1>3. \A e \in Entry : Session(e)' => ReadRandom(rd[e].base.cr)'
  <2>1. \A e \in Entry : rd[e].base.cr \in Nat
    BY DEF TunnelType, TypeOK, ReadSlot, Base
  <2>. QED  BY <2>1, ReadyGrows DEF RandomInv, vars, Session, ReadRandom
<1>4. \A d \in Client : up'[d] \in Seq(Ready')
  <2>1. \A d \in Client : up[d] \in Seq(Ready')
    BY ReadyGrows DEF RandomInv
  <2>. QED  BY <2>1 DEF Queued
<1>5. ASSUME NEW d \in Client
      PROVE  Mine(d, pc[d], op[d], sess[d])'
  <2>1. CASE d = c
    <3>1. pc'[d] = p /\ op'[d] = o /\ sess'[d] = s
      BY <2>1 DEF Moves, TunnelType, ClientTypeOK
    <3>. QED  BY <2>1, <3>1 DEF Mine, Owned
  <2>2. CASE d # c
    <3>1. pc'[d] = pc[d] /\ op'[d] = op[d] /\ sess'[d] = sess[d]
      BY <2>2 DEF Moves, TunnelType, ClientTypeOK
    <3>2. ASSUME NEW x \in Nat, NEW n, Owned(d, x, n)
          PROVE  Owned(d, x, n)'
      <4>1. \A t \in cseals' \ cseals : t.cr # x
        <5>1. PICK u \in cseals : u.cr = x
          BY <3>2 DEF Owned
        <5>2. u.cr <= crand /\ u.cr \in Nat /\ crand \in Nat /\ u.cli = d
          BY <3>2, <5>1 DEF RandomInv, Owned, TunnelType, ClientTypeOK, Box
        <5>3. \A t \in cseals' \ cseals : t.cr > crand \/ \E v \in cseals : v.cr = t.cr /\ v.cli = c
          BY DEF SealsFresh
        <5>4. ASSUME NEW t \in cseals' \ cseals, t.cr = x
              PROVE  FALSE
          <6>1. ~(t.cr > crand)
            BY <5>1, <5>2, <5>4
          <6>2. PICK v \in cseals : v.cr = t.cr /\ v.cli = c
            BY <5>3, <6>1
          <6>. QED  BY <2>2, <3>2, <5>4, <6>2 DEF Owned
        <5>. QED  BY <5>4
      <4>. QED  BY <3>2, <4>1 DEF Owned
    <3>3. op[d].cr \in Nat /\ sess[d].base.cr \in Nat
      BY DEF TunnelType, ClientTypeOK, Verb, ClientSession, Base
    <3>. QED  BY <3>1, <3>2, <3>3 DEF RandomInv, Mine
  <2>. QED  BY <2>1, <2>2
<1>. QED  BY <1>1, <1>2, <1>3, <1>4, <1>5 DEF RandomInv

LEMMA AbandonReady ==
    ASSUME NEW s \in Seq(Ready)
    PROVE  Abandon(s) \in Seq(Ready)
<1>1. \A m \in Ready : [m EXCEPT !.live = FALSE] \in Ready
  <2>. SUFFICES ASSUME NEW m \in Ready
                PROVE  [m EXCEPT !.live = FALSE] \in Ready
    OBVIOUS
  <2>1. [m EXCEPT !.live = FALSE] \in Frame /\ [m EXCEPT !.live = FALSE].q = m.q
    BY DEF Ready, Frame
  <2>. QED  BY <2>1 DEF Ready
<1>2. Len(s) \in Nat /\ DOMAIN s = 1..Len(s) /\ \A i \in 1..Len(s) : s[i] \in Ready
  BY LenProperties
<1>3. Abandon(s) \in [1..Len(s) -> Ready]
  BY <1>1, <1>2 DEF Abandon
<1>. QED  BY <1>2, <1>3, SeqDef

\* A step of client c that seals nothing.
LEMMA QuietMove ==
    ASSUME TunnelType, RandomInv, NEW c \in Client, NEW p, NEW o, NEW s,
           Moves(c, p, o, s), Waits(p, o, s), UNCHANGED <<vars, cseals>>,
           crand' \in {crand, crand + 1}, Queued(c), down' \in [Client -> Seq(Answer)],
           Mine(c, p, o, s)
    PROVE  TunnelType' /\ RandomInv'
<1>1. crand \in Nat /\ crand' \in Nat /\ crand' >= crand
  BY DEF TunnelType, ClientTypeOK
<1>2. SealsFresh(c)
  BY <1>1 DEF SealsFresh
<1>3. Mine(c, p, o, s)'
  BY DEF Mine, Owned
<1>4. \A t \in cseals' : t.cr <= crand'
  <2>1. \A t \in cseals : t.cr \in Nat /\ t.cr <= crand
    BY DEF RandomInv, TunnelType, ClientTypeOK, Box
  <2>. QED  BY <1>1, <2>1
<1>5. \A x, y \in cseals' : x.cr = y.cr /\ x.ctr = y.ctr => x = y
  BY DEF RandomInv
<1>6. RandomInv'
  BY <1>2, <1>3, <1>4, <1>5, MoveRandom
<1>7. ClientTypeOK'
  BY <1>1, MoveType DEF TunnelType, ClientTypeOK, Queued
<1>8. TypeOK'
  BY DEF TunnelType, TypeOK, vars
<1>. QED  BY <1>6, <1>7, <1>8 DEF TunnelType

\* The queue of client c is left alone.
LEMMA QueueKept ==
    ASSUME TunnelType, RandomInv, NEW c \in Client, UNCHANGED <<up, cseals>>,
           crand' \in {crand, crand + 1}
    PROVE  Queued(c)
<1>1. SealsFresh(c)
  BY DEF SealsFresh, TunnelType, ClientTypeOK
<1>. QED  BY <1>1, ReadyGrows DEF Queued, RandomInv, TunnelType, ClientTypeOK

\* A reply that ends the verb with an error, and a timeout.
LEMMA FailStep ==
    ASSUME TunnelType, RandomInv, ~RetryPolls, NEW c \in Client, Fail(c),
           UNCHANGED <<vars, cseals>>, crand' = crand, Queued(c), down' \in [Client -> Seq(Answer)]
    PROVE  TunnelType' /\ RandomInv'
<1>1. Moves(c, "idle", NoOp, NoSession) /\ Waits("idle", NoOp, NoSession)
  BY FailMoves DEF TunnelType
<1>2. Mine(c, "idle", NoOp, NoSession)
  BY NoneTypes DEF Mine
<1>. QED  BY <1>1, <1>2, QuietMove

-----------------------------------------------------------------------------
(* The steps of a client. *)

LEMMA StartStep ==
    ASSUME TunnelType, RandomInv, NEW c \in Client, NEW e \in Entry, NEW cyc \in BOOLEAN,
           \/ StartRead(c, e, cyc) /\ e \in RO
           \/ StartWrite(c, e, cyc) /\ e \in WO
    PROVE  TunnelType' /\ RandomInv'
<1>. DEFINE k == WireKidOf(c, cyc)
<1>1. k \in Byte
  BY NoneTypes
<1>2. /\ sess = [sess EXCEPT ![c] = sess[c]] /\ sess[c] \in ClientSession
      /\ {"read1", "write1"} \subseteq PC /\ crand \in Nat /\ \A t \in cseals : t.cr \in Nat
  BY DEF TunnelType, ClientTypeOK, PC, Box
<1>. HIDE DEF k
<1>3. /\ UNCHANGED <<vars, cseals, down>> /\ ~sess[c].in_use /\ down' \in [Client -> Seq(Answer)]
      /\ crand' \in {crand, crand + 1}
  BY DEF StartRead, StartWrite, TunnelType, ClientTypeOK
<1>4. SealsFresh(c)
  BY <1>2, <1>3 DEF SealsFresh
<1>5. CASE StartRead(c, e, cyc) /\ e \in RO
  <2>. DEFINE o == [e |-> e, kid |-> k, cr |-> crand', box |-> NoBox]
              q == Bare("challenge", k, crand')
  <2>1. o \in Verb /\ o.e = e
    BY <1>1, <1>2, <1>3 DEF Verb
  <2>2. op' = [op EXCEPT ![c] = o] /\ pc' = [pc EXCEPT ![c] = "read1"] /\ sess' = sess
    BY <1>5 DEF StartRead, k
  <2>3. q \in Request /\ q.cr = crand'
    <3>1. crand' \in Nat
      BY <1>2, <1>3
    <3>2. q \in Request
      BY <1>1, <3>1, NoneTypes
    <3>. QED  BY <3>2 DEF Bare
  <2>4. Send(c, e, q) /\ crand' = crand + 1
    BY <1>5 DEF StartRead, k
  <2>5. \A t \in cseals' : t.cr # crand'
    BY <1>2, <1>3, <2>4 DEF RandomInv
  <2>. HIDE DEF o, q
  <2>6. Queued(c)
    BY <1>2, <1>4, <2>3, <2>4, <2>5, SendQueued
  <2>7. Moves(c, "read1", o, sess[c]) /\ Waits("read1", o, sess[c]) /\ Mine(c, "read1", o, sess[c])
    BY <1>2, <1>3, <1>5, <2>1, <2>2 DEF Moves, Waits, Mine
  <2>. QED  BY <1>3, <2>6, <2>7, QuietMove
<1>6. CASE StartWrite(c, e, cyc) /\ e \in WO
  <2>. DEFINE o == [e |-> e, kid |-> k, cr |-> 0, box |-> NoBox]
              q == Bare("empty", 0, 0)
  <2>1. o \in Verb /\ o.e = e
    BY <1>1 DEF Verb
  <2>2. op' = [op EXCEPT ![c] = o] /\ pc' = [pc EXCEPT ![c] = "write1"] /\ sess' = sess
    BY <1>6 DEF StartWrite, k
  <2>3. q \in Request /\ q.shape # "challenge"
    BY NoneTypes DEF Bare
  <2>4. Send(c, e, q)
    BY <1>6 DEF StartWrite
  <2>. HIDE DEF o, q
  <2>5. Queued(c)
    BY <1>4, <2>3, <2>4, SendQueued
  <2>6. Moves(c, "write1", o, sess[c]) /\ Waits("write1", o, sess[c]) /\ Mine(c, "write1", o, sess[c])
    BY <1>2, <1>3, <1>6, <2>1, <2>2 DEF Moves, Waits, Mine
  <2>. QED  BY <1>3, <2>5, <2>6, QuietMove
<1>. QED  BY <1>5, <1>6

LEMMA ReadReplyStep ==
    ASSUME TunnelType, RandomInv, ~RetryPolls, NEW c \in Client, Read1Reply(c) \/ Read2Reply(c)
    PROVE  TunnelType' /\ RandomInv'
<1>1. /\ HasReply(c) /\ down' = [down EXCEPT ![c] = Tail(@)] /\ UNCHANGED <<vars, cseals>>
      /\ crand' = crand
  BY DEF Read1Reply, Read2Reply
<1>2. ReplyOf(c) \in Reply /\ down' \in [Client -> Seq(Answer)]
  BY <1>1, ReplyTaken DEF TunnelType
<1>3. /\ op = [op EXCEPT ![c] = op[c]] /\ sess = [sess EXCEPT ![c] = sess[c]]
      /\ op[c] \in Verb /\ sess[c] \in ClientSession /\ (sess[c].in_use => sess[c].e \in Entry)
      /\ op[c].e \in RO /\ crand \in Nat /\ pc[c] \in {"read1", "read2"} /\ {"read2", "idle"} \subseteq PC
  BY DEF TunnelType, ClientTypeOK, Read1Reply, Read2Reply, PC
<1>4. SealsFresh(c)
  BY <1>1, <1>3 DEF SealsFresh
<1>5. CASE UNCHANGED up /\ Fail(c)
  <2>1. Queued(c)
    BY <1>1, <1>5, QueueKept
  <2>. QED  BY <1>1, <1>2, <1>5, <2>1, FailStep
<1>6. CASE /\ pc' = [pc EXCEPT ![c] = "read2"] /\ UNCHANGED <<op, sess>>
           /\ Send(c, op[c].e, Bare("empty", 0, 0))
  <2>1. Bare("empty", 0, 0) \in Request /\ Bare("empty", 0, 0).shape # "challenge"
    BY NoneTypes DEF Bare
  <2>2. Queued(c)
    BY <1>3, <1>4, <1>6, <2>1, SendQueued DEF Entry
  <2>3. Moves(c, "read2", op[c], sess[c]) /\ Waits("read2", op[c], sess[c])
    BY <1>3, <1>6 DEF Moves, Waits
  <2>4. Mine(c, "read2", op[c], sess[c])
    BY <1>3 DEF RandomInv, Mine
  <2>. QED  BY <1>1, <1>2, <2>2, <2>3, <2>4, QuietMove
<1>7. ASSUME NEW s, s \in ClientSession, s.e \notin WO, s.in_use => s.e \in Entry,
             Succeed(c, s), UNCHANGED up
      PROVE  TunnelType' /\ RandomInv'
  <2>1. Queued(c)
    BY <1>1, <1>7, QueueKept
  <2>2. Moves(c, "idle", NoOp, s) /\ Waits("idle", NoOp, s)
    BY <1>3, <1>7, NoneTypes DEF Moves, Waits, Succeed
  <2>3. Mine(c, "idle", NoOp, s)
    BY <1>7 DEF Mine
  <2>. QED  BY <1>1, <1>2, <2>1, <2>2, <2>3, QuietMove
<1>8. CASE Read2Reply(c) /\ ReadAccepted(c)
  <2>. DEFINE s == [in_use |-> TRUE, e |-> op[c].e, kid |-> op[c].kid,
                    base |-> [cr |-> op[c].cr, sr |-> ReplyOf(c).box.sr], counter |-> 0]
  <2>1. ReplyOf(c).box \in Box
    BY <1>2, <1>8 DEF ReadAccepted, ReadOpens, Reply
  <2>2. s \in ClientSession /\ s.e \notin WO /\ s.e \in Entry
    BY <1>3, <2>1, TunnelConstants DEF ClientSession, Verb, Box, Base, Entry
  <2>. HIDE DEF s
  <2>3. UNCHANGED up /\ (Succeed(c, s) \/ Succeed(c, NoSession) \/ Fail(c))
    BY <1>8 DEF Read2Reply, s
  <2>4. CASE Succeed(c, s)
    BY <1>7, <2>2, <2>3, <2>4
  <2>5. CASE Succeed(c, NoSession)
    <3>1. Queued(c)
      BY <1>1, <2>3, QueueKept
    <3>2. Moves(c, "idle", NoOp, NoSession) /\ Waits("idle", NoOp, NoSession)
      BY <1>3, <2>5, NoneTypes DEF Moves, Waits, Succeed
    <3>3. Mine(c, "idle", NoOp, NoSession)
      BY NoneTypes DEF Mine
    <3>. QED  BY <1>1, <1>2, <3>1, <3>2, <3>3, QuietMove
  <2>. QED  BY <1>5, <2>3, <2>4, <2>5
<1>. QED  BY <1>5, <1>6, <1>8 DEF Read1Reply, Read2Reply

\* A step of client c that seals one frame.
LEMMA SealMove ==
    ASSUME TunnelType, RandomInv, NEW c \in Client, NEW p, NEW o, NEW box \in Box, NEW q \in Request,
           NEW e \in Entry, NEW s, Moves(c, p, o, s), Waits(p, o, s), UNCHANGED vars,
           crand' \in {crand, crand + 1}, cseals' = cseals \cup {box}, box.cr <= crand',
           box.cli = c, q.shape # "challenge", Send(c, e, q), down' \in [Client -> Seq(Answer)],
           box.cr > crand \/ \E u \in cseals : u.cr = box.cr /\ u.cli = c,
           \A t \in cseals : ~(t.cr = box.cr /\ t.ctr = box.ctr),
           Mine(c, p, o, s)'
    PROVE  TunnelType' /\ RandomInv'
<1>1. crand \in Nat /\ crand' \in Nat /\ crand' >= crand
  BY DEF TunnelType, ClientTypeOK
<1>2. SealsFresh(c)
  BY <1>1 DEF SealsFresh
<1>3. \A t \in cseals' : t.cr <= crand'
  <2>1. \A t \in cseals : t.cr \in Nat /\ t.cr <= crand
    BY DEF RandomInv, TunnelType, ClientTypeOK, Box
  <2>. QED  BY <1>1, <2>1
<1>4. \A x, y \in cseals' : x.cr = y.cr /\ x.ctr = y.ctr => x = y
  BY DEF RandomInv
<1>5. Queued(c)
  BY <1>2, SendQueued
<1>6. RandomInv'
  BY <1>2, <1>3, <1>4, <1>5, MoveRandom
<1>7. cseals' \subseteq Box
  BY DEF TunnelType, ClientTypeOK
<1>8. ClientTypeOK'
  BY <1>1, <1>5, <1>7, MoveType DEF TunnelType, Queued
<1>9. TypeOK'
  BY DEF TunnelType, TypeOK, vars
<1>. QED  BY <1>6, <1>8, <1>9 DEF TunnelType

LEMMA Write1Step ==
    ASSUME TunnelType, RandomInv, ~RetryPolls, NEW c \in Client, Write1Reply(c)
    PROVE  TunnelType' /\ RandomInv'
<1>1. HasReply(c) /\ down' = [down EXCEPT ![c] = Tail(@)] /\ UNCHANGED vars /\ pc[c] = "write1"
  BY DEF Write1Reply
<1>2. ReplyOf(c) \in Reply /\ down' \in [Client -> Seq(Answer)]
  BY <1>1, ReplyTaken DEF TunnelType
<1>3. /\ sess = [sess EXCEPT ![c] = sess[c]] /\ op[c] \in Verb /\ sess[c] \in ClientSession
      /\ (sess[c].in_use => sess[c].e \in Entry) /\ op[c].e \in WO /\ crand \in Nat /\ "write2" \in PC
      /\ op \in [Client -> Verb]
  BY <1>1 DEF TunnelType, ClientTypeOK, PC
<1>4. CASE Fail(c) /\ UNCHANGED <<up, crand, cseals>>
  <2>1. Queued(c)
    BY <1>4, QueueKept
  <2>. QED  BY <1>1, <1>2, <1>4, <2>1, FailStep
<1>5. ASSUME crand' = crand + 1, NEW pt \in PlainFor(op[c].e), UNCHANGED sess, NEW box,
             box = Seal(Holder[c].key, crand', ReplyOf(c).sr, 0, "WRITE_REQUEST",
                        op[c].kid, c, op[c].e, pt),
             op' = [op EXCEPT ![c].cr = crand', ![c].box = box],
             cseals' = cseals \cup {box},
             Send(c, op[c].e, [shape |-> "write", b |-> op[c].kid, cr |-> crand', box |-> box]),
             pc' = [pc EXCEPT ![c] = "write2"]
      PROVE  TunnelType' /\ RandomInv'
  <2>. PICK x, s, o, q :
              /\ x = crand' /\ s = sess[c] /\ o = [op[c] EXCEPT !.cr = crand', !.box = box]
              /\ q = [shape |-> "write", b |-> op[c].kid, cr |-> crand', box |-> box]
    OBVIOUS
  <2>1. op[c].e \in Entry /\ op[c].kid \in Byte /\ c \in Nat /\ crand' \in Nat
    BY <1>3, <1>5, SodConstants DEF Entry, Verb
  <2>2. box \in Box /\ box.cr = crand' /\ box.cli = c /\ box.ctr = 0
    <3>1. Holder[c].key \in Word /\ ReplyOf(c).sr \in Nat /\ "WRITE_REQUEST" \in Dir
      BY <1>2, TunnelConstants, SodConstants DEF Reply, Dir
    <3>2. pt \in Plain
      BY <1>5, <2>1, PlainForType
    <3>3. box \in Box
      BY <1>5, <2>1, <3>1, <3>2, SealType
    <3>. QED  BY <1>5, <3>3 DEF Seal
  <2>3. o \in Verb /\ o.e = op[c].e /\ o.cr = crand' /\ o.box = box
    BY <1>3, <2>1, <2>2 DEF Verb
  <2>4. op' = [op EXCEPT ![c] = o]
    BY <1>3, <1>5
  <2>5. q \in Request /\ q.shape # "challenge"
    BY <2>1, <2>2 DEF Request, Shape
  <2>6. Send(c, op[c].e, q)
    BY <1>5
  <2>7. Moves(c, "write2", o, s) /\ Waits("write2", o, s)
    BY <1>3, <1>5, <2>2, <2>3, <2>4 DEF Moves, Waits
  <2>8. \A t \in cseals : t.cr \in Nat /\ t.cr <= crand
    BY DEF RandomInv, TunnelType, ClientTypeOK, Box
  <2>9. crand' > crand /\ \A t \in cseals : t.cr # crand'
    BY <1>3, <1>5, <2>8
  <2>10. Mine(c, "write2", o, s)'
    <3>1. \A t \in cseals' : t.cr = x => t = box
      BY <1>5, <2>9
    <3>2. Owned(c, x, 0)'
      BY <1>5, <2>2, <3>1 DEF Owned
    <3>3. ASSUME s.in_use, s.e \in WO
          PROVE  Owned(c, s.base.cr, s.counter)'
      <4>1. Owned(c, s.base.cr, s.counter)
        BY <1>1, <3>3 DEF RandomInv, Mine
      <4>2. s.base.cr # x
        BY <2>9, <4>1 DEF Owned
      <4>. QED  BY <1>5, <2>2, <4>1, <4>2 DEF Owned
    <3>. QED  BY <2>3, <3>2, <3>3 DEF Mine
  <2>11. /\ crand' \in {crand, crand + 1} /\ box.cr <= crand' /\ box.cr > crand
         /\ \A t \in cseals : ~(t.cr = box.cr /\ t.ctr = box.ctr)
    BY <1>3, <1>5, <2>1, <2>2, <2>9
  <2>12. PICK e \in Entry : e = op[c].e
    BY <2>1
  <2>13. Send(c, e, q) /\ cseals' = cseals \cup {box} /\ UNCHANGED vars /\ box.cli = c
    BY <1>1, <1>5, <2>2, <2>6, <2>12
  <2>14. box \in Box
    BY <2>2
  <2>. QED  BY <1>2, <2>5, <2>7, <2>10, <2>11, <2>13, <2>14, SealMove
<1>. QED  BY <1>4, <1>5 DEF Write1Reply

\* A verb that ends well and keeps the session s.
LEMMA SucceedStep ==
    ASSUME TunnelType, RandomInv, NEW c \in Client, NEW s \in ClientSession, Succeed(c, s),
           s.in_use => s.e \in Entry,
           s.in_use /\ s.e \in WO => Owned(c, s.base.cr, s.counter),
           UNCHANGED <<vars, up, cseals>>, crand' = crand, down' \in [Client -> Seq(Answer)]
    PROVE  TunnelType' /\ RandomInv'
<1>1. Queued(c)
  BY QueueKept
<1>2. Moves(c, "idle", NoOp, s) /\ Waits("idle", NoOp, s)
  BY NoneTypes DEF Moves, Waits, Succeed, PC
<1>3. Mine(c, "idle", NoOp, s)
  BY DEF Mine
<1>. QED  BY <1>1, <1>2, <1>3, QuietMove

LEMMA Write2Step ==
    ASSUME TunnelType, RandomInv, ~RetryPolls, NEW c \in Client, Write2Reply(c)
    PROVE  TunnelType' /\ RandomInv'
<1>1. /\ HasReply(c) /\ down' = [down EXCEPT ![c] = Tail(@)] /\ UNCHANGED <<vars, up, cseals>>
      /\ crand' = crand /\ pc[c] = "write2"
  BY DEF Write2Reply
<1>2. down' \in [Client -> Seq(Answer)]
  BY <1>1, ReplyTaken DEF TunnelType
<1>3. op[c] \in Verb /\ op[c].e \in WO /\ op[c].box \in Box
  BY <1>1 DEF TunnelType, ClientTypeOK
<1>4. CASE Fail(c)
  <2>1. Queued(c)
    BY <1>1, QueueKept
  <2>. QED  BY <1>1, <1>2, <1>4, <2>1, FailStep
<1>5. PICK s : s = [in_use |-> TRUE, e |-> op[c].e, kid |-> op[c].kid,
                    base |-> [cr |-> op[c].cr, sr |-> op[c].box.sr], counter |-> 0]
  OBVIOUS
<1>6. s \in ClientSession /\ s.e \in Entry /\ s.base.cr = op[c].cr /\ s.counter = 0
  BY <1>3, <1>5 DEF ClientSession, Verb, Box, Base, Entry
<1>7. Owned(c, s.base.cr, s.counter)
  BY <1>1, <1>6 DEF RandomInv, Mine
<1>8. CASE Succeed(c, s)
  BY <1>1, <1>2, <1>6, <1>7, <1>8, SucceedStep
<1>9. CASE Succeed(c, NoSession)
  BY <1>1, <1>2, <1>9, NoneTypes, SucceedStep
<1>. QED  BY <1>4, <1>5, <1>8, <1>9 DEF Write2Reply

LEMMA PollReadStep ==
    ASSUME TunnelType, RandomInv, NEW c \in Client, PollRead(c)
    PROVE  TunnelType' /\ RandomInv'
<1>1. /\ pc[c] = "idle" /\ UNCHANGED <<vars, cseals>> /\ crand' = crand /\ down' = down /\ sess' = sess
      /\ sess[c].in_use /\ sess[c].e \in RO
  BY DEF PollRead
<1>2. /\ op \in [Client -> Verb] /\ op[c] \in Verb /\ sess[c] \in ClientSession /\ sess[c].counter \in Nat
      /\ sess = [sess EXCEPT ![c] = sess[c]] /\ down' \in [Client -> Seq(Answer)] /\ crand \in Nat
      /\ "pollr" \in PC /\ sess[c].e \in Entry
  BY <1>1 DEF TunnelType, ClientTypeOK, PC, ClientSession
<1>3. PICK o, q : o = [op[c] EXCEPT !.e = sess[c].e] /\ q = Bare("byte", (sess[c].counter + 1) % 256, 0)
  OBVIOUS
<1>4. o \in Verb /\ op' = [op EXCEPT ![c] = o]
  BY <1>2, <1>3 DEF Verb, PollRead
<1>5. q \in Request /\ q.shape # "challenge"
  <2>1. (sess[c].counter + 1) % 256 \in Byte
    BY <1>2, NoneTypes
  <2>. QED  BY <1>3, <2>1, NoneTypes DEF Bare
<1>6. SealsFresh(c)
  BY <1>1, <1>2 DEF SealsFresh
<1>7. Queued(c)
  <2>1. Send(c, sess[c].e, q)
    BY <1>3 DEF PollRead
  <2>. QED  BY <1>2, <1>5, <1>6, <2>1, SendQueued
<1>8. Moves(c, "pollr", o, sess[c]) /\ Waits("pollr", o, sess[c])
  BY <1>1, <1>2, <1>4 DEF Moves, Waits, PollRead
<1>9. Mine(c, "pollr", o, sess[c])
  BY <1>1 DEF RandomInv, Mine
<1>. QED  BY <1>1, <1>2, <1>7, <1>8, <1>9, QuietMove

LEMMA PollReplyStep ==
    ASSUME TunnelType, RandomInv, ~RetryPolls, NEW c \in Client, PollReadReply(c) \/ PollWriteReply(c)
    PROVE  TunnelType' /\ RandomInv'
<1>1. /\ HasReply(c) /\ down' = [down EXCEPT ![c] = Tail(@)] /\ UNCHANGED <<vars, up, cseals>>
      /\ crand' = crand /\ pc[c] \in {"pollr", "pollw"}
  BY DEF PollReadReply, PollWriteReply
<1>2. down' \in [Client -> Seq(Answer)]
  BY <1>1, ReplyTaken DEF TunnelType
<1>3. sess[c] \in ClientSession /\ (sess[c].in_use => sess[c].e \in Entry) /\ cseals \subseteq Box
  BY DEF TunnelType, ClientTypeOK
<1>4. CASE Fail(c)
  <2>1. Queued(c)
    BY <1>1, QueueKept
  <2>. QED  BY <1>1, <1>2, <1>4, <2>1, FailStep
<1>5. PICK s : s = [sess[c] EXCEPT !.counter = @ + 1]
  OBVIOUS
<1>6. /\ s \in ClientSession /\ s.in_use = sess[c].in_use /\ s.e = sess[c].e /\ s.base = sess[c].base
      /\ s.counter = sess[c].counter + 1 /\ sess[c].counter \in Nat
  BY <1>3, <1>5 DEF ClientSession
<1>7. ASSUME s.in_use, s.e \in WO
      PROVE  Owned(c, s.base.cr, s.counter)
  <2>1. \/ Owned(c, sess[c].base.cr, sess[c].counter)
        \/ Owned(c, sess[c].base.cr, sess[c].counter + 1)
    BY <1>6, <1>7 DEF RandomInv, Mine
  <2>2. \A t \in cseals : t.ctr \in Nat
    BY <1>3 DEF Box
  <2>. QED  BY <1>6, <2>1, <2>2 DEF Owned
<1>8. CASE Succeed(c, s)
  BY <1>1, <1>2, <1>3, <1>6, <1>7, <1>8, SucceedStep
<1>. QED  BY <1>4, <1>5, <1>8 DEF PollReadReply, PollWriteReply

LEMMA PollWriteStep ==
    ASSUME TunnelType, RandomInv, NEW c \in Client, PollWrite(c)
    PROVE  TunnelType' /\ RandomInv'
<1>1. PICK s, e : s = sess[c] /\ e = sess[c].e
  OBVIOUS
<1>2. /\ pc[c] = "idle" /\ UNCHANGED <<vars, sess>> /\ crand' = crand /\ down' = down
      /\ s.in_use /\ e \in WO /\ pc' = [pc EXCEPT ![c] = "pollw"]
  BY <1>1 DEF PollWrite
<1>3. /\ op \in [Client -> Verb] /\ op[c] \in Verb /\ s \in ClientSession /\ s.counter \in Nat
      /\ sess' = [sess EXCEPT ![c] = s] /\ down' \in [Client -> Seq(Answer)] /\ crand \in Nat
      /\ "pollw" \in PC /\ e \in Entry /\ s.e = e /\ s.base.cr \in Nat /\ s.base.sr \in Nat /\ s.kid \in Byte
  BY <1>1, <1>2 DEF TunnelType, ClientTypeOK, PC, ClientSession, Base
<1>4. PICK pt \in PlainFor(e) : \E box :
           /\ box = Seal(Holder[c].key, s.base.cr, s.base.sr, s.counter + 1,
                         "WRITE_POLL_REQUEST", s.kid, c, e, pt)
           /\ op' = [op EXCEPT ![c].e = e, ![c].box = box]
           /\ cseals' = cseals \cup {box}
           /\ Send(c, e, [shape |-> "poll", b |-> (s.counter + 1) % 256, cr |-> 0, box |-> box])
  BY <1>1 DEF PollWrite
<1>5. PICK box :
           /\ box = Seal(Holder[c].key, s.base.cr, s.base.sr, s.counter + 1,
                         "WRITE_POLL_REQUEST", s.kid, c, e, pt)
           /\ op' = [op EXCEPT ![c].e = e, ![c].box = box]
           /\ cseals' = cseals \cup {box}
           /\ Send(c, e, [shape |-> "poll", b |-> (s.counter + 1) % 256, cr |-> 0, box |-> box])
  BY <1>4
<1>6. box \in Box /\ box.cr = s.base.cr /\ box.cli = c /\ box.ctr = s.counter + 1
  <2>1. Holder[c].key \in Word /\ "WRITE_POLL_REQUEST" \in Dir /\ c \in Nat /\ s.counter + 1 \in Nat
    BY <1>3, TunnelConstants, SodConstants DEF Dir
  <2>2. pt \in Plain
    BY <1>3, PlainForType
  <2>3. box \in Box
    BY <1>3, <1>5, <2>1, <2>2, SealType
  <2>. QED  BY <1>5, <2>3 DEF Seal
<1>7. PICK o, q : /\ o = [op[c] EXCEPT !.e = e, !.box = box]
                  /\ q = [shape |-> "poll", b |-> (s.counter + 1) % 256, cr |-> 0, box |-> box]
  OBVIOUS
<1>8. o \in Verb /\ op' = [op EXCEPT ![c] = o]
  <2>1. op[c] \in Verb /\ e \in Entry /\ box \in Box
    BY <1>3, <1>6
  <2>2. o \in Verb
    BY <1>7, <2>1 DEF Verb
  <2>3. op' = [op EXCEPT ![c] = [op[c] EXCEPT !.e = e, !.box = box]]
    BY <1>5
  <2>. QED  BY <1>7, <2>2, <2>3
<1>9. q \in Request /\ q.shape # "challenge" /\ Send(c, e, q)
  <2>1. (s.counter + 1) % 256 \in Byte
    BY <1>3, NoneTypes
  <2>. QED  BY <1>5, <1>6, <1>7, <2>1 DEF Request, Shape
<1>10. Moves(c, "pollw", o, s) /\ Waits("pollw", o, s)
  BY <1>2, <1>3, <1>8 DEF Moves, Waits
<1>11. Owned(c, s.base.cr, s.counter)
  BY <1>1, <1>2 DEF RandomInv, Mine
<1>12. /\ \A t \in cseals : ~(t.cr = box.cr /\ t.ctr = box.ctr)
       /\ \E u \in cseals : u.cr = box.cr /\ u.cli = c
       /\ box.cr <= crand'
  <2>1. \A t \in cseals : t.ctr \in Nat
    BY DEF TunnelType, ClientTypeOK, Box
  <2>2. \A t \in cseals : t.cr <= crand
    BY DEF RandomInv
  <2>. QED  BY <1>2, <1>3, <1>6, <1>11, <2>1, <2>2 DEF Owned
<1>13. Mine(c, "pollw", o, s)'
  <2>1. \A t \in cseals : t.ctr \in Nat
    BY DEF TunnelType, ClientTypeOK, Box
  <2>2. Owned(c, s.base.cr, s.counter + 1)'
    BY <1>3, <1>5, <1>6, <1>11, <2>1 DEF Owned
  <2>. QED  BY <2>2 DEF Mine
<1>14. crand' \in {crand, crand + 1} /\ cseals' = cseals \cup {box} /\ UNCHANGED vars /\ box.cli = c
  BY <1>2, <1>5, <1>6
<1>15. box \in Box /\ e \in Entry /\ down' \in [Client -> Seq(Answer)]
  BY <1>3, <1>6
<1>. QED  BY <1>9, <1>10, <1>12, <1>13, <1>14, <1>15, SealMove

\* The end of a poll loop, and a verb whose answer did not come in time.
LEMMA GiveUpStep ==
    ASSUME TunnelType, RandomInv, ~RetryPolls, NEW c \in Client, EndSession(c) \/ Timeout(c)
    PROVE  TunnelType' /\ RandomInv'
<1>1. UNCHANGED <<vars, cseals>> /\ crand' = crand
  BY DEF EndSession, Timeout
<1>2. up[c] \in Seq(Frame) /\ down[c] \in Seq(Answer) /\ up[c] \in Seq(Ready)
  BY DEF TunnelType, ClientTypeOK, RandomInv
<1>3. CASE EndSession(c)
  <2>1. /\ pc = [pc EXCEPT ![c] = pc[c]] /\ op = [op EXCEPT ![c] = op[c]] /\ pc[c] = "idle"
        /\ "idle" \in PC /\ op[c] \in Verb /\ down' \in [Client -> Seq(Answer)]
    BY <1>3 DEF TunnelType, ClientTypeOK, EndSession, PC
  <2>2. Moves(c, "idle", op[c], NoSession) /\ Waits("idle", op[c], NoSession)
    BY <1>3, <2>1, NoneTypes DEF Moves, Waits, EndSession
  <2>3. Mine(c, "idle", op[c], NoSession)
    BY NoneTypes DEF Mine
  <2>4. Queued(c)
    BY <1>1, <1>3, QueueKept DEF EndSession
  <2>. QED  BY <1>1, <2>1, <2>2, <2>3, <2>4, QuietMove
<1>4. CASE Timeout(c)
  <2>1. /\ Abandon(up[c]) \in Seq(Frame) /\ Abandon(down[c]) \in Seq(Answer)
        /\ Abandon(up[c]) \in Seq(Ready)
    BY <1>2, AbandonType, AbandonReady
  <2>2. down' \in [Client -> Seq(Answer)]
    BY <1>4, <2>1 DEF TunnelType, ClientTypeOK, Timeout
  <2>3. Queued(c)
    <3>1. SealsFresh(c)
      BY <1>1 DEF SealsFresh, TunnelType, ClientTypeOK
    <3>2. Abandon(up[c]) \in Seq(Ready')
      BY <2>1, <3>1, ReadyGrows
    <3>. QED  BY <1>4, <2>1, <3>2 DEF Queued, TunnelType, ClientTypeOK, Timeout
  <2>. QED  BY <1>1, <1>4, <2>2, <2>3, FailStep DEF Timeout
<1>. QED  BY <1>3, <1>4

\* A frame that is dropped on its way.
LEMMA DropStep ==
    ASSUME TunnelType, RandomInv, NEW c \in Client, DropStale(c) \/ Lose(c)
    PROVE  TunnelType' /\ RandomInv'
<1>1. UNCHANGED <<vars, pc, op, sess, cseals>> /\ crand' = crand
  BY DEF DropStale, Lose
<1>2. /\ pc = [pc EXCEPT ![c] = pc[c]] /\ op = [op EXCEPT ![c] = op[c]]
      /\ sess = [sess EXCEPT ![c] = sess[c]]
      /\ up[c] \in Seq(Frame) /\ down[c] \in Seq(Answer) /\ up[c] \in Seq(Ready)
  BY DEF TunnelType, ClientTypeOK, RandomInv
<1>3. Moves(c, pc[c], op[c], sess[c]) /\ Waits(pc[c], op[c], sess[c])
  BY <1>1, <1>2 DEF Moves, Waits, TunnelType, ClientTypeOK
<1>4. Mine(c, pc[c], op[c], sess[c])
  BY DEF RandomInv
<1>5. CASE DropStale(c)
  <2>1. Tail(down[c]) \in Seq(Answer)
    BY <1>2, <1>5, HeadTailProperties DEF DropStale
  <2>2. down' \in [Client -> Seq(Answer)]
    BY <1>5, <2>1 DEF TunnelType, ClientTypeOK, DropStale
  <2>3. Queued(c)
    BY <1>1, <1>5, QueueKept DEF DropStale
  <2>. QED  BY <1>1, <1>3, <1>4, <2>2, <2>3, QuietMove
<1>6. CASE Lose(c)
  <2>1. Tail(up[c]) \in Seq(Frame) /\ Tail(up[c]) \in Seq(Ready)
    BY <1>2, <1>6, HeadTailProperties DEF Lose
  <2>2. down' \in [Client -> Seq(Answer)]
    BY <1>6 DEF TunnelType, ClientTypeOK, Lose
  <2>3. Queued(c)
    <3>1. SealsFresh(c)
      BY <1>1 DEF SealsFresh, TunnelType, ClientTypeOK
    <3>2. Tail(up[c]) \in Seq(Ready')
      BY <2>1, <3>1, ReadyGrows
    <3>. QED  BY <1>6, <2>1, <3>2 DEF Queued, TunnelType, ClientTypeOK, Lose
  <2>. QED  BY <1>1, <1>3, <1>4, <2>2, <2>3, QuietMove
<1>. QED  BY <1>5, <1>6

-----------------------------------------------------------------------------
(* The steps of the server. *)

\* The server seals only under the random of the challenge it is given, or
\* under the one of the read session it keeps.
LEMMA ServedRandoms ==
    ASSUME TypeOK, NEW c \in Client, NEW e \in Entry, NEW q \in Request, NEW f \in Fault,
           SodRequest(c, e, q, f)
    PROVE  /\ \A s \in seals' : \/ s \in seals
                                \/ q.shape = "challenge" /\ s.cr = q.cr
                                \/ Session(e) /\ s.cr = rd[e].base.cr
           /\ \A d \in Entry : Session(d)' =>
                 \/ Session(d) /\ rd'[d].base = rd[d].base
                 \/ q.shape = "challenge" /\ rd'[d].base.cr = q.cr
<1>1. rd[e] \in ReadSlot /\ rd \in [Entry -> ReadSlot]
  BY DEF TypeOK
<1>2. CASE UNCHANGED <<rd, seals>>
  BY <1>2 DEF Session
<1>3. ASSUME UNCHANGED seals, \A d \in Entry \ {e} : rd'[d] = rd[d],
             Session(e)' => Session(e) /\ rd'[e].base = rd[e].base
      PROVE  /\ \A s \in seals' : s \in seals
             /\ \A d \in Entry : Session(d)' => Session(d) /\ rd'[d].base = rd[d].base
  BY <1>3 DEF Session
<1>4. ASSUME NEW x, rd' = [rd EXCEPT ![e] = x], UNCHANGED seals, x \in {rd[e], ZeroReadSlot}
      PROVE  /\ \A s \in seals' : s \in seals
             /\ \A d \in Entry : Session(d)' => Session(d) /\ rd'[d].base = rd[d].base
  BY <1>1, <1>3, <1>4 DEF Session, ZeroReadSlot
<1>5. CASE Route(e, q) = "read_poll" /\ HandleReadPoll(c, e, q, f)
  <2>1. CASE /\ rd' = [rd EXCEPT ![e] = IF PollTearsDown(@, c) THEN ZeroReadSlot ELSE @]
             /\ UNCHANGED seals
    BY <1>4, <2>1
  <2>2. CASE /\ ReadPollAbort(c, e, q, f) = "NONE"
             /\ seals' = seals \cup {ReadPollBox(e)}
             /\ rd' = [rd EXCEPT ![e].counter = @ + 1, ![e].armed_at = now]
    <3>1. Session(e)
      BY <2>2 DEF ReadPollAbort, SessionAbort, Session
    <3>2. ReadPollBox(e).cr = rd[e].base.cr
      BY DEF ReadPollBox, Seal
    <3>3. rd'[e].base = rd[e].base /\ \A d \in Entry \ {e} : rd'[d] = rd[d]
      BY <1>1, <2>2 DEF ReadSlot
    <3>. QED  BY <2>2, <3>1, <3>2, <3>3 DEF Session
  <2>. QED  BY <1>2, <1>5, <2>1, <2>2 DEF HandleReadPoll
<1>6. CASE Route(e, q) = "arm_read" /\ ArmReadResponse(c, e, q, f)
  <2>1. q.shape = "challenge"
    BY <1>6 DEF Route
  <2>2. CASE /\ rd' = IF f = "seal" THEN [rd EXCEPT ![e] = ZeroReadSlot] ELSE rd
             /\ UNCHANGED seals
    BY <1>2, <1>4, <2>2
  <2>3. PICK x : x = [in_use |-> TRUE, cyclic |-> KidCyclic(q.b), cli |-> c,
                      armed_at |-> now, prepared |-> ArmReadBox(c, e, q),
                      key_id |-> IF KidCyclic(q.b) THEN q.b ELSE 0,
                      base |-> IF KidCyclic(q.b) THEN [cr |-> q.cr, sr |-> srand + 1] ELSE ZeroBase,
                      counter |-> 0]
    OBVIOUS
  <2>4. x.cyclic => x.base.cr = q.cr
    BY <2>3
  <2>5. CASE seals' = seals \cup {ArmReadBox(c, e, q)} /\ rd' = [rd EXCEPT ![e] = x]
    <3>1. ArmReadBox(c, e, q).cr = q.cr
      BY DEF ArmReadBox, Seal
    <3>2. \A d \in Entry : Session(d)' =>
                 \/ Session(d) /\ rd'[d].base = rd[d].base
                 \/ q.shape = "challenge" /\ rd'[d].base.cr = q.cr
      BY <1>1, <2>1, <2>4, <2>5 DEF Session
    <3>. QED  BY <2>1, <2>5, <3>1, <3>2
  <2>. QED  BY <1>2, <1>6, <2>2, <2>3, <2>5 DEF ArmReadResponse
<1>7. CASE DeliverRead(e)
  <2>1. rd' = [rd EXCEPT ![e].prepared = NoBox, ![e].armed_at = now] \/ rd' = [rd EXCEPT ![e] = ZeroReadSlot]
    BY <1>7 DEF DeliverRead
  <2>2. CASE rd' = [rd EXCEPT ![e].prepared = NoBox, ![e].armed_at = now]
    <3>1. /\ rd'[e].base = rd[e].base /\ rd'[e].in_use = rd[e].in_use /\ rd'[e].cyclic = rd[e].cyclic
          /\ \A d \in Entry \ {e} : rd'[d] = rd[d]
      BY <1>1, <2>2 DEF ReadSlot
    <3>. QED  BY <1>3, <1>7, <3>1 DEF Session, DeliverRead
  <2>3. CASE rd' = [rd EXCEPT ![e] = ZeroReadSlot]
    BY <1>4, <1>7, <2>3 DEF DeliverRead
  <2>. QED  BY <2>1, <2>2, <2>3
<1>8. CASE HandleWritePoll(c, e, q) \/ ArmWriteChallenge(c, e, q, f) \/ VerifyAndApplyWrite(e, q)
  BY <1>2, <1>8 DEF HandleWritePoll, ArmWriteChallenge, VerifyAndApplyWrite
<1>. QED  BY <1>2, <1>5, <1>6, <1>7, <1>8 DEF SodRequest, Dispatch, core

\* What a step of the server leaves to show of the randoms.
LEMMA ServerMove ==
    ASSUME TunnelType, RandomInv, UNCHANGED <<pc, op, sess, crand, cseals>>, TypeOK', NonceInv',
           \A s \in seals' : ReadRandom(s.cr),
           \A e \in Entry : Session(e)' => ReadRandom(rd'[e].base.cr),
           up' \in [Client -> Seq(Frame)], \A c \in Client : up'[c] \in Seq(Ready),
           down' \in [Client -> Seq(Answer)]
    PROVE  TunnelType' /\ RandomInv'
<1>1. \A x : ReadRandom(x)' = (x <= crand /\ \A t \in cseals : t.cr # x)
  BY DEF ReadRandom
<1>2. Ready' = Ready
  BY DEF Ready, ReadRandom
<1>3. \A c \in Client : up'[c] \in Seq(Ready')
  BY <1>2
<1>4. (\A s \in seals : ReadRandom(s.cr))' /\ (\A e \in Entry : Session(e) => ReadRandom(rd[e].base.cr))'
  BY DEF ReadRandom
<1>5. (\A c \in Client : Mine(c, pc[c], op[c], sess[c]))'
  BY DEF RandomInv, Mine, Owned
<1>6. RandomInv'
  BY <1>3, <1>4, <1>5 DEF RandomInv
<1>7. ClientTypeOK'
  BY DEF TunnelType, ClientTypeOK
<1>. QED  BY <1>6, <1>7 DEF TunnelType

LEMMA ServerStepKeeps ==
    ASSUME TunnelType, RandomInv, NEW c \in Client, NEW f \in Fault, ServerStep(c, f)
    PROVE  TunnelType' /\ RandomInv'
<1>. DEFINE m == Head(up[c])
<1>1. up[c] \in Seq(Ready) /\ up[c] \in Seq(Frame) /\ up[c] # <<>> /\ down[c] \in Seq(Answer)
  BY DEF TunnelType, ClientTypeOK, RandomInv, ServerStep
<1>2. m \in Ready /\ Tail(up[c]) \in Seq(Ready) /\ Tail(up[c]) \in Seq(Frame)
  BY <1>1, HeadTailProperties
<1>3. /\ SodRequest(c, m.e, m.q, f) /\ UNCHANGED <<pc, op, sess, crand, cseals>>
      /\ down' = [down EXCEPT ![c] = Append(@, [r |-> DispatchReply(c, m.e, m.q, f), live |-> m.live])]
      /\ up' = [up EXCEPT ![c] = Tail(@)]
  BY DEF ServerStep
<1>. HIDE DEF m
<1>4. m \in Frame /\ (m.q.shape = "challenge" => ReadRandom(m.q.cr))
  BY <1>2 DEF Ready
<1>5. m.e \in Entry /\ m.q \in Request /\ m.live \in BOOLEAN
  BY <1>4 DEF Frame
<1>6. TypeOK /\ NonceInv
  BY DEF TunnelType, RandomInv
<1>7. TypeOK' /\ NonceInv'
  BY <1>3, <1>5, <1>6, DispatchType, NonceServe
<1>8. /\ \A s \in seals' : \/ s \in seals
                           \/ m.q.shape = "challenge" /\ s.cr = m.q.cr
                           \/ Session(m.e) /\ s.cr = rd[m.e].base.cr
      /\ \A d \in Entry : Session(d)' =>
            \/ Session(d) /\ rd'[d].base = rd[d].base
            \/ m.q.shape = "challenge" /\ rd'[d].base.cr = m.q.cr
  BY <1>3, <1>5, <1>6, ServedRandoms
<1>9. /\ \A s \in seals' : ReadRandom(s.cr)
      /\ \A d \in Entry : Session(d)' => ReadRandom(rd'[d].base.cr)
  <2>1. /\ \A s \in seals : ReadRandom(s.cr)
        /\ \A d \in Entry : Session(d) => ReadRandom(rd[d].base.cr)
    BY DEF RandomInv
  <2>. QED  BY <1>4, <1>5, <1>8, <2>1
<1>10. down' \in [Client -> Seq(Answer)]
  <2>1. DispatchReply(c, m.e, m.q, f) \in Reply
    BY <1>5, <1>6, ReplyType
  <2>2. [r |-> DispatchReply(c, m.e, m.q, f), live |-> m.live] \in Answer
    BY <1>5, <2>1 DEF Answer
  <2>3. Append(down[c], [r |-> DispatchReply(c, m.e, m.q, f), live |-> m.live]) \in Seq(Answer)
    BY <1>1, <2>2
  <2>. QED  BY <1>3, <2>3 DEF TunnelType, ClientTypeOK
<1>11. up' \in [Client -> Seq(Frame)] /\ \A d \in Client : up'[d] \in Seq(Ready)
  BY <1>2, <1>3 DEF TunnelType, ClientTypeOK, RandomInv
<1>. QED  BY <1>3, <1>7, <1>9, <1>10, <1>11, ServerMove

\* The clock moves, or the server is restarted behind the clients' backs.
LEMMA ServerAlone ==
    ASSUME TunnelType, RandomInv, ServerTick \/ ServerRestart
    PROVE  TunnelType' /\ RandomInv'
<1>1. UNCHANGED <<pc, op, sess, up, down, crand, cseals, srand, seals>>
  BY DEF ServerTick, ServerRestart, clientVars, Tick, Restart, core
<1>2. Tick \/ Restart
  BY DEF ServerTick, ServerRestart
<1>3. TypeOK'
  BY <1>2, TypeStep DEF TunnelType, Next
<1>4. \A e \in Entry : Session(e)' => Session(e) /\ rd'[e].base = rd[e].base /\ rd'[e].counter = rd[e].counter
  BY <1>2 DEF Tick, Restart, core, Session, ZeroReadSlot
<1>5. NonceInv'
  BY <1>1, <1>4, NonceQuiet DEF TunnelType, TypeOK, RandomInv
<1>6. /\ \A s \in seals' : ReadRandom(s.cr)
      /\ \A e \in Entry : Session(e)' => ReadRandom(rd'[e].base.cr)
  BY <1>1, <1>4 DEF RandomInv
<1>7. /\ up' \in [Client -> Seq(Frame)] /\ down' \in [Client -> Seq(Answer)]
      /\ \A c \in Client : up'[c] \in Seq(Ready)
  BY <1>1 DEF TunnelType, ClientTypeOK, RandomInv
<1>. QED  BY <1>1, <1>3, <1>5, <1>6, <1>7, ServerMove

-----------------------------------------------------------------------------
(* The whole tunnel. *)

LEMMA TunnelStarts == TunnelInit => TunnelType /\ RandomInv
<1>. SUFFICES ASSUME TunnelInit
              PROVE  TunnelType /\ RandomInv
  OBVIOUS
<1>1. TypeOK
  BY SodConstants, BootType, ZeroSlotTypes DEF TunnelInit, Init, TypeOK, Clock, Word
<1>2. NonceInv /\ seals = {} /\ \A e \in Entry : ~Session(e)
  BY DEF TunnelInit, Init, NonceInv, Session, ZeroReadSlot
<1>3. ClientTypeOK
  <2>1. "idle" \in PC /\ <<>> \in Seq(Frame) /\ <<>> \in Seq(Answer)
    BY DEF PC
  <2>. QED  BY <2>1, NoneTypes DEF TunnelInit, ClientTypeOK
<1>4. RandomInv
  <2>1. \A c \in Client : Mine(c, pc[c], op[c], sess[c])
    BY NoneTypes DEF TunnelInit, Mine
  <2>2. \A c \in Client : up[c] \in Seq(Ready)
    BY DEF TunnelInit
  <2>. QED  BY <1>2, <2>1, <2>2 DEF TunnelInit, RandomInv
<1>. QED  BY <1>1, <1>3, <1>4 DEF TunnelType

LEMMA TunnelStepKeeps ==
    ASSUME ~RetryPolls, TunnelType, RandomInv, [TunnelNext]_tunnelVars
    PROVE  TunnelType' /\ RandomInv'
<1>1. CASE UNCHANGED tunnelVars
  <2>1. /\ UNCHANGED <<pc, op, sess, up, down, crand, cseals, srand, seals, rd>> /\ UNCHANGED vars
    BY <1>1 DEF tunnelVars, clientVars, vars
  <2>2. TypeOK'
    BY <2>1, TypeStep DEF TunnelType
  <2>3. \A e \in Entry : Session(e)' => Session(e) /\ rd'[e].base = rd[e].base /\ rd'[e].counter = rd[e].counter
    BY <2>1 DEF Session
  <2>4. NonceInv'
    BY <2>1, <2>3, NonceQuiet DEF TunnelType, TypeOK, RandomInv
  <2>5. /\ \A s \in seals' : ReadRandom(s.cr)
        /\ \A e \in Entry : Session(e)' => ReadRandom(rd'[e].base.cr)
    BY <2>1, <2>3 DEF RandomInv
  <2>6. /\ up' \in [Client -> Seq(Frame)] /\ down' \in [Client -> Seq(Answer)]
        /\ \A c \in Client : up'[c] \in Seq(Ready)
    BY <2>1 DEF TunnelType, ClientTypeOK, RandomInv
  <2>. QED  BY <2>1, <2>2, <2>4, <2>5, <2>6, ServerMove
<1>2. ASSUME NEW c \in Client, ClientStep(c)
      PROVE  TunnelType' /\ RandomInv'
  <2>1. CASE \E cyc \in BOOLEAN, e \in Works[c] \cap RO : StartRead(c, e, cyc)
    BY <2>1, StartStep DEF Entry
  <2>2. CASE \E cyc \in BOOLEAN, e \in Works[c] \cap (WO \ KeySet) : StartWrite(c, e, cyc)
    BY <2>2, StartStep DEF Entry
  <2>. QED  BY <1>2, <2>1, <2>2, ReadReplyStep, Write1Step, Write2Step, PollReadStep, PollReplyStep,
               PollWriteStep, GiveUpStep DEF ClientStep
<1>. QED  BY <1>1, <1>2, DropStep, ServerStepKeeps, ServerAlone DEF TunnelNext

\* The inductive invariant behind it: clients, server and frames in transit are
\* well formed, and every client random has one purpose (a read that only the
\* server seals under, or a write session of one client), when the verb runners
\* forget a session whose poll failed.
THEOREM TunnelInvariant ==
    ASSUME ~RetryPolls
    PROVE  TunnelSpec => [](TunnelType /\ RandomInv)
BY TunnelStarts, TunnelStepKeeps, PTL DEF TunnelSpec

\* fbsec_secure_write, fbsec_secure_poll_write, arm_read_response and
\* handle_read_poll together: no client and no server ever seals two different
\* frames under one key and nonce, with any number of clients, losses, late
\* replies, timeouts and server restarts, as long as a client forgets a session
\* whose poll failed (the run TunnelRetry shows the nonce reused when it does not).
THEOREM TunnelNoncesUnique ==
    ASSUME ~RetryPolls
    PROVE  TunnelSpec => []TunnelNonceUnique
<1>1. ASSUME TunnelType, RandomInv
      PROVE  TunnelNonceUnique
  <2>. SUFFICES ASSUME NEW s \in seals \cup cseals, NEW t \in seals \cup cseals,
                       s.cr = t.cr, s.sr = t.sr, s.ctr = t.ctr
                PROVE  s = t
    BY DEF TunnelNonceUnique
  <2>1. CASE s \in seals /\ t \in seals
    BY <1>1, <2>1 DEF RandomInv, NonceInv
  <2>2. CASE s \in cseals /\ t \in cseals
    BY <1>1, <2>2 DEF RandomInv
  <2>3. \A x \in seals, y \in cseals : x.cr # y.cr
    BY <1>1 DEF RandomInv, ReadRandom
  <2>. QED  BY <2>1, <2>2, <2>3
<1>. QED  BY <1>1, TunnelInvariant, PTL

-----------------------------------------------------------------------------
(* Clients and server in step: what is on its way between them, and how far *)
(* the two ends of a session are apart.                                     *)

\* The frames or answers of a queue.
Elems(s) == {s[i] : i \in 1..Len(s)}

\* Nothing, or at most the newest, is still waited for.
NoLive(s) == \A x \in Elems(s) : ~x.live
OnlyLast(s) == \A i \in 1..(Len(s) - 1) : ~s[i].live

\* What client c is doing, and the kind of its session.
InRead(c) == pc[c] \in {"read1", "read2"}
Sealing(c) == pc[c] \in {"write2", "pollw"}
ReadSession(c) == sess[c].in_use /\ sess[c].e \in RO
WriteSession(c) == sess[c].in_use /\ sess[c].e \in WO
WSession(e) == wr[e].in_use /\ wr[e].cyclic

\* The two queues of a client hold at most one frame it still waits for, the newest.
Wire(c) ==
    /\ OnlyLast(up[c]) /\ OnlyLast(down[c])
    /\ up[c] # <<>> => NoLive(down[c])
    /\ pc[c] = "idle" => NoLive(up[c]) /\ NoLive(down[c])

\* What a client is in the middle of.
Doing(c) ==
    /\ pc[c] \in {"read1", "read2", "write1", "write2"} => ~sess[c].in_use
    /\ pc[c] = "pollr" => ReadSession(c) /\ op[c].e = sess[c].e
    /\ pc[c] = "pollw" => WriteSession(c)
    /\ InRead(c) => ReadRandom(op[c].cr)
    /\ ReadSession(c) => ReadRandom(sess[c].base.cr)
    /\ Sealing(c) => op[c].box \in cseals /\ op[c].box.cli = c
    /\ pc[c] = "write2" => /\ op[c].box.cr = op[c].cr /\ op[c].box.ctr = 0
                           /\ op[c].box.kid = op[c].kid /\ op[c].box.e = op[c].e
    /\ pc[c] = "pollw" => /\ op[c].box.cr = sess[c].base.cr
                          /\ op[c].box.ctr = sess[c].counter + 1
    /\ WriteSession(c) => \A t \in cseals : t.cr = sess[c].base.cr =>
                              t.kid = sess[c].kid /\ t.e = sess[c].e

\* The request client c waits an answer to.
Asked(c, m) ==
    /\ pc[c] = "read1" => m.e = op[c].e /\ m.q = Bare("challenge", op[c].kid, op[c].cr)
    /\ pc[c] = "read2" => m.q.shape = "empty"
    /\ pc[c] = "write2" => m.e = op[c].e /\ m.q.shape = "write" /\ m.q.box = op[c].box
    /\ pc[c] = "pollr" => m.e = sess[c].e /\ m.q.shape = "byte"
    /\ pc[c] = "pollw" => m.e = sess[c].e /\ m.q.shape = "poll" /\ m.q.box = op[c].box

\* A frame of client c on its way to the server.
Tracked(c, m) ==
    /\ m.q.shape = "byte" => m.e \in RO
    /\ m.q.box = NoBox \/ (m.q.box \in cseals /\ m.q.box.cli = c)
    /\ sess[c].in_use => m.live
    /\ m.live => Asked(c, m)
    /\ Sealing(c) => IF m.live THEN op[c].box \notin applied ELSE m.q.box # op[c].box
    /\ InRead(c) /\ m.q.shape = "challenge" /\ m.q.cr = op[c].cr => m.live

\* No challenge on its way uses a random that belongs to client c's read.
Private(c) ==
    \A d \in Client : \A m \in Elems(up[d]) : m.q.shape = "challenge" =>
        /\ ReadSession(c) => m.q.cr # sess[c].base.cr
        /\ InRead(c) /\ d # c => m.q.cr # op[c].cr

\* An answer on its way to client c.
Answered(c, a) ==
    /\ a.r.box = NoBox \/ a.r.box \in seals
    /\ a.live /\ Sealing(c) => (a.r.abort = "NONE" <=> op[c].box \in applied)
    /\ a.live /\ pc[c] = "pollw" /\ a.r.abort = "NONE" =>
          \A e \in Entry : WSession(e) /\ wr[e].base.cr = sess[c].base.cr =>
                               wr[e].counter = sess[c].counter + 1

\* One poll may have been served that the client has no answer to yet.
Ahead(c) == IF pc[c] \in {"pollr", "pollw"} /\ up[c] = <<>> THEN 1 ELSE 0

\* The read slots and the sealed responses that belong to client c's read (first
\* two conjuncts) or read session are at its counter, and the value the next
\* response may carry is in the client's window.
ReadStep(c) ==
    /\ InRead(c) => \A e \in Entry : Session(e) /\ rd[e].base.cr = op[c].cr =>
          /\ rd[e].cli = c /\ rd[e].key_id = op[c].kid /\ e = op[c].e /\ rd[e].counter = 0
          /\ \A m \in Elems(up[c]) : m.q.shape # "byte"
    /\ InRead(c) => \A b \in seals : b.cr = op[c].cr =>
          b.ctr = 0 /\ (b.e = op[c].e => b.pt.w \in seen[c])
    /\ ReadSession(c) => \A e \in Entry : Session(e) /\ rd[e].base = sess[c].base =>
          /\ rd[e].cli = c /\ rd[e].key_id = sess[c].kid /\ e = sess[c].e
          /\ sess[c].counter <= rd[e].counter /\ rd[e].counter <= sess[c].counter + Ahead(c)
    /\ ReadSession(c) => \A b \in seals : b.cr = sess[c].base.cr /\ b.sr = sess[c].base.sr =>
          /\ b.ctr <= sess[c].counter + Ahead(c)
          /\ pc[c] = "pollr" /\ b.ctr = sess[c].counter + 1 /\ b.e = sess[c].e => b.pt.w \in seen[c]
    /\ pc[c] \in {"read1", "read2", "pollr"} => value[CellOf[op[c].e]] \in seen[c]

\* The write slots that belong to client c's write or write session.
WriteStep(c) ==
    /\ pc[c] = "write2" => \A e \in Entry : WSession(e) /\ wr[e].base.cr = op[c].cr => wr[e].counter = 0
    /\ WriteSession(c) => \A e \in Entry : WSession(e) /\ wr[e].base.cr = sess[c].base.cr =>
          sess[c].counter <= wr[e].counter /\ wr[e].counter <= sess[c].counter + Ahead(c)

\* Applied frames, prepared responses and write sessions come from sealed frames.
SlotsInv ==
    /\ applied \subseteq cseals
    /\ \A e \in Entry : rd[e].prepared = NoBox \/ rd[e].prepared \in seals
    /\ \A e \in Entry : WSession(e) => \E t \in cseals :
          t.cr = wr[e].base.cr /\ t.cli = wr[e].cli /\ t.kid = wr[e].key_id /\ t.e = e

\* The transit invariant.
TransitInv ==
    /\ seen \in [Client -> SUBSET Word]
    /\ SlotsInv
    /\ \A c \in Client : Wire(c) /\ Doing(c) /\ Private(c) /\ ReadStep(c) /\ WriteStep(c)
    /\ \A c \in Client : \A m \in Elems(up[c]) : Tracked(c, m)
    /\ \A c \in Client : \A a \in Elems(down[c]) : Answered(c, a)

-----------------------------------------------------------------------------
(* Queues. *)

\* What the head, the tail and one more element do to a queue.
LEMMA ElemsEnds ==
    ASSUME NEW S, NEW s \in Seq(S)
    PROVE  /\ \A x : Elems(Append(s, x)) = Elems(s) \cup {x}
           /\ s # <<>> => Head(s) \in Elems(s) /\ Elems(Tail(s)) \subseteq Elems(s)
           /\ s = <<>> <=> Elems(s) = {}
           /\ Elems(s) \subseteq S
<1>1. Len(s) \in Nat /\ \A i \in 1..Len(s) : s[i] \in S
  BY LenProperties
<1>2. ASSUME NEW x
      PROVE  Elems(Append(s, x)) = Elems(s) \cup {x}
  <2>1. s \in Seq(S \cup {x}) /\ x \in S \cup {x}
    BY SeqMonotonic
  <2>2. /\ Len(Append(s, x)) = Len(s) + 1 /\ Append(s, x)[Len(s) + 1] = x
        /\ \A i \in 1..Len(s) : Append(s, x)[i] = s[i]
    BY <2>1, AppendProperties
  <2>. QED  BY <1>1, <2>2 DEF Elems
<1>3. ASSUME s # <<>>
      PROVE  Head(s) \in Elems(s) /\ Elems(Tail(s)) \subseteq Elems(s)
  <2>1. /\ Len(s) >= 1 /\ Head(s) = s[1] /\ Len(Tail(s)) = Len(s) - 1
        /\ \A i \in 1..Len(Tail(s)) : Tail(s)[i] = s[i + 1]
    BY <1>3, HeadTailProperties, EmptySeq
  <2>. QED  BY <1>1, <2>1 DEF Elems
<1>4. s = <<>> <=> Elems(s) = {}
  <2>1. s = <<>> <=> Len(s) = 0
    BY EmptySeq
  <2>2. Len(s) # 0 => s[1] \in Elems(s)
    BY <1>1 DEF Elems
  <2>3. Len(s) = 0 => Elems(s) = {}
    BY DEF Elems
  <2>. QED  BY <2>1, <2>2, <2>3
<1>5. Elems(s) \subseteq S
  BY <1>1 DEF Elems
<1>. QED  BY <1>2, <1>3, <1>4, <1>5

\* The same for what is still waited for.
LEMMA LiveEnds ==
    ASSUME NEW S, NEW s \in Seq(S)
    PROVE  /\ NoLive(s) => OnlyLast(s) /\ \A x : OnlyLast(Append(s, x))
           /\ s # <<>> /\ OnlyLast(s) => OnlyLast(Tail(s)) /\ (Head(s).live => Tail(s) = <<>>)
           /\ s # <<>> /\ NoLive(s) => NoLive(Tail(s))
<1>1. Len(s) \in Nat
  BY LenProperties
<1>2. ASSUME NoLive(s)
      PROVE  OnlyLast(s) /\ \A x : OnlyLast(Append(s, x))
  <2>1. \A i \in 1..Len(s) : ~s[i].live
    BY <1>2 DEF NoLive, Elems
  <2>2. ASSUME NEW x
        PROVE  OnlyLast(Append(s, x))
    <3>1. s \in Seq(S \cup {x}) /\ x \in S \cup {x}
      BY SeqMonotonic
    <3>2. Len(Append(s, x)) = Len(s) + 1 /\ \A i \in 1..Len(s) : Append(s, x)[i] = s[i]
      BY <3>1, AppendProperties
    <3>. QED  BY <1>1, <2>1, <3>2 DEF OnlyLast
  <2>. QED  BY <1>1, <2>1, <2>2 DEF OnlyLast
<1>3. ASSUME s # <<>>, OnlyLast(s)
      PROVE  OnlyLast(Tail(s)) /\ (Head(s).live => Tail(s) = <<>>)
  <2>1. /\ Len(s) >= 1 /\ Head(s) = s[1] /\ Len(Tail(s)) = Len(s) - 1 /\ Tail(s) \in Seq(S)
        /\ \A i \in 1..Len(Tail(s)) : Tail(s)[i] = s[i + 1]
    BY <1>3, HeadTailProperties, EmptySeq
  <2>2. OnlyLast(Tail(s))
    BY <1>1, <1>3, <2>1 DEF OnlyLast
  <2>3. ASSUME Head(s).live
        PROVE  Tail(s) = <<>>
    <3>1. ~(1 \in 1..(Len(s) - 1))
      BY <1>3, <2>1, <2>3 DEF OnlyLast
    <3>2. Len(Tail(s)) = 0
      BY <1>1, <2>1, <3>1
    <3>. QED  BY <2>1, <3>2, EmptySeq
  <2>. QED  BY <2>2, <2>3
<1>. QED  BY <1>2, <1>3, ElemsEnds DEF NoLive

\* What is left of a queue the client gave up on.
LEMMA FramesAbandoned ==
    ASSUME NEW s \in Seq(Frame)
    PROVE  \A y \in Elems(Abandon(s)) : ~y.live /\ \E x \in Elems(s) : y.e = x.e /\ y.q = x.q
<1>1. Len(s) \in Nat /\ DOMAIN s = 1..Len(s) /\ \A i \in 1..Len(s) : s[i] \in Frame
  BY LenProperties
<1>2. Abandon(s) = [i \in 1..Len(s) |-> [s[i] EXCEPT !.live = FALSE]]
  BY <1>1 DEF Abandon
<1>3. Len(Abandon(s)) = Len(s)
  BY <1>1, <1>2
<1>4. ASSUME NEW y \in Elems(Abandon(s))
      PROVE  ~y.live /\ \E x \in Elems(s) : y.e = x.e /\ y.q = x.q
  <2>1. PICK i \in 1..Len(s) : y = [s[i] EXCEPT !.live = FALSE]
    BY <1>1, <1>2, <1>3 DEF Elems
  <2>2. PICK x \in Frame : x = s[i]
    BY <1>1
  <2>3. ~y.live /\ y.e = x.e /\ y.q = x.q
    BY <2>1, <2>2 DEF Frame
  <2>. QED  BY <1>1, <2>2, <2>3 DEF Elems
<1>. QED  BY <1>4

\* The answers of a queue given up on.
LEMMA AnswersAbandoned ==
    ASSUME NEW s \in Seq(Answer)
    PROVE  \A y \in Elems(Abandon(s)) : ~y.live /\ \E x \in Elems(s) : y.r = x.r
<1>1. Len(s) \in Nat /\ DOMAIN s = 1..Len(s) /\ \A i \in 1..Len(s) : s[i] \in Answer
  BY LenProperties
<1>2. Abandon(s) = [i \in 1..Len(s) |-> [s[i] EXCEPT !.live = FALSE]]
  BY <1>1 DEF Abandon
<1>3. Len(Abandon(s)) = Len(s)
  BY <1>1, <1>2
<1>4. ASSUME NEW y \in Elems(Abandon(s))
      PROVE  ~y.live /\ \E x \in Elems(s) : y.r = x.r
  <2>1. PICK i \in 1..Len(s) : y = [s[i] EXCEPT !.live = FALSE]
    BY <1>1, <1>2, <1>3 DEF Elems
  <2>2. PICK x \in Answer : x = s[i]
    BY <1>1
  <2>3. ~y.live /\ y.r = x.r
    BY <2>1, <2>2 DEF Answer
  <2>. QED  BY <1>1, <2>2, <2>3 DEF Elems
<1>. QED  BY <1>4

-----------------------------------------------------------------------------
(* What one request does to the slots and to the sealed and applied frames. *)

\* The read session of entry e after a request: as it was, polled once, or armed anew.
SameRead(e) ==
    /\ Session(e) /\ rd'[e].base = rd[e].base /\ rd'[e].cli = rd[e].cli
    /\ rd'[e].key_id = rd[e].key_id /\ rd'[e].counter = rd[e].counter

PolledRead(c, e, q) ==
    /\ q.shape = "byte" /\ Session(e) /\ rd[e].cli = c
    /\ rd'[e].base = rd[e].base /\ rd'[e].cli = c
    /\ rd'[e].key_id = rd[e].key_id /\ rd'[e].counter = rd[e].counter + 1

ArmedRead(c, e, q) ==
    /\ q.shape = "challenge" /\ rd'[e].base.cr = q.cr /\ rd'[e].cli = c
    /\ rd'[e].key_id = q.b /\ rd'[e].counter = 0

\* A frame the server seals while it serves request q of client c on entry e.
SealedFor(c, e, q, b) ==
    /\ b.e = e /\ b.pt.w = value[CellOf[e]]
    /\ \/ q.shape = "challenge" /\ b.cr = q.cr /\ b.ctr = 0
       \/ /\ q.shape = "byte" /\ Session(e) /\ rd[e].cli = c
          /\ b.cr = rd[e].base.cr /\ b.sr = rd[e].base.sr /\ b.ctr = rd[e].counter + 1

\* What a request of client c on entry e does to read slots and sealed frames.
ReadsServed(c, e, q) ==
    /\ \A x \in Entry : Session(x)' => SameRead(x) \/ (x = e /\ (PolledRead(c, e, q) \/ ArmedRead(c, e, q)))
    /\ \A x \in Entry : rd'[x].prepared \in {NoBox, rd[x].prepared} \cup seals'
    /\ seals \subseteq seals'
    /\ \A b \in seals' : b \in seals \/ SealedFor(c, e, q, b)

\* The write session of entry e after a request: as it was, polled once, or opened.
SameWrite(e) ==
    /\ WSession(e) /\ wr'[e].base = wr[e].base /\ wr'[e].cli = wr[e].cli
    /\ wr'[e].key_id = wr[e].key_id /\ wr'[e].counter = wr[e].counter

PolledWrite(c, e, q) ==
    /\ q.shape = "poll" /\ WSession(e) /\ wr'[e].base = wr[e].base /\ wr'[e].cli = wr[e].cli
    /\ wr'[e].key_id = wr[e].key_id /\ wr'[e].counter = wr[e].counter + 1
    /\ q.box # NoBox /\ q.box.cr = wr[e].base.cr /\ q.box.ctr = wr[e].counter + 1

OpenedWrite(c, e, q) ==
    /\ q.shape = "write" /\ wr'[e].base.cr = q.box.cr /\ wr'[e].cli = q.box.cli
    /\ wr'[e].key_id = q.box.kid /\ wr'[e].counter = 0
    /\ q.box # NoBox /\ q.box.e = e /\ q.box.ctr = 0

\* What a request of client c on entry e does to write slots and applied frames.
WritesServed(c, e, q) ==
    /\ \A x \in Entry : WSession(x)' => \/ SameWrite(x)
                                        \/ x = e /\ (PolledWrite(c, e, q) \/ OpenedWrite(c, e, q))
                                        \/ x = e /\ e \in WO /\ q.shape = "byte"
    /\ applied \subseteq applied'
    /\ \A b \in applied' : b \in applied \/ (b = q.box /\ q.box # NoBox)

\* HandleReadPoll, ArmReadResponse and DeliverRead, one by one.
LEMMA ReadPollServed ==
    ASSUME TypeOK, NEW c \in Client, NEW e \in Entry, NEW q \in Request, NEW f \in Fault,
           Route(e, q) = "read_poll", HandleReadPoll(c, e, q, f)
    PROVE  ReadsServed(c, e, q)
<1>1. rd \in [Entry -> ReadSlot] /\ rd[e] \in ReadSlot
  BY DEF TypeOK
<1>2. q.shape = "byte"
  BY DEF Route
<1>3. ASSUME NEW x, rd' = [rd EXCEPT ![e] = x], x \in {rd[e], ZeroReadSlot}, seals' = seals
      PROVE  ReadsServed(c, e, q)
  <2>1. rd'[e] = x /\ \A d \in Entry \ {e} : rd'[d] = rd[d]
    BY <1>1, <1>3
  <2>. QED  BY <1>3, <2>1 DEF ReadsServed, Session, SameRead, ZeroReadSlot
<1>4. CASE rd' = rd /\ seals' = seals
  BY <1>4 DEF ReadsServed, Session, SameRead
<1>5. CASE /\ ReadPollAbort(c, e, q, f) = "NONE" /\ seals' = seals \cup {ReadPollBox(e)}
           /\ rd' = [rd EXCEPT ![e].counter = @ + 1, ![e].armed_at = now]
  <2>1. Session(e) /\ rd[e].cli = c
    BY <1>5 DEF ReadPollAbort, SessionAbort, Session
  <2>2. /\ \A d \in Entry \ {e} : rd'[d] = rd[d]
        /\ rd'[e].base = rd[e].base /\ rd'[e].cli = rd[e].cli /\ rd'[e].key_id = rd[e].key_id
        /\ rd'[e].counter = rd[e].counter + 1 /\ rd'[e].prepared = rd[e].prepared
    BY <1>1, <1>5 DEF ReadSlot
  <2>3. SealedFor(c, e, q, ReadPollBox(e))
    BY <1>2, <2>1 DEF SealedFor, ReadPollBox, Seal, ReadPlain
  <2>4. PolledRead(c, e, q)
    BY <1>2, <2>1, <2>2 DEF PolledRead
  <2>5. \A x \in Entry \ {e} : Session(x)' => SameRead(x)
    BY <2>2 DEF Session, SameRead
  <2>. QED  BY <1>5, <2>2, <2>3, <2>4, <2>5 DEF ReadsServed
<1>. QED  BY <1>3, <1>4, <1>5 DEF HandleReadPoll

LEMMA ArmReadServed ==
    ASSUME TypeOK, NEW c \in Client, NEW e \in Entry, NEW q \in Request, NEW f \in Fault,
           Route(e, q) = "arm_read", ArmReadResponse(c, e, q, f)
    PROVE  ReadsServed(c, e, q)
<1>1. rd \in [Entry -> ReadSlot] /\ rd[e] \in ReadSlot
  BY DEF TypeOK
<1>2. q.shape = "challenge"
  BY DEF Route
<1>3. CASE rd' = [rd EXCEPT ![e] = ZeroReadSlot] /\ seals' = seals
  <2>1. rd'[e] = ZeroReadSlot /\ \A d \in Entry \ {e} : rd'[d] = rd[d]
    BY <1>1, <1>3
  <2>. QED  BY <1>3, <2>1 DEF ReadsServed, Session, SameRead, ZeroReadSlot
<1>4. CASE rd' = rd /\ seals' = seals
  BY <1>4 DEF ReadsServed, Session, SameRead
<1>5. PICK x : x = [in_use |-> TRUE, cyclic |-> KidCyclic(q.b), cli |-> c,
                    armed_at |-> now, prepared |-> ArmReadBox(c, e, q),
                    key_id |-> IF KidCyclic(q.b) THEN q.b ELSE 0,
                    base |-> IF KidCyclic(q.b) THEN [cr |-> q.cr, sr |-> srand + 1] ELSE ZeroBase,
                    counter |-> 0]
  OBVIOUS
<1>6. CASE seals' = seals \cup {ArmReadBox(c, e, q)} /\ rd' = [rd EXCEPT ![e] = x]
  <2>1. rd'[e] = x /\ \A d \in Entry \ {e} : rd'[d] = rd[d]
    BY <1>1, <1>6
  <2>2. x.cyclic => x.base.cr = q.cr /\ x.key_id = q.b
    BY <1>5
  <2>3. x.cli = c /\ x.counter = 0 /\ x.prepared = ArmReadBox(c, e, q)
    BY <1>5
  <2>4. Session(e)' => ArmedRead(c, e, q)
    BY <1>2, <2>1, <2>2, <2>3 DEF Session, ArmedRead
  <2>5. \A d \in Entry \ {e} : Session(d)' => SameRead(d)
    BY <2>1 DEF Session, SameRead
  <2>6. SealedFor(c, e, q, ArmReadBox(c, e, q))
    BY <1>2 DEF SealedFor, ArmReadBox, Seal, ReadPlain
  <2>. QED  BY <1>6, <2>1, <2>3, <2>4, <2>5, <2>6 DEF ReadsServed
<1>. QED  BY <1>3, <1>4, <1>5, <1>6 DEF ArmReadResponse

LEMMA DeliverServed ==
    ASSUME TypeOK, NEW c \in Client, NEW e \in Entry, NEW q \in Request, DeliverRead(e)
    PROVE  ReadsServed(c, e, q)
<1>1. rd \in [Entry -> ReadSlot] /\ rd[e] \in ReadSlot
  BY DEF TypeOK
<1>2. CASE rd' = [rd EXCEPT ![e] = ZeroReadSlot]
  <2>1. rd'[e] = ZeroReadSlot /\ \A d \in Entry \ {e} : rd'[d] = rd[d]
    BY <1>1, <1>2
  <2>2. seals' = seals
    BY DEF DeliverRead
  <2>. QED  BY <1>2, <2>1, <2>2 DEF ReadsServed, Session, SameRead, ZeroReadSlot
<1>3. CASE rd' = [rd EXCEPT ![e].prepared = NoBox, ![e].armed_at = now]
  <2>1. /\ \A d \in Entry \ {e} : rd'[d] = rd[d]
        /\ rd'[e].base = rd[e].base /\ rd'[e].cli = rd[e].cli /\ rd'[e].key_id = rd[e].key_id
        /\ rd'[e].counter = rd[e].counter /\ rd'[e].prepared = NoBox
        /\ rd'[e].in_use = rd[e].in_use /\ rd'[e].cyclic = rd[e].cyclic
    BY <1>1, <1>3 DEF ReadSlot
  <2>2. \A x \in Entry : Session(x)' => SameRead(x)
    BY <2>1 DEF Session, SameRead
  <2>. QED  BY <2>1, <2>2 DEF ReadsServed, DeliverRead
<1>. QED  BY <1>2, <1>3 DEF DeliverRead

\* Any request at all.
LEMMA ReadsAfter ==
    ASSUME TypeOK, NEW c \in Client, NEW e \in Entry, NEW q \in Request, NEW f \in Fault,
           SodRequest(c, e, q, f)
    PROVE  ReadsServed(c, e, q)
<1>1. CASE UNCHANGED <<rd, seals>>
  BY <1>1 DEF ReadsServed, Session, SameRead
<1>2. CASE HandleWritePoll(c, e, q) \/ ArmWriteChallenge(c, e, q, f) \/ VerifyAndApplyWrite(e, q)
  BY <1>1, <1>2 DEF HandleWritePoll, ArmWriteChallenge, VerifyAndApplyWrite
<1>. QED  BY <1>1, <1>2, ReadPollServed, ArmReadServed, DeliverServed DEF SodRequest, Dispatch, core

\* HandleWritePoll and VerifyAndApplyWrite.
LEMMA WritePollServed ==
    ASSUME TypeOK, NEW c \in Client, NEW e \in Entry, NEW q \in Request,
           Route(e, q) = "write_poll", HandleWritePoll(c, e, q)
    PROVE  /\ WritesServed(c, e, q)
           /\ IF WritePollAbort(c, e, q) = "NONE" /\ WriteAfterAbort(e, q.box.pt, lastKid) = "NONE"
              THEN q.box \in applied' /\ PolledWrite(c, e, q) ELSE applied' = applied
<1>1. wr \in [Entry -> WriteSlot] /\ wr[e] \in WriteSlot
  BY DEF TypeOK
<1>2. q.shape = "poll"
  BY DEF Route
<1>3. CASE WritePollAbort(c, e, q) # "NONE"
  <2>1. PICK x : x = IF PollTearsDown(wr[e], c) THEN ZeroWriteSlot ELSE wr[e]
    OBVIOUS
  <2>2. wr' = [wr EXCEPT ![e] = x] /\ applied' = applied
    BY <1>3, <2>1 DEF HandleWritePoll
  <2>3. wr'[e] = x /\ \A d \in Entry \ {e} : wr'[d] = wr[d]
    BY <1>1, <2>2
  <2>4. \A d \in Entry : WSession(d)' => SameWrite(d)
    BY <2>1, <2>3 DEF WSession, SameWrite, ZeroWriteSlot
  <2>. QED  BY <1>3, <2>2, <2>4 DEF WritesServed
<1>4. CASE WritePollAbort(c, e, q) = "NONE" /\ WriteAfterAbort(e, q.box.pt, lastKid) # "NONE"
  BY <1>4 DEF HandleWritePoll, WritesServed, WSession, SameWrite
<1>5. CASE WritePollAbort(c, e, q) = "NONE" /\ WriteAfterAbort(e, q.box.pt, lastKid) = "NONE"
  <2>1. WSession(e) /\ WritePollOpens(e, q)
    BY <1>5 DEF WritePollAbort, SessionAbort, WSession
  <2>2. q.box # NoBox /\ q.box.cr = wr[e].base.cr /\ q.box.ctr = wr[e].counter + 1
    BY <2>1 DEF WritePollOpens, Opens, Seal
  <2>3. wr' = [wr EXCEPT ![e].counter = @ + 1, ![e].armed_at = now] /\ applied' = applied \cup {q.box}
    BY <1>5 DEF HandleWritePoll, WriteAfter
  <2>4. /\ \A d \in Entry \ {e} : wr'[d] = wr[d]
        /\ wr'[e].base = wr[e].base /\ wr'[e].cli = wr[e].cli /\ wr'[e].key_id = wr[e].key_id
        /\ wr'[e].counter = wr[e].counter + 1
    BY <1>1, <2>3 DEF WriteSlot
  <2>5. PolledWrite(c, e, q)
    BY <1>2, <2>1, <2>2, <2>4 DEF PolledWrite
  <2>6. \A d \in Entry \ {e} : WSession(d)' => SameWrite(d)
    BY <2>4 DEF WSession, SameWrite
  <2>. QED  BY <1>5, <2>2, <2>3, <2>5, <2>6 DEF WritesServed
<1>. QED  BY <1>3, <1>4, <1>5

LEMMA VerifyServed ==
    ASSUME TypeOK, NEW c \in Client, NEW e \in Entry, NEW q \in Request, VerifyAndApplyWrite(e, q)
    PROVE  /\ WritesServed(c, e, q)
           /\ IF VerifyAbort(e, q) = "NONE" /\ WriteAfterAbort(e, q.box.pt, KidBase(q.b)) = "NONE"
              THEN q.box \in applied' ELSE applied' = applied
<1>1. wr \in [Entry -> WriteSlot] /\ wr[e] \in WriteSlot
  BY DEF TypeOK
<1>2. ASSUME wr' = [wr EXCEPT ![e] = ZeroWriteSlot]
      PROVE  \A d \in Entry : WSession(d)' => SameWrite(d)
  <2>1. wr'[e] = ZeroWriteSlot /\ \A d \in Entry \ {e} : wr'[d] = wr[d]
    BY <1>1, <1>2
  <2>. QED  BY <2>1 DEF WSession, SameWrite, ZeroWriteSlot
<1>3. CASE VerifyAbort(e, q) # "NONE" \/ WriteAfterAbort(e, q.box.pt, KidBase(q.b)) # "NONE"
  <2>1. wr' = [wr EXCEPT ![e] = ZeroWriteSlot] /\ applied' = applied
    BY <1>3 DEF VerifyAndApplyWrite
  <2>. QED  BY <1>2, <1>3, <2>1 DEF WritesServed
<1>4. CASE VerifyAbort(e, q) = "NONE" /\ WriteAfterAbort(e, q.box.pt, KidBase(q.b)) = "NONE"
  <2>1. q.shape = "write" /\ WriteOpens(e, q)
    BY <1>4 DEF VerifyAbort
  <2>2. /\ q.box # NoBox /\ q.box.cr = q.cr /\ q.box.cli = wr[e].cli /\ q.box.e = e /\ q.box.ctr = 0
        /\ q.box.kid = q.b
    BY <2>1 DEF WriteOpens, Opens, Seal
  <2>3. /\ applied' = applied \cup {q.box}
        /\ wr' = IF KidCyclic(q.b)
                         THEN [wr EXCEPT ![e].cyclic = TRUE, ![e].key_id = q.b,
                                 ![e].base = [cr |-> q.cr, sr |-> wr[e].server_random],
                                 ![e].counter = 0, ![e].armed_at = now]
                         ELSE [wr EXCEPT ![e] = ZeroWriteSlot]
    BY <1>4 DEF VerifyAndApplyWrite, WriteAfter
  <2>4. CASE KidCyclic(q.b)
    <3>1. PICK x : x = [wr[e] EXCEPT !.cyclic = TRUE, !.key_id = q.b,
                          !.base = [cr |-> q.cr, sr |-> wr[e].server_random],
                          !.counter = 0, !.armed_at = now]
      OBVIOUS
    <3>2. wr'[e] = x /\ \A d \in Entry \ {e} : wr'[d] = wr[d]
      BY <1>1, <2>3, <2>4, <3>1
    <3>3. x.key_id = q.b /\ x.base.cr = q.cr /\ x.counter = 0 /\ x.cli = wr[e].cli
      BY <1>1, <3>1 DEF WriteSlot
    <3>4. OpenedWrite(c, e, q)
      BY <2>1, <2>2, <3>2, <3>3 DEF OpenedWrite
    <3>5. \A d \in Entry \ {e} : WSession(d)' => SameWrite(d)
      BY <3>2 DEF WSession, SameWrite
    <3>. QED  BY <1>4, <2>2, <2>3, <3>4, <3>5 DEF WritesServed
  <2>5. CASE ~KidCyclic(q.b)
    BY <1>2, <1>4, <2>2, <2>3, <2>5 DEF WritesServed
  <2>. QED  BY <2>4, <2>5
<1>. QED  BY <1>3, <1>4

\* Any request at all.
LEMMA WritesAfter ==
    ASSUME TypeOK, NEW c \in Client, NEW e \in Entry, NEW q \in Request, NEW f \in Fault,
           SodRequest(c, e, q, f)
    PROVE  WritesServed(c, e, q)
<1>1. CASE UNCHANGED <<wr, applied>>
  BY <1>1 DEF WritesServed, WSession, SameWrite
<1>2. CASE HandleReadPoll(c, e, q, f) \/ ArmReadResponse(c, e, q, f) \/ DeliverRead(e)
  BY <1>1, <1>2 DEF HandleReadPoll, ArmReadResponse, DeliverRead
<1>3. CASE Route(e, q) = "arm_write" /\ ArmWriteChallenge(c, e, q, f)
  <2>1. wr \in [Entry -> WriteSlot] /\ e \in WO
    BY <1>3 DEF TypeOK, Route
  <2>2. PICK x : x = [in_use |-> TRUE, cyclic |-> q.shape = "byte", cli |-> c, armed_at |-> now,
                      key_id |-> IF q.shape = "byte" THEN q.b ELSE 0,
                      server_random |-> srand + 1, base |-> ZeroBase, counter |-> 0]
    OBVIOUS
  <2>3. (wr' = wr \/ wr' = [wr EXCEPT ![e] = x]) /\ applied' = applied
    BY <1>3, <2>2 DEF ArmWriteChallenge
  <2>4. CASE wr' = [wr EXCEPT ![e] = x]
    <3>1. wr'[e] = x /\ \A d \in Entry \ {e} : wr'[d] = wr[d]
      BY <2>1, <2>4
    <3>2. x.cyclic => q.shape = "byte"
      BY <2>2
    <3>. QED  BY <2>1, <2>3, <3>1, <3>2 DEF WritesServed, WSession, SameWrite
  <2>. QED  BY <1>1, <2>3, <2>4
<1>. QED  BY <1>1, <1>2, <1>3, WritePollServed, VerifyServed DEF SodRequest, Dispatch, core

\* The body the server answers with is one it has sealed.
LEMMA ReplyBoxes ==
    ASSUME TypeOK, NEW c \in Client, NEW e \in Entry, NEW q \in Request, NEW f \in Fault,
           SodRequest(c, e, q, f), rd[e].prepared = NoBox \/ rd[e].prepared \in seals
    PROVE  DispatchReply(c, e, q, f).box = NoBox \/ DispatchReply(c, e, q, f).box \in seals'
<1>1. seals \subseteq seals'
  BY ReadsAfter DEF ReadsServed
<1>2. CASE Route(e, q) = "read_poll" /\ DispatchAbort(c, e, q, f) = "NONE"
  <2>1. ReadPollAbort(c, e, q, f) = "NONE"
    BY <1>2 DEF DispatchAbort
  <2>2. HandleReadPoll(c, e, q, f)
    BY <1>2 DEF SodRequest, Dispatch
  <2>3. ReadPollBox(e) \in seals'
    BY <2>1, <2>2 DEF HandleReadPoll
  <2>4. DispatchReply(c, e, q, f).box = ReadPollBox(e)
    BY <1>2 DEF DispatchReply
  <2>. QED  BY <2>3, <2>4
<1>3. CASE Route(e, q) = "deliver"
  <2>1. DispatchReply(c, e, q, f).box = rd[e].prepared
    BY <1>3 DEF DispatchReply
  <2>. QED  BY <1>1, <2>1
<1>4. CASE Route(e, q) # "deliver" /\ ~(Route(e, q) = "read_poll" /\ DispatchAbort(c, e, q, f) = "NONE")
  BY <1>4 DEF DispatchReply
<1>. QED  BY <1>2, <1>3, <1>4

\* The answer to a sealed write says whether its frame was applied.
LEMMA AckServed ==
    ASSUME TypeOK, NEW c \in Client, NEW e \in WO, NEW q \in Request, NEW f \in Fault,
           SodRequest(c, e, q, f), q.shape \in {"write", "poll"}
    PROVE  IF DispatchReply(c, e, q, f).abort = "NONE"
           THEN q.box \in applied' /\ (q.shape = "poll" => PolledWrite(c, e, q))
           ELSE applied' = applied
<1>1. e \in Entry /\ e \notin RO
  BY TunnelConstants DEF Entry
<1>2. DispatchReply(c, e, q, f).abort = DispatchAbort(c, e, q, f)
  BY DEF DispatchReply
<1>3. Route(e, q) \in {"write", "write_poll"}
  BY <1>1 DEF Route
<1>4. CASE Route(e, q) = "write"
  <2>1. VerifyAndApplyWrite(e, q)
    BY <1>4 DEF SodRequest, Dispatch
  <2>2. DispatchAbort(c, e, q, f) = IF VerifyAbort(e, q) # "NONE" THEN VerifyAbort(e, q)
                                    ELSE WriteAfterAbort(e, q.box.pt, KidBase(q.b))
    BY <1>4 DEF DispatchAbort
  <2>3. q.shape = "poll" => VerifyAbort(e, q) # "NONE"
    BY DEF VerifyAbort
  <2>. QED  BY <1>1, <1>2, <2>1, <2>2, <2>3, VerifyServed
<1>5. CASE Route(e, q) = "write_poll"
  <2>1. HandleWritePoll(c, e, q)
    BY <1>5 DEF SodRequest, Dispatch
  <2>2. DispatchAbort(c, e, q, f) = IF WritePollAbort(c, e, q) # "NONE" THEN WritePollAbort(c, e, q)
                                    ELSE WriteAfterAbort(e, q.box.pt, lastKid)
    BY <1>5 DEF DispatchAbort
  <2>. QED  BY <1>1, <1>2, <1>5, <2>1, <2>2, WritePollServed
<1>. QED  BY <1>3, <1>4, <1>5

-----------------------------------------------------------------------------
(* The transit invariant across a request that is served. *)

\* The server took frame m of client c and answered a.
Serves(c, m, a) ==
    /\ up[c] # <<>> /\ m = Head(up[c]) /\ a.live = m.live
    /\ up' = [up EXCEPT ![c] = Tail(@)] /\ down' = [down EXCEPT ![c] = Append(@, a)]
    /\ UNCHANGED <<pc, op, sess, crand, cseals>>
    /\ ReadsServed(c, m.e, m.q) /\ WritesServed(c, m.e, m.q)
    /\ a.r.box = NoBox \/ a.r.box \in seals'
    /\ m.e \in WO /\ m.q.shape \in {"write", "poll"} =>
          IF a.r.abort = "NONE"
          THEN m.q.box \in applied' /\ (m.q.shape = "poll" => PolledWrite(c, m.e, m.q))
          ELSE applied' = applied
    /\ \A d \in Client : seen[d] \subseteq seen'[d]
    /\ \A d \in Client : pc[d] \in {"read1", "read2", "pollr"} => value'[CellOf[op[d].e]] \in seen'[d]

\* The two queues of the client that is served.
LEMMA ServeHead ==
    ASSUME TunnelType, RandomInv, TransitInv, NEW c \in Client, NEW m, NEW a, Serves(c, m, a)
    PROVE  /\ m \in Elems(up[c]) /\ Tracked(c, m) /\ m \in Frame
           /\ \A d \in Client : Elems(up'[d]) \subseteq Elems(up[d])
           /\ m.live => up'[c] = <<>>
           /\ \A x \in Elems(down[c]) : ~x.live
           /\ \A d \in Client \ {c} : up'[d] = up[d] /\ down'[d] = down[d]
           /\ Elems(down'[c]) = Elems(down[c]) \cup {a}
           /\ m.q.box # NoBox => m.q.box \in cseals /\ m.q.box.cli = c
<1>1. up[c] \in Seq(Frame) /\ down[c] \in Seq(Answer) /\ up[c] # <<>>
  BY DEF TunnelType, ClientTypeOK, Serves
<1>2. up'[c] = Tail(up[c]) /\ down'[c] = Append(down[c], a)
  BY DEF TunnelType, ClientTypeOK, Serves
<1>3. \A d \in Client \ {c} : up'[d] = up[d] /\ down'[d] = down[d]
  BY DEF TunnelType, ClientTypeOK, Serves
<1>4. /\ Head(up[c]) \in Elems(up[c]) /\ Elems(Tail(up[c])) \subseteq Elems(up[c])
      /\ Elems(up[c]) \subseteq Frame /\ Elems(Append(down[c], a)) = Elems(down[c]) \cup {a}
  BY <1>1, ElemsEnds
<1>5. m \in Elems(up[c])
  BY <1>4 DEF Serves
<1>6. Tracked(c, m)
  BY <1>5 DEF TransitInv
<1>7. Wire(c)
  BY DEF TransitInv
<1>8. m.live => Tail(up[c]) = <<>>
  BY <1>1, <1>7, LiveEnds DEF Wire, Serves
<1>9. \A x \in Elems(down[c]) : ~x.live
  BY <1>1, <1>7 DEF Wire, NoLive
<1>. QED  BY <1>2, <1>3, <1>4, <1>5, <1>6, <1>8, <1>9 DEF Tracked

\* The queue discipline across a request.
LEMMA ServedWire ==
    ASSUME TunnelType, RandomInv, TransitInv, NEW c \in Client, NEW m, NEW a, Serves(c, m, a)
    PROVE  \A d \in Client : Wire(d)'
<1>1. ASSUME NEW d \in Client, d # c
      PROVE  Wire(d)'
  <2>1. up'[d] = up[d] /\ down'[d] = down[d] /\ pc'[d] = pc[d]
    BY <1>1, ServeHead DEF Serves
  <2>. QED  BY <2>1 DEF TransitInv, Wire, OnlyLast, NoLive, Elems
<1>2. up[c] \in Seq(Frame) /\ down[c] \in Seq(Answer) /\ up[c] # <<>> /\ Wire(c)
  BY DEF TunnelType, ClientTypeOK, Serves, TransitInv
<1>3. NoLive(down[c]) /\ m = Head(up[c])
  BY <1>2 DEF Wire, Serves
<1>4. up'[c] = Tail(up[c]) /\ down'[c] = Append(down[c], a) /\ pc'[c] = pc[c] /\ a.live = m.live
  BY DEF TunnelType, ClientTypeOK, Serves
<1>5. OnlyLast(Tail(up[c])) /\ OnlyLast(Append(down[c], a))
  BY <1>2, <1>3, LiveEnds DEF Wire
<1>6. Tail(up[c]) # <<>> => ~a.live
  BY <1>2, <1>3, <1>4, LiveEnds DEF Wire
<1>7. Elems(Append(down[c], a)) = Elems(down[c]) \cup {a}
  BY <1>2, ElemsEnds
<1>8. ~a.live => NoLive(Append(down[c], a))
  BY <1>3, <1>7 DEF NoLive
<1>9. pc[c] = "idle" => NoLive(Tail(up[c])) /\ ~a.live
  BY <1>2, <1>3, <1>4, LiveEnds, ElemsEnds DEF Wire, NoLive
<1>10. Wire(c)'
  <2>1. OnlyLast(up[c])' /\ OnlyLast(down[c])'
    BY <1>4, <1>5 DEF OnlyLast
  <2>2. (up[c] # <<>>)' => NoLive(down[c])'
    BY <1>4, <1>6, <1>8 DEF NoLive, Elems
  <2>3. (pc[c] = "idle")' => NoLive(up[c])' /\ NoLive(down[c])'
    BY <1>4, <1>8, <1>9 DEF NoLive, Elems
  <2>. QED  BY <2>1, <2>2, <2>3 DEF Wire
<1>. QED  BY <1>1, <1>10

\* A frame of one client never bears on a random another client seals under.
LEMMA ForeignBox ==
    ASSUME TunnelType, RandomInv, TransitInv, NEW c \in Client, NEW m, NEW a, Serves(c, m, a),
           NEW d \in Client, d # c
    PROVE  /\ Sealing(d) => \A b \in applied' : b = op[d].box => b \in applied
           /\ m.q.box # NoBox /\ pc[d] = "write2" => m.q.box.cr # op[d].cr
           /\ m.q.box # NoBox /\ WriteSession(d) => m.q.box.cr # sess[d].base.cr
<1>1. m.q.box # NoBox => m.q.box \in cseals /\ m.q.box.cli = c
  BY ServeHead
<1>2. \A b \in applied' : b \in applied \/ (b = m.q.box /\ m.q.box # NoBox)
  BY DEF Serves, WritesServed
<1>3. Sealing(d) => op[d].box.cli = d
  BY DEF TransitInv, Doing
<1>4. Mine(d, pc[d], op[d], sess[d])
  BY DEF RandomInv
<1>5. pc[d] = "write2" => \A t \in cseals : t.cr = op[d].cr => t.cli = d
  BY <1>4 DEF Mine, Owned
<1>6. WriteSession(d) => \A t \in cseals : t.cr = sess[d].base.cr => t.cli = d
  BY <1>4 DEF Mine, Owned, WriteSession
<1>. QED  BY <1>1, <1>2, <1>3, <1>5, <1>6

\* The requests still on their way.
LEMMA ServedTracked ==
    ASSUME TunnelType, RandomInv, TransitInv, NEW c \in Client, NEW m, NEW a, Serves(c, m, a),
           NEW d \in Client, NEW n \in Elems(up'[d])
    PROVE  Tracked(d, n)'
<1>1. n \in Elems(up[d]) /\ Tracked(d, n)
  BY ServeHead DEF TransitInv
<1>2. ASSUME Sealing(d), n.live, op[d].box \in applied'
      PROVE  op[d].box \in applied
  <2>1. CASE d # c
    BY <1>2, <2>1, ForeignBox
  <2>2. CASE d = c
    <3>1. up'[c] # <<>>
      <4>1. Elems(<<>>) = {}
        BY DEF Elems
      <4>. QED  BY <2>2, <4>1
    <3>2. ~m.live /\ Tracked(c, m)
      BY <3>1, ServeHead
    <3>3. m.q.box # op[c].box
      BY <1>2, <2>2, <3>2 DEF Tracked
    <3>. QED  BY <1>2, <2>2, <3>3 DEF Serves, WritesServed
  <2>. QED  BY <2>1, <2>2
<1>. QED  BY <1>1, <1>2 DEF Tracked, Asked, Sealing, InRead, Serves

\* The answers on their way, the new one included.
LEMMA ServedAnswered ==
    ASSUME TunnelType, RandomInv, TransitInv, NEW c \in Client, NEW m, NEW a, Serves(c, m, a),
           NEW d \in Client, NEW n \in Elems(down'[d])
    PROVE  Answered(d, n)'
<1>1. seals \subseteq seals' /\ UNCHANGED <<pc, op, sess>>
  BY DEF Serves, ReadsServed
<1>2. CASE d # c
  <2>1. n \in Elems(down[d]) /\ Answered(d, n)
    BY <1>2, ServeHead DEF TransitInv
  <2>2. Sealing(d) => (op[d].box \in applied' <=> op[d].box \in applied)
    BY <1>2, ForeignBox DEF Serves, WritesServed
  <2>3. ASSUME n.live, pc[d] = "pollw", n.r.abort = "NONE", NEW e \in Entry, WSession(e)',
               wr'[e].base.cr = sess[d].base.cr
        PROVE  wr'[e].counter = sess[d].counter + 1
    <3>1. WriteSession(d)
      BY <2>3 DEF TransitInv, Doing
    <3>2. m.q.box # NoBox => m.q.box.cr # sess[d].base.cr
      BY <1>2, <3>1, ForeignBox
    <3>3. m.q.shape = "byte" => m.e \notin WO
      BY ServeHead, TunnelConstants DEF Tracked
    <3>4. SameWrite(e)
      BY <2>3, <3>2, <3>3 DEF Serves, WritesServed, PolledWrite, OpenedWrite
    <3>. QED  BY <2>1, <2>3, <3>4 DEF Answered, SameWrite
  <2>. QED  BY <1>1, <2>1, <2>2, <2>3 DEF Answered, Sealing
<1>3. CASE d = c /\ n \in Elems(down[c])
  <2>1. ~n.live /\ Answered(c, n)
    BY <1>3, ServeHead DEF TransitInv
  <2>. QED  BY <1>1, <1>3, <2>1 DEF Answered
<1>4. CASE d = c /\ n = a
  <2>1. a.r.box = NoBox \/ a.r.box \in seals'
    BY DEF Serves
  <2>2. ASSUME a.live, Sealing(c)
        PROVE  /\ op[c].box \notin applied /\ m.q.box = op[c].box /\ m.e \in WO
               /\ m.q.shape \in {"write", "poll"} /\ (pc[c] = "pollw" => m.q.shape = "poll")
    <3>1. m.live /\ Tracked(c, m)
      BY <2>2, ServeHead DEF Serves
    <3>2. pc[c] = "pollw" => sess[c].e \in WO
      BY DEF TransitInv, Doing, WriteSession
    <3>3. pc[c] = "write2" => op[c].e \in WO
      BY DEF TunnelType, ClientTypeOK
    <3>. QED  BY <2>2, <3>1, <3>2, <3>3 DEF Tracked, Asked, Sealing
  <2>3. a.live /\ Sealing(c) => (a.r.abort = "NONE" <=> op[c].box \in applied')
    BY <2>2 DEF Serves
  <2>4. ASSUME a.live, pc[c] = "pollw", a.r.abort = "NONE", NEW e \in Entry, WSession(e)',
               wr'[e].base.cr = sess[c].base.cr
        PROVE  wr'[e].counter = sess[c].counter + 1
    <3>1. Sealing(c)
      BY <2>4 DEF Sealing
    <3>2. PolledWrite(c, m.e, m.q) /\ m.q.box = op[c].box
      BY <2>2, <2>4, <3>1 DEF Serves
    <3>3. m.q.box.ctr = sess[c].counter + 1
      BY <2>4, <3>2 DEF TransitInv, Doing
    <3>4. CASE e = m.e
      BY <3>2, <3>3, <3>4 DEF PolledWrite
    <3>5. CASE e # m.e
      <4>1. SameWrite(e)
        BY <2>4, <3>5 DEF Serves, WritesServed
      <4>2. PICK t \in cseals : t.cr = wr[e].base.cr /\ t.e = e
        BY <4>1 DEF TransitInv, SlotsInv, SameWrite
      <4>3. t.e = sess[c].e
        BY <2>4, <4>1, <4>2 DEF TransitInv, Doing, SameWrite
      <4>4. m.e = sess[c].e
        <5>1. m.live /\ Tracked(c, m)
          BY <2>4, ServeHead DEF Serves
        <5>. QED  BY <2>4, <5>1 DEF Tracked, Asked
      <4>. QED  BY <3>5, <4>2, <4>3, <4>4
    <3>. QED  BY <3>4, <3>5
  <2>. QED  BY <1>1, <1>4, <2>1, <2>3, <2>4 DEF Answered, Sealing
<1>5. d = c => n \in Elems(down[c]) \/ n = a
  BY ServeHead
<1>. QED  BY <1>2, <1>3, <1>4, <1>5

\* While a client has a session, the only frame of it that can be served is
\* the poll it waits for.
LEMMA ServedInSession ==
    ASSUME TunnelType, RandomInv, TransitInv, NEW c \in Client, NEW m, NEW a, Serves(c, m, a),
           sess[c].in_use
    PROVE  m.live /\ pc[c] \in {"pollr", "pollw"} /\ Ahead(c) = 0 /\ Ahead(c)' = 1
<1>1. m.live /\ m \in Elems(up[c]) /\ up'[c] = <<>> /\ up[c] # <<>>
  BY ServeHead DEF Tracked, Serves
<1>2. pc[c] # "idle"
  BY <1>1 DEF TransitInv, Wire, NoLive
<1>3. pc[c] \in PC /\ pc[c] \notin {"read1", "read2", "write1", "write2"}
  BY DEF TransitInv, Doing, TunnelType, ClientTypeOK
<1>4. pc[c] \in {"pollr", "pollw"}
  BY <1>2, <1>3 DEF PC
<1>5. Ahead(c) = 0
  BY <1>1 DEF Ahead
<1>6. Ahead(c)' = 1
  BY <1>1, <1>4 DEF Ahead, Serves
<1>. QED  BY <1>1, <1>4, <1>5, <1>6

\* Serving a client takes its frame away and no other's.
LEMMA AheadGrows ==
    ASSUME TunnelType, RandomInv, TransitInv, NEW c \in Client, NEW m, NEW a, Serves(c, m, a),
           NEW d \in Client
    PROVE  Ahead(d) \in Nat /\ Ahead(d)' \in Nat /\ Ahead(d) <= Ahead(d)'
<1>1. d # c => Ahead(d)' = Ahead(d)
  BY ServeHead DEF Ahead, Serves
<1>2. Ahead(d) \in {0, 1} /\ Ahead(d)' \in {0, 1}
  BY DEF Ahead
<1>3. d = c => Ahead(d) = 0
  BY DEF Ahead, Serves
<1>. QED  BY <1>1, <1>2, <1>3

\* A base is its two randoms.
LEMMA BaseEqual ==
    \A x, y \in Base : x.cr = y.cr /\ x.sr = y.sr => x = y
BY DEF Base

\* A read in progress, while somebody's request is served.
LEMMA ServedRead ==
    ASSUME TunnelType, RandomInv, TransitInv, NEW c \in Client, NEW m, NEW a, Serves(c, m, a),
           NEW d \in Client, InRead(d)
    PROVE  /\ \A x \in Entry : Session(x)' /\ rd'[x].base.cr = op[d].cr =>
                 /\ rd'[x].cli = d /\ rd'[x].key_id = op[d].kid /\ x = op[d].e /\ rd'[x].counter = 0
                 /\ \A n \in Elems(up'[d]) : n.q.shape # "byte"
           /\ \A b \in seals' : b.cr = op[d].cr =>
                 b.ctr = 0 /\ (b.e = op[d].e => b.pt.w \in seen'[d])
<1>1. m \in Elems(up[c]) /\ Tracked(c, m) /\ Elems(up'[d]) \subseteq Elems(up[d]) /\ m \in Frame
  BY ServeHead
<1>2. ReadStep(d) /\ Private(d)
  BY DEF TransitInv
<1>3. ASSUME m.q.shape = "challenge", m.q.cr = op[d].cr
      PROVE  d = c /\ m.e = op[d].e /\ m.q.b = op[d].kid /\ up'[d] = <<>>
  <2>1. d = c
    BY <1>1, <1>2, <1>3 DEF Private
  <2>2. m.live
    BY <1>1, <1>3, <2>1 DEF Tracked
  <2>3. pc[c] = "read1"
    BY <1>1, <1>3, <2>1, <2>2 DEF Tracked, Asked, InRead
  <2>4. m.e = op[c].e /\ m.q = Bare("challenge", op[c].kid, op[c].cr)
    BY <1>1, <2>2, <2>3 DEF Tracked, Asked
  <2>5. m.q.b = op[c].kid
    BY <2>4 DEF Bare
  <2>. QED  BY <2>1, <2>2, <2>4, <2>5, ServeHead
<1>4. ASSUME m.q.shape = "byte", Session(m.e), rd[m.e].cli = c, rd[m.e].base.cr = op[d].cr
      PROVE  FALSE
  <2>1. m.e \in Entry
    BY <1>1 DEF Frame
  <2>. QED  BY <1>1, <1>2, <1>4, <2>1 DEF ReadStep
<1>5. ASSUME NEW x \in Entry, Session(x)', rd'[x].base.cr = op[d].cr
      PROVE  /\ rd'[x].cli = d /\ rd'[x].key_id = op[d].kid /\ x = op[d].e /\ rd'[x].counter = 0
             /\ \A n \in Elems(up'[d]) : n.q.shape # "byte"
  <2>1. CASE SameRead(x)
    BY <1>1, <1>2, <1>5, <2>1 DEF SameRead, ReadStep
  <2>2. CASE x = m.e /\ PolledRead(c, m.e, m.q)
    BY <1>4, <1>5, <2>2 DEF PolledRead
  <2>3. CASE x = m.e /\ ArmedRead(c, m.e, m.q)
    <3>1. Elems(<<>>) = {}
      BY DEF Elems
    <3>. QED  BY <1>3, <1>5, <2>3, <3>1 DEF ArmedRead
  <2>. QED  BY <1>5, <2>1, <2>2, <2>3 DEF Serves, ReadsServed
<1>6. ASSUME NEW b \in seals', b.cr = op[d].cr
      PROVE  b.ctr = 0 /\ (b.e = op[d].e => b.pt.w \in seen'[d])
  <2>1. seen[d] \subseteq seen'[d] /\ value[CellOf[op[d].e]] \in seen[d]
    BY <1>2 DEF Serves, ReadStep, InRead
  <2>2. CASE b \in seals
    BY <1>2, <1>6, <2>1, <2>2 DEF ReadStep
  <2>3. CASE SealedFor(c, m.e, m.q, b)
    BY <1>4, <1>6, <2>1, <2>3 DEF SealedFor
  <2>. QED  BY <2>2, <2>3 DEF Serves, ReadsServed
<1>. QED  BY <1>5, <1>6

\* A read session, while somebody's request is served.
LEMMA ServedReadSession ==
    ASSUME TunnelType, RandomInv, TransitInv, NEW c \in Client, NEW m, NEW a, Serves(c, m, a),
           NEW d \in Client, ReadSession(d)
    PROVE  /\ \A x \in Entry : Session(x)' /\ rd'[x].base = sess[d].base =>
                 /\ rd'[x].cli = d /\ rd'[x].key_id = sess[d].kid /\ x = sess[d].e
                 /\ sess[d].counter <= rd'[x].counter
                 /\ rd'[x].counter <= sess[d].counter + Ahead(d)'
           /\ \A b \in seals' : b.cr = sess[d].base.cr /\ b.sr = sess[d].base.sr =>
                 /\ b.ctr <= sess[d].counter + Ahead(d)'
                 /\ pc[d] = "pollr" /\ b.ctr = sess[d].counter + 1 /\ b.e = sess[d].e =>
                       b.pt.w \in seen'[d]
<1>1. m \in Elems(up[c]) /\ m \in Frame /\ m.e \in Entry
  BY ServeHead DEF Frame
<1>2. ReadStep(d) /\ Private(d) /\ Doing(d) /\ sess[d].in_use
  BY DEF TransitInv, ReadSession
<1>3. Ahead(d) \in Nat /\ Ahead(d)' \in Nat /\ Ahead(d) <= Ahead(d)'
  BY AheadGrows
<1>4. /\ sess[d].counter \in Nat /\ sess[d].base \in Base /\ \A x \in Entry : rd[x].counter \in Nat /\ rd[x].base \in Base
      /\ \A b \in seals : b.ctr \in Nat
  BY DEF TunnelType, TypeOK, ClientTypeOK, ClientSession, ReadSlot, Box
<1>5. m.q.shape = "challenge" => m.q.cr # sess[d].base.cr
  BY <1>1, <1>2 DEF Private
<1>6. ASSUME Session(m.e), rd[m.e].cli = c, rd[m.e].base = sess[d].base
      PROVE  /\ d = c /\ rd[m.e].counter = sess[d].counter /\ Ahead(d)' = 1
             /\ rd[m.e].key_id = sess[d].kid /\ m.e = sess[d].e
  <2>1. /\ rd[m.e].cli = d /\ rd[m.e].key_id = sess[d].kid /\ m.e = sess[d].e
        /\ sess[d].counter <= rd[m.e].counter /\ rd[m.e].counter <= sess[d].counter + Ahead(d)
    BY <1>1, <1>2, <1>6 DEF ReadStep
  <2>2. d = c /\ Ahead(d) = 0 /\ Ahead(d)' = 1
    BY <1>2, <1>6, <2>1, ServedInSession
  <2>3. rd[m.e].counter = sess[d].counter
    BY <1>1, <1>4, <2>1, <2>2
  <2>. QED  BY <2>1, <2>2, <2>3
<1>7. ASSUME NEW x \in Entry, Session(x)', rd'[x].base = sess[d].base
      PROVE  /\ rd'[x].cli = d /\ rd'[x].key_id = sess[d].kid /\ x = sess[d].e
             /\ sess[d].counter <= rd'[x].counter
             /\ rd'[x].counter <= sess[d].counter + Ahead(d)'
  <2>1. CASE SameRead(x)
    <3>1. /\ rd[x].cli = d /\ rd[x].key_id = sess[d].kid /\ x = sess[d].e
          /\ sess[d].counter <= rd[x].counter /\ rd[x].counter <= sess[d].counter + Ahead(d)
      BY <1>2, <1>7, <2>1 DEF ReadStep, SameRead
    <3>2. rd[x].counter <= sess[d].counter + Ahead(d)'
      BY <1>3, <1>4, <3>1
    <3>. QED  BY <2>1, <3>1, <3>2 DEF SameRead
  <2>2. CASE x = m.e /\ PolledRead(c, m.e, m.q)
    <3>1. /\ rd'[x].cli = c /\ rd'[x].key_id = rd[m.e].key_id /\ rd'[x].counter = rd[m.e].counter + 1
          /\ Session(m.e) /\ rd[m.e].cli = c /\ rd[m.e].base = sess[d].base
      BY <1>7, <2>2 DEF PolledRead
    <3>2. /\ d = c /\ rd[m.e].counter = sess[d].counter /\ Ahead(d)' = 1
          /\ rd[m.e].key_id = sess[d].kid /\ m.e = sess[d].e
      BY <1>6, <3>1
    <3>3. rd'[x].counter = sess[d].counter + 1
      BY <3>1, <3>2
    <3>. QED  BY <1>4, <2>2, <3>1, <3>2, <3>3
  <2>3. CASE x = m.e /\ ArmedRead(c, m.e, m.q)
    BY <1>5, <1>7, <2>3 DEF ArmedRead
  <2>. QED  BY <1>7, <2>1, <2>2, <2>3 DEF Serves, ReadsServed
<1>8. ASSUME NEW b \in seals', b.cr = sess[d].base.cr, b.sr = sess[d].base.sr
      PROVE  /\ b.ctr <= sess[d].counter + Ahead(d)'
             /\ pc[d] = "pollr" /\ b.ctr = sess[d].counter + 1 /\ b.e = sess[d].e => b.pt.w \in seen'[d]
  <2>1. seen[d] \subseteq seen'[d]
    BY DEF Serves
  <2>2. CASE b \in seals
    <3>1. /\ b.ctr <= sess[d].counter + Ahead(d)
          /\ pc[d] = "pollr" /\ b.ctr = sess[d].counter + 1 /\ b.e = sess[d].e => b.pt.w \in seen[d]
      BY <1>2, <1>8, <2>2 DEF ReadStep
    <3>2. b.ctr <= sess[d].counter + Ahead(d)'
      BY <1>3, <1>4, <2>2, <3>1
    <3>. QED  BY <2>1, <3>1, <3>2
  <2>3. CASE SealedFor(c, m.e, m.q, b)
    <3>1. /\ Session(m.e) /\ rd[m.e].cli = c /\ b.cr = rd[m.e].base.cr /\ b.sr = rd[m.e].base.sr
          /\ b.ctr = rd[m.e].counter + 1 /\ b.e = m.e /\ b.pt.w = value[CellOf[m.e]]
      BY <1>5, <1>8, <2>3 DEF SealedFor
    <3>2. rd[m.e].base = sess[d].base
      <4>1. rd[m.e].base \in Base
        BY <1>1, <1>4
      <4>. QED  BY <1>4, <1>8, <3>1, <4>1, BaseEqual
    <3>3. /\ rd[m.e].counter = sess[d].counter /\ Ahead(d)' = 1 /\ m.e = sess[d].e
      BY <1>6, <3>1, <3>2
    <3>4. b.ctr = sess[d].counter + 1
      BY <3>1, <3>3
    <3>5. pc[d] = "pollr" => b.pt.w \in seen[d]
      BY <1>2, <3>1, <3>3 DEF ReadStep, Doing
    <3>. QED  BY <1>4, <2>1, <3>3, <3>4, <3>5
  <2>. QED  BY <2>2, <2>3 DEF Serves, ReadsServed
<1>. QED  BY <1>7, <1>8

\* Reads and read sessions together.
LEMMA ServedReadStep ==
    ASSUME TunnelType, RandomInv, TransitInv, NEW c \in Client, NEW m, NEW a, Serves(c, m, a),
           NEW d \in Client
    PROVE  ReadStep(d)'
<1>1. UNCHANGED <<pc, op, sess>>
  BY DEF Serves
<1>2. InRead(d)' = InRead(d) /\ ReadSession(d)' = ReadSession(d)
  BY <1>1 DEF InRead, ReadSession
<1>3. pc[d] \in {"read1", "read2", "pollr"} => value'[CellOf[op[d].e]] \in seen'[d]
  BY DEF Serves
<1>. QED  BY <1>1, <1>2, <1>3, ServedRead, ServedReadSession DEF ReadStep

\* A write or a write session, while somebody's request is served.
LEMMA ServedWriteStep ==
    ASSUME TunnelType, RandomInv, TransitInv, NEW c \in Client, NEW m, NEW a, Serves(c, m, a),
           NEW d \in Client
    PROVE  WriteStep(d)'
<1>1. /\ m \in Elems(up[c]) /\ m \in Frame /\ m.e \in Entry /\ Tracked(c, m)
      /\ m.q.box # NoBox => m.q.box \in cseals /\ m.q.box.cli = c
  BY ServeHead DEF Frame
<1>2. WriteStep(d) /\ Doing(d) /\ Mine(d, pc[d], op[d], sess[d])
  BY DEF TransitInv, RandomInv
<1>3. Ahead(d) \in Nat /\ Ahead(d)' \in Nat /\ Ahead(d) <= Ahead(d)'
  BY AheadGrows
<1>4. /\ sess[d].counter \in Nat /\ \A x \in Entry : wr[x].counter \in Nat
      /\ \A t \in cseals : t.ctr \in Nat
  BY DEF TunnelType, TypeOK, ClientTypeOK, ClientSession, WriteSlot, Box
<1>5. m.q.shape = "byte" => m.e \notin WO
  BY <1>1, TunnelConstants DEF Tracked
<1>6. \A x \in Entry : WSession(x)' =>
          SameWrite(x) \/ (x = m.e /\ (PolledWrite(c, m.e, m.q) \/ OpenedWrite(c, m.e, m.q)))
  BY <1>5 DEF Serves, WritesServed
<1>7. ASSUME pc[d] = "write2", NEW x \in Entry, WSession(x)', wr'[x].base.cr = op[d].cr
      PROVE  wr'[x].counter = 0
  <2>1. CASE SameWrite(x)
    BY <1>2, <1>7, <2>1 DEF WriteStep, SameWrite
  <2>2. CASE x = m.e /\ PolledWrite(c, m.e, m.q)
    <3>1. m.q.box # NoBox /\ m.q.box.cr = op[d].cr /\ m.q.box.ctr = wr[x].counter + 1
      BY <1>7, <2>2 DEF PolledWrite
    <3>2. d = c
      BY <1>7, <3>1, ForeignBox
    <3>3. m.q.box \in cseals /\ m.q.box.ctr <= 0
      BY <1>1, <1>2, <1>7, <3>1, <3>2 DEF Mine, Owned
    <3>. QED  BY <1>4, <3>1, <3>3
  <2>3. CASE x = m.e /\ OpenedWrite(c, m.e, m.q)
    BY <2>3 DEF OpenedWrite
  <2>. QED  BY <1>6, <1>7, <2>1, <2>2, <2>3
<1>8. ASSUME WriteSession(d), NEW x \in Entry, WSession(x)', wr'[x].base.cr = sess[d].base.cr
      PROVE  sess[d].counter <= wr'[x].counter /\ wr'[x].counter <= sess[d].counter + Ahead(d)'
  <2>1. CASE SameWrite(x)
    <3>1. sess[d].counter <= wr[x].counter /\ wr[x].counter <= sess[d].counter + Ahead(d)
      BY <1>2, <1>8, <2>1 DEF WriteStep, SameWrite
    <3>2. wr[x].counter <= sess[d].counter + Ahead(d)'
      BY <1>3, <1>4, <3>1
    <3>. QED  BY <2>1, <3>1, <3>2 DEF SameWrite
  <2>2. CASE x = m.e /\ PolledWrite(c, m.e, m.q)
    <3>1. /\ m.q.box # NoBox /\ m.q.box.cr = sess[d].base.cr /\ wr'[x].counter = wr[x].counter + 1
          /\ WSession(x) /\ wr[x].base.cr = sess[d].base.cr
      BY <1>8, <2>2 DEF PolledWrite
    <3>2. d = c /\ sess[c].in_use
      BY <1>8, <3>1, ForeignBox DEF WriteSession
    <3>3. Ahead(d) = 0 /\ Ahead(d)' = 1
      BY <3>2, ServedInSession
    <3>4. sess[d].counter <= wr[x].counter /\ wr[x].counter <= sess[d].counter + Ahead(d)
      BY <1>2, <1>8, <3>1 DEF WriteStep
    <3>. QED  BY <1>4, <3>1, <3>3, <3>4
  <2>3. CASE x = m.e /\ OpenedWrite(c, m.e, m.q)
    <3>1. m.q.box # NoBox /\ m.q.box.cr = sess[d].base.cr /\ m.q.shape = "write"
      BY <1>8, <2>3 DEF OpenedWrite
    <3>2. d = c /\ sess[c].in_use
      BY <1>8, <3>1, ForeignBox DEF WriteSession
    <3>3. m.live /\ pc[c] \in {"pollr", "pollw"}
      BY <3>2, ServedInSession
    <3>. QED  BY <1>1, <3>1, <3>3 DEF Tracked, Asked
  <2>. QED  BY <1>6, <1>8, <2>1, <2>2, <2>3
<1>9. UNCHANGED <<pc, op, sess>>
  BY DEF Serves
<1>10. WriteSession(d)' = WriteSession(d)
  BY <1>9 DEF WriteSession
<1>. QED  BY <1>7, <1>8, <1>9, <1>10 DEF WriteStep

\* Where the slots come from, after a request.
LEMMA ServedSlots ==
    ASSUME TunnelType, RandomInv, TransitInv, NEW c \in Client, NEW m, NEW a, Serves(c, m, a)
    PROVE  SlotsInv'
<1>1. /\ m \in Frame /\ m.e \in Entry /\ Tracked(c, m)
      /\ m.q.box # NoBox => m.q.box \in cseals /\ m.q.box.cli = c
  BY ServeHead DEF Frame
<1>2. SlotsInv /\ cseals' = cseals
  BY DEF TransitInv, Serves
<1>3. applied' \subseteq cseals
  BY <1>1, <1>2 DEF SlotsInv, Serves, WritesServed
<1>4. \A x \in Entry : rd'[x].prepared = NoBox \/ rd'[x].prepared \in seals'
  BY <1>2 DEF SlotsInv, Serves, ReadsServed
<1>5. ASSUME NEW x \in Entry, WSession(x)'
      PROVE  \E t \in cseals : t.cr = wr'[x].base.cr /\ t.cli = wr'[x].cli /\ t.kid = wr'[x].key_id /\ t.e = x
  <2>1. m.q.shape = "byte" => m.e \notin WO
    BY <1>1, TunnelConstants DEF Tracked
  <2>2. SameWrite(x) \/ (x = m.e /\ (PolledWrite(c, m.e, m.q) \/ OpenedWrite(c, m.e, m.q)))
    BY <1>5, <2>1 DEF Serves, WritesServed
  <2>3. CASE SameWrite(x) \/ (x = m.e /\ PolledWrite(c, m.e, m.q))
    <3>1. /\ WSession(x) /\ wr'[x].base = wr[x].base /\ wr'[x].cli = wr[x].cli
          /\ wr'[x].key_id = wr[x].key_id
      BY <2>3 DEF SameWrite, PolledWrite
    <3>. QED  BY <1>2, <3>1 DEF SlotsInv
  <2>4. CASE x = m.e /\ OpenedWrite(c, m.e, m.q)
    BY <1>1, <2>4 DEF OpenedWrite
  <2>. QED  BY <2>2, <2>3, <2>4
<1>. QED  BY <1>2, <1>3, <1>4, <1>5 DEF SlotsInv

\* What ExtendSeen does to the windows of the readers.
LEMMA WindowsGrow ==
    ASSUME TunnelType, TransitInv, TypeOK', ExtendSeen, UNCHANGED <<pc, op, sess>>
    PROVE  /\ seen' \in [Client -> SUBSET Word]
           /\ \A d \in Client : seen[d] \subseteq seen'[d]
           /\ \A d \in Client : pc[d] \in {"read1", "read2", "pollr"} => value'[CellOf[op[d].e]] \in seen'[d]
<1>1. seen \in [Client -> SUBSET Word] /\ value' \in [Cell -> Word]
  BY DEF TransitInv, TypeOK
<1>2. ASSUME NEW d \in Client, pc[d] \in {"read1", "read2", "pollr"}
      PROVE  value'[CellOf[op[d].e]] \in Word
  <2>1. op[d].e \in RO
    BY <1>2 DEF TunnelType, ClientTypeOK, TransitInv, Doing, ReadSession
  <2>2. CellOf[op[d].e] \in Cell
    BY <2>1, SodConstants DEF Entry
  <2>. QED  BY <1>1, <2>2
<1>. QED  BY <1>1, <1>2 DEF ExtendSeen

\* ServerStep.
LEMMA ServerStepTransit ==
    ASSUME TunnelType, RandomInv, TransitInv, NEW c \in Client, NEW f \in Fault, ServerStep(c, f)
    PROVE  TransitInv'
<1>. DEFINE m == Head(up[c])
            a == [r |-> DispatchReply(c, m.e, m.q, f), live |-> m.live]
<1>1. /\ up[c] # <<>> /\ SodRequest(c, m.e, m.q, f) /\ UNCHANGED <<pc, op, sess, crand, cseals>>
      /\ down' = [down EXCEPT ![c] = Append(@, a)] /\ up' = [up EXCEPT ![c] = Tail(@)] /\ ExtendSeen
  BY DEF ServerStep
<1>2. m \in Frame /\ a.r = DispatchReply(c, m.e, m.q, f) /\ a.live = m.live
  BY <1>1, HeadTailProperties DEF TunnelType, ClientTypeOK
<1>. HIDE DEF m, a
<1>3. m.e \in Entry /\ m.q \in Request
  BY <1>2 DEF Frame
<1>4. TypeOK /\ TypeOK'
  BY <1>1, <1>3, DispatchType DEF TunnelType
<1>5. ReadsServed(c, m.e, m.q) /\ WritesServed(c, m.e, m.q)
  BY <1>1, <1>3, <1>4, ReadsAfter, WritesAfter
<1>6. a.r.box = NoBox \/ a.r.box \in seals'
  <2>1. rd[m.e].prepared = NoBox \/ rd[m.e].prepared \in seals
    BY <1>3 DEF TransitInv, SlotsInv
  <2>. QED  BY <1>1, <1>2, <1>3, <1>4, <2>1, ReplyBoxes
<1>7. m.e \in WO /\ m.q.shape \in {"write", "poll"} =>
          IF a.r.abort = "NONE"
          THEN m.q.box \in applied' /\ (m.q.shape = "poll" => PolledWrite(c, m.e, m.q))
          ELSE applied' = applied
  BY <1>1, <1>2, <1>3, <1>4, AckServed
<1>8. /\ seen' \in [Client -> SUBSET Word]
      /\ \A d \in Client : seen[d] \subseteq seen'[d]
      /\ \A d \in Client : pc[d] \in {"read1", "read2", "pollr"} => value'[CellOf[op[d].e]] \in seen'[d]
  BY <1>1, <1>4, WindowsGrow
<1>9. Serves(c, m, a)
  BY <1>1, <1>2, <1>5, <1>6, <1>7, <1>8 DEF Serves, m
<1>10. ASSUME NEW d \in Client
       PROVE  Doing(d)' /\ Private(d)'
  <2>1. Doing(d) /\ Private(d)
    BY DEF TransitInv
  <2>2. Doing(d)'
    BY <1>1, <2>1 DEF Doing, InRead, Sealing, ReadSession, WriteSession, ReadRandom
  <2>3. \A x \in Client : Elems(up'[x]) \subseteq Elems(up[x])
    BY <1>9, ServeHead
  <2>4. Private(d)'
    BY <1>1, <2>1, <2>3 DEF Private, InRead, ReadSession
  <2>. QED  BY <2>2, <2>4
<1>11. \A d \in Client : Wire(d)' /\ ReadStep(d)' /\ WriteStep(d)'
  BY <1>9, ServedWire, ServedReadStep, ServedWriteStep
<1>12. /\ \A d \in Client : \A n \in Elems(up'[d]) : Tracked(d, n)'
       /\ \A d \in Client : \A n \in Elems(down'[d]) : Answered(d, n)'
  BY <1>9, ServedTracked, ServedAnswered
<1>13. SlotsInv'
  BY <1>9, ServedSlots
<1>. QED  BY <1>8, <1>10, <1>11, <1>12, <1>13 DEF TransitInv

\* The clock moves, the server is restarted, or nothing happens.
LEMMA ServerAloneTransit ==
    ASSUME TunnelType, RandomInv, TransitInv,
           UNCHANGED <<pc, op, sess, up, down, crand, cseals, seals, applied>>,
           \A x \in Entry : Session(x)' => SameRead(x),
           \A x \in Entry : WSession(x)' => SameWrite(x),
           \A x \in Entry : rd'[x].prepared \in {NoBox, rd[x].prepared},
           seen' \in [Client -> SUBSET Word], \A d \in Client : seen[d] \subseteq seen'[d],
           \A d \in Client : pc[d] \in {"read1", "read2", "pollr"} => value'[CellOf[op[d].e]] \in seen'[d]
    PROVE  TransitInv'
<1>1. SlotsInv'
  <2>1. SlotsInv
    BY DEF TransitInv
  <2>. QED  BY <2>1 DEF SlotsInv, SameWrite
<1>2. ASSUME NEW d \in Client
      PROVE  Wire(d)' /\ Doing(d)' /\ Private(d)'
  <2>1. Wire(d) /\ Doing(d) /\ Private(d)
    BY DEF TransitInv
  <2>2. Wire(d)'
    BY <2>1 DEF Wire, OnlyLast, NoLive, Elems
  <2>3. Doing(d)'
    BY <2>1 DEF Doing, InRead, Sealing, ReadSession, WriteSession, ReadRandom
  <2>4. Private(d)'
    BY <2>1 DEF Private, InRead, ReadSession
  <2>. QED  BY <2>2, <2>3, <2>4
<1>3. ASSUME NEW d \in Client
      PROVE  ReadStep(d)' /\ WriteStep(d)'
  <2>1. ReadStep(d) /\ WriteStep(d)
    BY DEF TransitInv
  <2>2. /\ InRead(d)' = InRead(d) /\ ReadSession(d)' = ReadSession(d)
        /\ WriteSession(d)' = WriteSession(d) /\ Ahead(d)' = Ahead(d)
    BY DEF InRead, ReadSession, WriteSession, Ahead
  <2>3. WriteStep(d)'
    BY <2>1, <2>2 DEF WriteStep, SameWrite
  <2>4. seen[d] \subseteq seen'[d]
    OBVIOUS
  <2>5. ReadStep(d)'
    BY <2>1, <2>2, <2>4 DEF ReadStep, SameRead
  <2>. QED  BY <2>3, <2>5
<1>4. ASSUME NEW d \in Client, NEW n \in Elems(up'[d])
      PROVE  Tracked(d, n)'
  <2>1. Tracked(d, n)
    BY <1>4 DEF TransitInv
  <2>. QED  BY <2>1 DEF Tracked, Asked, Sealing, InRead
<1>5. ASSUME NEW d \in Client, NEW n \in Elems(down'[d])
      PROVE  Answered(d, n)'
  <2>1. Answered(d, n)
    BY <1>5 DEF TransitInv
  <2>. QED  BY <2>1 DEF Answered, Sealing, SameWrite
<1>. QED  BY <1>1, <1>2, <1>3, <1>4, <1>5 DEF TransitInv

-----------------------------------------------------------------------------
(* The transit invariant across a step of a client. *)

\* Everything the transit invariant says of client c.
Settled(c) ==
    /\ Wire(c) /\ Doing(c) /\ Private(c) /\ ReadStep(c) /\ WriteStep(c)
    /\ \A m \in Elems(up[c]) : Tracked(c, m)
    /\ \A a \in Elems(down[c]) : Answered(c, a)

\* A step that touches no client but c, and no challenge is sent twice.
Alone(c) ==
    /\ UNCHANGED vars /\ SealsFresh(c) /\ cseals \subseteq cseals'
    /\ \A d \in Client \ {c} : /\ pc'[d] = pc[d] /\ op'[d] = op[d] /\ sess'[d] = sess[d]
                               /\ up'[d] = up[d] /\ down'[d] = down[d] /\ seen'[d] = seen[d]
    /\ seen' \in [Client -> SUBSET Word]
    /\ \A n \in Elems(up'[c]) : n.q.shape = "challenge" =>
          n.q.cr > crand \/ \E x \in Elems(up[c]) : x.q = n.q

\* The slots and the frames of the server are as they were.
LEMMA AloneServer ==
    ASSUME NEW c, Alone(c)
    PROVE  /\ UNCHANGED <<rd, wr, value, seals, applied, srand>>
           /\ \A x : Session(x)' = Session(x) /\ WSession(x)' = WSession(x)
<1>1. UNCHANGED <<rd, wr, value, seals, applied, srand>>
  BY DEF Alone, vars
<1>. QED  BY <1>1 DEF Session, WSession

\* Nothing changes for a client that does not move.
LEMMA Bystander ==
    ASSUME TunnelType, RandomInv, TransitInv, NEW c \in Client, Alone(c), NEW d \in Client, d # c
    PROVE  Settled(d)'
<1>1. /\ pc'[d] = pc[d] /\ op'[d] = op[d] /\ sess'[d] = sess[d]
      /\ up'[d] = up[d] /\ down'[d] = down[d] /\ seen'[d] = seen[d] /\ cseals \subseteq cseals'
  BY DEF Alone
<1>2. /\ UNCHANGED <<rd, wr, value, seals, applied>>
      /\ \A x : Session(x)' = Session(x) /\ WSession(x)' = WSession(x)
  BY AloneServer
<1>3. /\ InRead(d)' = InRead(d) /\ ReadSession(d)' = ReadSession(d) /\ Sealing(d)' = Sealing(d)
      /\ WriteSession(d)' = WriteSession(d) /\ Ahead(d)' = Ahead(d)
  BY <1>1 DEF InRead, ReadSession, WriteSession, Ahead, Sealing
<1>4. \A x \in Nat : ReadRandom(x) => ReadRandom(x)'
  BY ReadyGrows DEF Alone
<1>5. op[d].cr \in Nat /\ sess[d].base.cr \in Nat /\ crand \in Nat /\ cseals \subseteq Box
  BY DEF TunnelType, ClientTypeOK, Verb, ClientSession, Base
<1>6. Settled(d)
  BY DEF TransitInv, Settled
<1>7. Wire(d)'
  <2>1. Wire(d)
    BY <1>6 DEF Settled
  <2>. QED  BY <1>1, <2>1 DEF Wire, OnlyLast, NoLive, Elems
<1>8. Doing(d)'
  <2>1. Doing(d)
    BY <1>6 DEF Settled
  <2>2. ASSUME WriteSession(d), NEW t \in cseals', t.cr = sess[d].base.cr
        PROVE  t.kid = sess[d].kid /\ t.e = sess[d].e
    <3>1. Owned(d, sess[d].base.cr, IF pc[d] = "pollw" THEN sess[d].counter + 1 ELSE sess[d].counter)
      BY <2>2 DEF RandomInv, Mine, WriteSession
    <3>2. PICK u \in cseals : u.cr = sess[d].base.cr
      BY <3>1 DEF Owned
    <3>3. u.cr <= crand /\ u.cr \in Nat
      BY <1>5, <3>2 DEF RandomInv, Box
    <3>4. \A v \in cseals : v.cr = t.cr => v.cli # c
      BY <2>2, <3>1 DEF Owned
    <3>5. t \in cseals
      BY <1>5, <2>2, <3>2, <3>3, <3>4 DEF Alone, SealsFresh
    <3>. QED  BY <2>1, <2>2, <3>5 DEF Doing
  <2>3. InRead(d) => ReadRandom(op[d].cr)'
    BY <1>1, <1>4, <1>5, <2>1 DEF Doing, ReadRandom
  <2>4. ReadSession(d) => ReadRandom(sess[d].base.cr)'
    BY <1>1, <1>4, <1>5, <2>1 DEF Doing, ReadRandom
  <2>. QED  BY <1>1, <1>3, <2>1, <2>2, <2>3, <2>4 DEF Doing, ReadRandom
<1>9. Private(d)'
  <2>1. Private(d) /\ Doing(d)
    BY <1>6 DEF Settled
  <2>2. (InRead(d) => op[d].cr <= crand) /\ (ReadSession(d) => sess[d].base.cr <= crand)
    BY <2>1 DEF Doing, ReadRandom
  <2>3. ASSUME NEW x \in Client, NEW n \in Elems(up'[x]), n.q.shape = "challenge"
        PROVE  /\ ReadSession(d) => n.q.cr # sess[d].base.cr
               /\ InRead(d) /\ x # d => n.q.cr # op[d].cr
    <3>1. CASE x # c
      <4>1. n \in Elems(up[x])
        BY <2>3, <3>1 DEF Alone
      <4>. QED  BY <2>1, <2>3, <4>1 DEF Private
    <3>2. CASE x = c /\ n.q.cr > crand
      BY <1>5, <2>2, <3>2
    <3>3. CASE x = c /\ \E y \in Elems(up[c]) : y.q = n.q
      BY <2>1, <2>3, <3>3 DEF Private
    <3>. QED  BY <2>3, <3>1, <3>2, <3>3 DEF Alone
  <2>. QED  BY <1>1, <1>3, <2>3 DEF Private
<1>10. ReadStep(d)'
  <2>1. ReadStep(d)
    BY <1>6 DEF Settled
  <2>. QED  BY <1>1, <1>2, <1>3, <2>1 DEF ReadStep
<1>11. WriteStep(d)'
  <2>1. WriteStep(d)
    BY <1>6 DEF Settled
  <2>. QED  BY <1>1, <1>2, <1>3, <2>1 DEF WriteStep
<1>12. ASSUME NEW n \in Elems(up'[d])
       PROVE  Tracked(d, n)'
  <2>1. Tracked(d, n)
    BY <1>1, <1>6, <1>12 DEF Settled
  <2>. QED  BY <1>1, <1>2, <1>3, <2>1 DEF Tracked, Asked
<1>13. ASSUME NEW n \in Elems(down'[d])
       PROVE  Answered(d, n)'
  <2>1. Answered(d, n)
    BY <1>1, <1>6, <1>13 DEF Settled
  <2>. QED  BY <1>1, <1>2, <1>3, <2>1 DEF Answered
<1>. QED  BY <1>7, <1>8, <1>9, <1>10, <1>11, <1>12, <1>13 DEF Settled

\* So only the client that moves is left to look at.
LEMMA ClientMove ==
    ASSUME TunnelType, RandomInv, TransitInv, NEW c \in Client, Alone(c), Settled(c)'
    PROVE  TransitInv'
<1>1. \A d \in Client : Settled(d)'
  BY Bystander
<1>2. SlotsInv'
  <2>1. SlotsInv
    BY DEF TransitInv
  <2>. QED  BY <2>1, AloneServer DEF SlotsInv, Alone
<1>3. (seen \in [Client -> SUBSET Word])'
  BY DEF Alone
<1>. QED  BY <1>1, <1>2, <1>3 DEF TransitInv, Settled

\* The client took an answer: nothing of it is on its way any more.
LEMMA AnswerTaken ==
    ASSUME TunnelType, TransitInv, NEW c \in Client, HasReply(c), down' = [down EXCEPT ![c] = Tail(@)]
    PROVE  /\ up[c] = <<>> /\ down'[c] = <<>> /\ Head(down[c]) \in Elems(down[c])
           /\ Head(down[c]).live /\ Answered(c, Head(down[c])) /\ pc[c] # "idle"
           /\ \A d \in Client \ {c} : down'[d] = down[d]
<1>1. down[c] \in Seq(Answer) /\ down[c] # <<>> /\ Head(down[c]).live /\ Wire(c)
  BY DEF TunnelType, ClientTypeOK, HasReply, TransitInv
<1>2. Head(down[c]) \in Elems(down[c])
  BY <1>1, ElemsEnds
<1>3. up[c] = <<>> /\ pc[c] # "idle"
  BY <1>1, <1>2 DEF Wire, NoLive
<1>4. Tail(down[c]) = <<>>
  BY <1>1, LiveEnds DEF Wire
<1>5. Answered(c, Head(down[c]))
  BY <1>2 DEF TransitInv
<1>. QED  BY <1>1, <1>2, <1>3, <1>4, <1>5 DEF TunnelType, ClientTypeOK

\* Nothing is in an empty queue.
LEMMA NoElems == Elems(<<>>) = {} /\ NoLive(<<>>) /\ OnlyLast(<<>>)
BY DEF Elems, NoLive, OnlyLast

\* A client that ends a verb, or a session, and keeps nothing.
LEMMA Resting ==
    ASSUME TunnelType, RandomInv, TransitInv, NEW c \in Client, Alone(c),
           pc'[c] = "idle", ~sess'[c].in_use, up'[c] \in Seq(Frame), down'[c] \in Seq(Answer),
           \A n \in Elems(up'[c]) : ~n.live /\ \E x \in Elems(up[c]) : n.e = x.e /\ n.q = x.q,
           \A n \in Elems(down'[c]) : ~n.live /\ \E x \in Elems(down[c]) : n.r = x.r
    PROVE  TransitInv'
<1>1. NoLive(up'[c]) /\ NoLive(down'[c])
  BY DEF NoLive
<1>2. OnlyLast(up'[c]) /\ OnlyLast(down'[c])
  BY <1>1, LiveEnds
<1>3. Wire(c)'
  BY <1>1, <1>2 DEF Wire, NoLive, OnlyLast, Elems
<1>4. /\ ~InRead(c)' /\ ~ReadSession(c)' /\ ~Sealing(c)' /\ ~WriteSession(c)'
  BY DEF InRead, ReadSession, Sealing, WriteSession
<1>5. Doing(c)' /\ Private(c)' /\ ReadStep(c)' /\ WriteStep(c)'
  BY <1>4 DEF Doing, Private, ReadStep, WriteStep
<1>6. ASSUME NEW n \in Elems(up'[c])
      PROVE  Tracked(c, n)'
  <2>1. PICK x \in Elems(up[c]) : n.e = x.e /\ n.q = x.q
    BY <1>6
  <2>2. Tracked(c, x) /\ cseals \subseteq cseals' /\ ~n.live
    BY <1>6 DEF TransitInv, Alone
  <2>. QED  BY <1>4, <2>1, <2>2 DEF Tracked
<1>7. ASSUME NEW n \in Elems(down'[c])
      PROVE  Answered(c, n)'
  <2>1. PICK x \in Elems(down[c]) : n.r = x.r
    BY <1>7
  <2>2. Answered(c, x) /\ ~n.live /\ seals' = seals
    BY <1>7, AloneServer DEF TransitInv
  <2>. QED  BY <2>1, <2>2 DEF Answered
<1>8. Settled(c)'
  BY <1>3, <1>5, <1>6, <1>7 DEF Settled
<1>. QED  BY <1>8, ClientMove

\* A client that waits for an answer to the frame n it has just sent.
LEMMA Asking ==
    ASSUME TunnelType, RandomInv, TransitInv, NEW c \in Client, Alone(c), NEW n, n.live,
           pc'[c] # "idle", NoLive(up[c]), NoLive(down'[c]), Elems(down'[c]) \subseteq Elems(down[c]),
           up'[c] = Append(up[c], n), down'[c] \in Seq(Answer),
           \/ up[c] = <<>>
           \/ ~sess'[c].in_use /\ ~Sealing(c)' /\ (InRead(c)' => op'[c].cr > crand),
           Tracked(c, n)', Doing(c)', Private(c)', ReadStep(c)', WriteStep(c)'
    PROVE  TransitInv'
<1>1. up[c] \in Seq(Frame) /\ up[c] \in Seq(Ready) /\ crand \in Nat
  BY DEF TunnelType, ClientTypeOK, RandomInv
<1>2. OnlyLast(up'[c]) /\ OnlyLast(down'[c])
  BY <1>1, LiveEnds
<1>3. Wire(c)'
  BY <1>2 DEF Wire, NoLive, OnlyLast, Elems
<1>4. Elems(up'[c]) = Elems(up[c]) \cup {n} /\ Elems(up[c]) \subseteq Ready
  BY <1>1, ElemsEnds
<1>5. ASSUME NEW x \in Elems(up[c])
      PROVE  Tracked(c, x)'
  <2>1. up[c] # <<>>
    BY <1>5, NoElems
  <2>2. ~sess'[c].in_use /\ ~Sealing(c)' /\ (InRead(c)' => op'[c].cr > crand)
    BY <2>1
  <2>3. Tracked(c, x) /\ ~x.live /\ cseals \subseteq cseals'
    BY <1>5 DEF TransitInv, NoLive, Alone
  <2>4. x.q.shape = "challenge" => x.q.cr \in Nat /\ x.q.cr <= crand
    BY <1>4, <1>5 DEF Ready, ReadRandom, Frame, Request
  <2>5. InRead(c)' /\ x.q.shape = "challenge" => x.q.cr # op'[c].cr
    BY <1>1, <2>2, <2>4
  <2>. QED  BY <2>2, <2>3, <2>5 DEF Tracked
<1>6. ASSUME NEW x \in Elems(down'[c])
      PROVE  Answered(c, x)'
  <2>1. Answered(c, x) /\ ~x.live /\ seals' = seals
    BY <1>6, AloneServer DEF TransitInv, NoLive
  <2>. QED  BY <2>1 DEF Answered
<1>7. Settled(c)'
  BY <1>3, <1>4, <1>5, <1>6 DEF Settled
<1>. QED  BY <1>7, ClientMove

\* A client between two polls of a session.
LEMMA BetweenPolls ==
    ASSUME TunnelType, RandomInv, TransitInv, NEW c \in Client, Alone(c),
           pc'[c] = "idle", up'[c] = <<>>, down'[c] = <<>>,
           Doing(c)', Private(c)', ReadStep(c)', WriteStep(c)'
    PROVE  TransitInv'
<1>1. Wire(c)'
  BY NoElems DEF Wire, NoLive, OnlyLast, Elems
<1>2. Elems(up'[c]) = {} /\ Elems(down'[c]) = {}
  BY NoElems
<1>3. Settled(c)'
  BY <1>1, <1>2 DEF Settled
<1>. QED  BY <1>3, ClientMove

\* The window of client c is opened, closed or left as it is.
Watches(c, W) == W \in SUBSET Word /\ seen' = [seen EXCEPT ![c] = W]

\* What makes a step a step of client c alone.
LEMMA AloneMove ==
    ASSUME TunnelType, TransitInv, NEW c \in Client, NEW p, NEW o, NEW s, NEW W, Moves(c, p, o, s),
           Watches(c, W), UNCHANGED vars, SealsFresh(c), cseals \subseteq cseals',
           \A d \in Client \ {c} : up'[d] = up[d] /\ down'[d] = down[d],
           \A n \in Elems(up'[c]) : n.q.shape = "challenge" =>
              n.q.cr > crand \/ \E x \in Elems(up[c]) : x.q = n.q
    PROVE  /\ Alone(c)
           /\ pc'[c] = p /\ op'[c] = o /\ sess'[c] = s /\ seen'[c] = W
<1>1. /\ pc'[c] = p /\ op'[c] = o /\ sess'[c] = s
      /\ \A d \in Client \ {c} : pc'[d] = pc[d] /\ op'[d] = op[d] /\ sess'[d] = sess[d]
  BY DEF Moves, TunnelType, ClientTypeOK
<1>2. /\ seen' \in [Client -> SUBSET Word] /\ seen'[c] = W
      /\ \A d \in Client \ {c} : seen'[d] = seen[d]
  BY DEF Watches, TransitInv
<1>. QED  BY <1>1, <1>2 DEF Alone

\* A step without a new sealed frame.
LEMMA SealsNothing ==
    ASSUME TunnelType, NEW c, cseals' = cseals, crand' \in {crand, crand + 1}
    PROVE  SealsFresh(c) /\ cseals \subseteq cseals'
BY DEF SealsFresh, TunnelType, ClientTypeOK

\* A step that leaves the window or closes it.
LEMMA WindowKept ==
    ASSUME TransitInv, NEW c \in Client, seen' = seen \/ seen' = [seen EXCEPT ![c] = {}]
    PROVE  \E W : Watches(c, W)
<1>1. seen \in [Client -> SUBSET Word]
  BY DEF TransitInv
<1>2. CASE seen' = seen
  <2>1. seen[c] \in SUBSET Word /\ seen = [seen EXCEPT ![c] = seen[c]]
    BY <1>1
  <2>. QED  BY <1>2, <2>1 DEF Watches
<1>3. CASE seen' = [seen EXCEPT ![c] = {}]
  <2>1. {} \in SUBSET Word
    OBVIOUS
  <2>. QED  BY <1>3, <2>1 DEF Watches
<1>. QED  BY <1>2, <1>3

\* An answer that ends the verb, and no session is kept.
LEMMA AnswerEnds ==
    ASSUME TunnelType, RandomInv, TransitInv, NEW c \in Client, HasReply(c),
           down' = [down EXCEPT ![c] = Tail(@)], Moves(c, "idle", NoOp, NoSession),
           UNCHANGED <<vars, up, cseals>>, crand' = crand,
           seen' = seen \/ seen' = [seen EXCEPT ![c] = {}]
    PROVE  TransitInv'
<1>1. /\ up[c] = <<>> /\ down'[c] = <<>> /\ \A d \in Client \ {c} : down'[d] = down[d]
  BY AnswerTaken
<1>2. PICK W : Watches(c, W)
  BY WindowKept
<1>3. SealsFresh(c) /\ cseals \subseteq cseals'
  BY SealsNothing
<1>4. up'[c] = <<>> /\ Elems(up'[c]) = {} /\ Elems(down'[c]) = {}
  BY <1>1, NoElems
<1>5. Alone(c) /\ pc'[c] = "idle" /\ sess'[c] = NoSession
  BY <1>1, <1>2, <1>3, <1>4, AloneMove
<1>6. up'[c] \in Seq(Frame) /\ down'[c] \in Seq(Answer) /\ ~NoSession.in_use
  <2>1. <<>> \in Seq(Frame) /\ <<>> \in Seq(Answer)
    OBVIOUS
  <2>2. ~NoSession.in_use
    BY NoneTypes
  <2>. QED  BY <1>1, <1>4, <2>1, <2>2
<1>. QED  BY <1>4, <1>5, <1>6, Resting

\* The verb fails, or ends well without a session.
LEMMA FailEnds ==
    ASSUME TunnelType, RandomInv, TransitInv, ~RetryPolls, NEW c \in Client, HasReply(c),
           down' = [down EXCEPT ![c] = Tail(@)], Fail(c) \/ Succeed(c, NoSession),
           UNCHANGED <<vars, up, cseals>>, crand' = crand,
           seen' = seen \/ seen' = [seen EXCEPT ![c] = {}]
    PROVE  TransitInv'
<1>1. Moves(c, "idle", NoOp, NoSession)
  BY DEF Fail, Succeed, Moves
<1>. QED  BY <1>1, AnswerEnds

\* EndSession and Timeout.
LEMMA GiveUpTransit ==
    ASSUME TunnelType, RandomInv, TransitInv, ~RetryPolls, NEW c \in Client, EndSession(c) \/ Timeout(c)
    PROVE  TransitInv'
<1>1. UNCHANGED <<vars, cseals>> /\ crand' = crand /\ (seen' = seen \/ seen' = [seen EXCEPT ![c] = {}])
  BY DEF EndSession, Timeout
<1>2. PICK W : Watches(c, W)
  BY <1>1, WindowKept
<1>3. SealsFresh(c) /\ cseals \subseteq cseals'
  BY <1>1, SealsNothing
<1>4. up[c] \in Seq(Frame) /\ down[c] \in Seq(Answer) /\ ~NoSession.in_use
  BY NoneTypes DEF TunnelType, ClientTypeOK
<1>5. CASE EndSession(c)
  <2>1. /\ op = [op EXCEPT ![c] = op[c]] /\ pc = [pc EXCEPT ![c] = "idle"]
    BY <1>5 DEF TunnelType, ClientTypeOK, EndSession
  <2>2. Moves(c, "idle", op[c], NoSession) /\ up' = up /\ down' = down
    BY <1>5, <2>1 DEF EndSession, Moves
  <2>3. Alone(c) /\ pc'[c] = "idle" /\ sess'[c] = NoSession
    BY <1>1, <1>2, <1>3, <2>2, AloneMove
  <2>4. NoLive(up[c]) /\ NoLive(down[c])
    BY <1>5 DEF EndSession, TransitInv, Wire
  <2>. QED  BY <1>4, <2>2, <2>3, <2>4, Resting DEF NoLive
<1>6. CASE Timeout(c)
  <2>1. Moves(c, "idle", NoOp, NoSession)
    BY <1>6 DEF Timeout, Fail, Moves
  <2>2. /\ up'[c] = Abandon(up[c]) /\ down'[c] = Abandon(down[c])
        /\ \A d \in Client \ {c} : up'[d] = up[d] /\ down'[d] = down[d]
    BY <1>6 DEF TunnelType, ClientTypeOK, Timeout
  <2>3. \A n \in Elems(up'[c]) : ~n.live /\ \E x \in Elems(up[c]) : n.e = x.e /\ n.q = x.q
    BY <1>4, <2>2, FramesAbandoned
  <2>4. \A n \in Elems(down'[c]) : ~n.live /\ \E x \in Elems(down[c]) : n.r = x.r
    BY <1>4, <2>2, AnswersAbandoned
  <2>5. \A n \in Elems(up'[c]) : \E x \in Elems(up[c]) : x.q = n.q
    BY <2>3
  <2>6. Alone(c) /\ pc'[c] = "idle" /\ sess'[c] = NoSession
    BY <1>1, <1>2, <1>3, <2>1, <2>2, <2>5, AloneMove
  <2>7. up'[c] \in Seq(Frame) /\ down'[c] \in Seq(Answer)
    BY <1>4, <2>2, AbandonType
  <2>. QED  BY <1>4, <2>3, <2>4, <2>6, <2>7, Resting
<1>. QED  BY <1>5, <1>6

\* A frame that is dropped on its way.
LEMMA DropTransit ==
    ASSUME TunnelType, RandomInv, TransitInv, NEW c \in Client, DropStale(c) \/ Lose(c)
    PROVE  TransitInv'
<1>1. UNCHANGED <<vars, pc, op, sess, cseals, seen>> /\ crand' = crand
  BY DEF DropStale, Lose
<1>2. /\ pc = [pc EXCEPT ![c] = pc[c]] /\ op = [op EXCEPT ![c] = op[c]]
      /\ sess = [sess EXCEPT ![c] = sess[c]]
      /\ up[c] \in Seq(Frame) /\ down[c] \in Seq(Answer)
  BY DEF TunnelType, ClientTypeOK, RandomInv
<1>3. Moves(c, pc[c], op[c], sess[c])
  BY <1>1, <1>2 DEF Moves
<1>4. PICK W : Watches(c, W)
  BY <1>1, WindowKept
<1>5. SealsFresh(c) /\ cseals \subseteq cseals'
  BY <1>1, SealsNothing
<1>6. /\ \A d \in Client \ {c} : up'[d] = up[d] /\ down'[d] = down[d]
      /\ \/ up'[c] = up[c] /\ down'[c] = Tail(down[c]) /\ down[c] # <<>>
         \/ up'[c] = Tail(up[c]) /\ down'[c] = down[c] /\ up[c] # <<>>
  BY DEF DropStale, Lose, TunnelType, ClientTypeOK
<1>7. Elems(up'[c]) \subseteq Elems(up[c]) /\ Elems(down'[c]) \subseteq Elems(down[c])
  BY <1>2, <1>6, ElemsEnds
<1>8. Alone(c)
  BY <1>1, <1>3, <1>4, <1>5, <1>6, <1>7, AloneMove
<1>9. /\ UNCHANGED <<rd, wr, value, seals, applied>>
      /\ \A x : Session(x)' = Session(x) /\ WSession(x)' = WSession(x)
  BY <1>8, AloneServer
<1>10. Wire(c)'
  <2>1. Wire(c)
    BY DEF TransitInv
  <2>2. OnlyLast(up'[c]) /\ OnlyLast(down'[c])
    BY <1>2, <1>6, <2>1, LiveEnds DEF Wire
  <2>3. up'[c] # <<>> => up[c] # <<>>
    BY <1>6
  <2>4. (up'[c] # <<>> => NoLive(down'[c])) /\ (pc[c] = "idle" => NoLive(up'[c]) /\ NoLive(down'[c]))
    BY <1>7, <2>1, <2>3 DEF Wire, NoLive
  <2>. QED  BY <1>1, <2>2, <2>4 DEF Wire, NoLive, OnlyLast, Elems
<1>11. Settled(c)
  BY DEF TransitInv, Settled
<1>12. Doing(c)' /\ Private(c)'
  <2>1. Doing(c)'
    BY <1>1, <1>11 DEF Settled, Doing, InRead, Sealing, ReadSession, WriteSession, ReadRandom
  <2>2. \A d \in Client : Elems(up'[d]) \subseteq Elems(up[d])
    BY <1>6, <1>7
  <2>3. Private(c)
    BY <1>11 DEF Settled
  <2>4. Private(c)'
    BY <1>1, <2>2, <2>3 DEF Private, InRead, ReadSession
  <2>. QED  BY <2>1, <2>4
<1>13. Ahead(c) \in Nat /\ Ahead(c)' \in Nat /\ Ahead(c) <= Ahead(c)'
  <2>1. up[c] = <<>> => up'[c] = <<>>
    BY <1>6
  <2>2. Ahead(c) \in {0, 1} /\ Ahead(c)' \in {0, 1} /\ (Ahead(c) = 1 => Ahead(c)' = 1)
    BY <1>1, <2>1 DEF Ahead
  <2>. QED  BY <2>2
<1>14. /\ sess[c].counter \in Nat /\ \A x \in Entry : rd[x].counter \in Nat /\ wr[x].counter \in Nat
       /\ \A b \in seals : b.ctr \in Nat
  BY DEF TunnelType, TypeOK, ClientTypeOK, ClientSession, ReadSlot, WriteSlot, Box
<1>15. \A k \in Nat : k <= sess[c].counter + Ahead(c) => k <= sess[c].counter + Ahead(c)'
  BY <1>13, <1>14
<1>16. /\ InRead(c)' = InRead(c) /\ ReadSession(c)' = ReadSession(c) /\ Sealing(c)' = Sealing(c)
       /\ WriteSession(c)' = WriteSession(c)
  BY <1>1 DEF InRead, ReadSession, WriteSession, Sealing
<1>17. ReadStep(c)'
  <2>1. ReadStep(c)
    BY <1>11 DEF Settled
  <2>. QED  BY <1>1, <1>7, <1>9, <1>14, <1>15, <1>16, <2>1 DEF ReadStep
<1>18. WriteStep(c)'
  <2>1. WriteStep(c)
    BY <1>11 DEF Settled
  <2>. QED  BY <1>1, <1>9, <1>14, <1>15, <1>16, <2>1 DEF WriteStep
<1>19. ASSUME NEW n \in Elems(up'[c])
       PROVE  Tracked(c, n)'
  <2>1. Tracked(c, n)
    BY <1>7, <1>11, <1>19 DEF Settled
  <2>. QED  BY <1>1, <1>9, <1>16, <2>1 DEF Tracked, Asked
<1>20. ASSUME NEW n \in Elems(down'[c])
       PROVE  Answered(c, n)'
  <2>1. Answered(c, n)
    BY <1>7, <1>11, <1>20 DEF Settled
  <2>. QED  BY <1>1, <1>9, <1>16, <2>1 DEF Answered
<1>21. Settled(c)'
  BY <1>10, <1>12, <1>17, <1>18, <1>19, <1>20 DEF Settled
<1>. QED  BY <1>8, <1>21, ClientMove

-----------------------------------------------------------------------------
(* The steps in which a client sends a request. *)

\* A random that no client has drawn yet is nowhere in use.
LEMMA FreshRandom ==
    ASSUME TunnelType, RandomInv, NEW x \in Nat, x > crand
    PROVE  /\ \A t \in cseals : t.cr # x
           /\ \A b \in seals : b.cr # x
           /\ \A e \in Entry : Session(e) => rd[e].base.cr # x
           /\ \A d \in Client : \A m \in Elems(up[d]) : m.q.shape = "challenge" => m.q.cr # x
<1>1. crand \in Nat /\ \A y : y <= crand => y # x
  BY DEF TunnelType, ClientTypeOK
<1>2. ASSUME NEW d \in Client, NEW m \in Elems(up[d]), m.q.shape = "challenge"
      PROVE  m.q.cr # x
  <2>1. up[d] \in Seq(Ready)
    BY DEF RandomInv
  <2>2. m \in Ready
    BY <1>2, <2>1 DEF Elems
  <2>. QED  BY <1>1, <1>2, <2>2 DEF Ready, ReadRandom
<1>. QED  BY <1>1, <1>2 DEF RandomInv, ReadRandom

\* Client c sends the frame n, and waits for nothing else.
Asks(c, n) ==
    /\ up' = [up EXCEPT ![c] = Append(@, n)] /\ n.live
    /\ NoLive(up[c]) /\ NoLive(down'[c]) /\ Elems(down'[c]) \subseteq Elems(down[c])
    /\ down'[c] \in Seq(Answer) /\ \A d \in Client \ {c} : down'[d] = down[d]

\* A verb or a poll that starts; between two polls nothing is on its way up.
LEMMA AskIdle ==
    ASSUME TunnelType, TransitInv, NEW c \in Client, NEW n, pc[c] = "idle", down' = down, n.live,
           up' = [up EXCEPT ![c] = Append(@, n)]
    PROVE  Asks(c, n) /\ (sess[c].in_use => up[c] = <<>>)
<1>1. Wire(c) /\ \A m \in Elems(up[c]) : Tracked(c, m)
  BY DEF TransitInv
<1>2. NoLive(up[c]) /\ NoLive(down[c]) /\ up[c] \in Seq(Frame) /\ down[c] \in Seq(Answer)
  BY <1>1 DEF Wire, TunnelType, ClientTypeOK
<1>3. ASSUME sess[c].in_use, up[c] # <<>>
      PROVE  FALSE
  <2>1. Head(up[c]) \in Elems(up[c])
    BY <1>2, <1>3, ElemsEnds
  <2>. QED  BY <1>1, <1>2, <1>3, <2>1 DEF Tracked, NoLive
<1>. QED  BY <1>2, <1>3 DEF Asks

\* The next request of a verb, sent when the answer to the last one came.
LEMMA AskNext ==
    ASSUME TunnelType, TransitInv, NEW c \in Client, NEW n, HasReply(c), n.live,
           down' = [down EXCEPT ![c] = Tail(@)], up' = [up EXCEPT ![c] = Append(@, n)]
    PROVE  Asks(c, n) /\ up[c] = <<>>
<1>1. up[c] = <<>> /\ down'[c] = <<>> /\ \A d \in Client \ {c} : down'[d] = down[d]
  BY AnswerTaken
<1>2. <<>> \in Seq(Answer)
  OBVIOUS
<1>3. NoLive(up[c]) /\ NoLive(down'[c]) /\ Elems(down'[c]) = {}
  BY <1>1, NoElems
<1>. QED  BY <1>1, <1>2, <1>3 DEF Asks

\* Sending is a step of client c alone.
LEMMA AskAlone ==
    ASSUME TunnelType, TransitInv, NEW c \in Client, NEW p, NEW o, NEW s, NEW W, NEW n,
           Moves(c, p, o, s), Watches(c, W), UNCHANGED vars, SealsFresh(c), cseals \subseteq cseals',
           Asks(c, n), n.q.shape = "challenge" => n.q.cr > crand
    PROVE  /\ Alone(c) /\ pc'[c] = p /\ op'[c] = o /\ sess'[c] = s /\ seen'[c] = W
           /\ up'[c] = Append(up[c], n) /\ up'[c] # <<>> /\ Elems(up'[c]) = Elems(up[c]) \cup {n}
           /\ \A d \in Client \ {c} : up'[d] = up[d]
           /\ UNCHANGED <<rd, wr, value, seals, applied>>
           /\ \A x : Session(x)' = Session(x) /\ WSession(x)' = WSession(x)
<1>1. up[c] \in Seq(Frame) /\ up'[c] = Append(up[c], n) /\ \A d \in Client \ {c} : up'[d] = up[d]
  BY DEF Asks, TunnelType, ClientTypeOK
<1>2. Elems(up'[c]) = Elems(up[c]) \cup {n} /\ up'[c] # <<>>
  BY <1>1, ElemsEnds
<1>3. \A d \in Client \ {c} : up'[d] = up[d] /\ down'[d] = down[d]
  BY <1>1 DEF Asks
<1>4. \A x \in Elems(up'[c]) : x.q.shape = "challenge" =>
          x.q.cr > crand \/ \E y \in Elems(up[c]) : y.q = x.q
  BY <1>2
<1>5. Alone(c) /\ pc'[c] = p /\ op'[c] = o /\ sess'[c] = s /\ seen'[c] = W
  BY <1>3, <1>4, AloneMove
<1>. QED  BY <1>1, <1>2, <1>5, AloneServer

\* The same with the facts that are left to be shown.
LEMMA AskTransit ==
    ASSUME TunnelType, RandomInv, TransitInv, NEW c \in Client, NEW n, Alone(c), Asks(c, n),
           pc'[c] # "idle",
           \/ up[c] = <<>>
           \/ ~sess'[c].in_use /\ ~Sealing(c)' /\ (InRead(c)' => op'[c].cr > crand),
           Tracked(c, n)', Doing(c)', Private(c)', ReadStep(c)', WriteStep(c)'
    PROVE  TransitInv'
<1>1. up'[c] = Append(up[c], n)
  BY DEF Asks, TunnelType, ClientTypeOK
<1>. QED  BY <1>1, Asking DEF Asks

\* StartRead: the challenge carries a random that was never used.
LEMMA StartReadTransit ==
    ASSUME TunnelType, RandomInv, TransitInv, NEW c \in Client, NEW e \in RO, NEW cyc \in BOOLEAN,
           StartRead(c, e, cyc)
    PROVE  TransitInv'
<1>1. PICK k, x, o, q, n, W :
           /\ k = WireKidOf(c, cyc) /\ x = crand + 1 /\ W = {value[CellOf[e]]}
           /\ o = [e |-> e, kid |-> k, cr |-> x, box |-> NoBox] /\ q = Bare("challenge", k, x)
           /\ n = [e |-> e, q |-> q, live |-> TRUE]
  OBVIOUS
<1>2. /\ pc[c] = "idle" /\ ~sess[c].in_use /\ crand' = x /\ UNCHANGED <<vars, sess, down, cseals>>
      /\ op' = [op EXCEPT ![c] = o] /\ pc' = [pc EXCEPT ![c] = "read1"]
      /\ up' = [up EXCEPT ![c] = Append(@, n)] /\ seen' = [seen EXCEPT ![c] = W]
  BY <1>1 DEF StartRead, Send
<1>3. /\ crand \in Nat /\ x \in Nat /\ x > crand /\ sess = [sess EXCEPT ![c] = sess[c]]
  BY <1>1 DEF TunnelType, ClientTypeOK
<1>4. W \in SUBSET Word
  BY <1>1, SodConstants DEF TunnelType, TypeOK, Entry
<1>5. /\ n.live /\ n.e = e /\ n.q = q /\ q.shape = "challenge" /\ q.cr = x /\ q.box = NoBox
      /\ o.e = e /\ o.kid = k /\ o.cr = x
  BY <1>1 DEF Bare
<1>6. Asks(c, n)
  BY <1>2, <1>5, AskIdle
<1>7. Moves(c, "read1", o, sess[c]) /\ Watches(c, W)
  BY <1>2, <1>3, <1>4 DEF Moves, Watches
<1>8. SealsFresh(c) /\ cseals \subseteq cseals'
  BY <1>1, <1>2, SealsNothing
<1>9. /\ Alone(c) /\ pc'[c] = "read1" /\ op'[c] = o /\ sess'[c] = sess[c] /\ seen'[c] = W
      /\ Elems(up'[c]) = Elems(up[c]) \cup {n} /\ \A d \in Client \ {c} : up'[d] = up[d]
      /\ UNCHANGED <<rd, wr, value, seals, applied>>
      /\ \A y : Session(y)' = Session(y) /\ WSession(y)' = WSession(y)
  <2>1. UNCHANGED vars /\ (n.q.shape = "challenge" => n.q.cr > crand)
    BY <1>2, <1>3, <1>5
  <2>. QED  BY <1>6, <1>7, <1>8, <2>1, AskAlone
<1>10. InRead(c)' /\ ~ReadSession(c)' /\ ~WriteSession(c)' /\ ~Sealing(c)'
  BY <1>2, <1>9 DEF InRead, ReadSession, WriteSession, Sealing
<1>11. /\ \A t \in cseals : t.cr # x
       /\ \A b \in seals : b.cr # x
       /\ \A y \in Entry : Session(y) => rd[y].base.cr # x
       /\ \A d \in Client : \A m \in Elems(up[d]) : m.q.shape = "challenge" => m.q.cr # x
  BY <1>3, FreshRandom
<1>12. Doing(c)'
  BY <1>2, <1>3, <1>5, <1>9, <1>10, <1>11 DEF Doing, ReadRandom
<1>13. Tracked(c, n)'
  BY <1>1, <1>2, <1>5, <1>9, <1>10 DEF Tracked, Asked
<1>14. Private(c)'
  BY <1>5, <1>9, <1>10, <1>11 DEF Private
<1>15. ReadStep(c)'
  <2>1. value[CellOf[e]] \in W
    BY <1>1
  <2>. QED  BY <1>5, <1>9, <1>10, <1>11, <2>1 DEF ReadStep
<1>16. WriteStep(c)'
  BY <1>9, <1>10 DEF WriteStep
<1>17. ~sess'[c].in_use /\ op'[c].cr > crand
  BY <1>2, <1>3, <1>5, <1>9
<1>. QED  BY <1>6, <1>9, <1>10, <1>12, <1>13, <1>14, <1>15, <1>16, <1>17, AskTransit

\* StartWrite: nothing of the client's own is in use yet.
LEMMA StartWriteTransit ==
    ASSUME TunnelType, RandomInv, TransitInv, NEW c \in Client, NEW e \in WO, NEW cyc \in BOOLEAN,
           StartWrite(c, e, cyc)
    PROVE  TransitInv'
<1>1. PICK o, n :
           /\ o = [e |-> e, kid |-> WireKidOf(c, cyc), cr |-> 0, box |-> NoBox]
           /\ n = [e |-> e, q |-> Bare("empty", 0, 0), live |-> TRUE]
  OBVIOUS
<1>2. /\ pc[c] = "idle" /\ ~sess[c].in_use /\ crand' = crand
      /\ UNCHANGED <<vars, sess, down, cseals, seen>>
      /\ op' = [op EXCEPT ![c] = o] /\ pc' = [pc EXCEPT ![c] = "write1"]
      /\ up' = [up EXCEPT ![c] = Append(@, n)]
  BY <1>1 DEF StartWrite, Send
<1>3. sess = [sess EXCEPT ![c] = sess[c]]
  BY DEF TunnelType, ClientTypeOK
<1>4. n.live /\ n.q.shape = "empty" /\ n.q.box = NoBox
  BY <1>1 DEF Bare
<1>5. Asks(c, n)
  BY <1>2, <1>4, AskIdle
<1>6. PICK W : Watches(c, W)
  BY <1>2, WindowKept
<1>7. Moves(c, "write1", o, sess[c])
  BY <1>2, <1>3 DEF Moves
<1>8. SealsFresh(c) /\ cseals \subseteq cseals'
  BY <1>2, SealsNothing
<1>9. Alone(c) /\ pc'[c] = "write1" /\ sess'[c] = sess[c]
  BY <1>2, <1>4, <1>5, <1>6, <1>7, <1>8, AskAlone
<1>10. ~InRead(c)' /\ ~ReadSession(c)' /\ ~WriteSession(c)' /\ ~Sealing(c)'
  BY <1>2, <1>9 DEF InRead, ReadSession, WriteSession, Sealing
<1>11. Doing(c)' /\ Private(c)' /\ ReadStep(c)' /\ WriteStep(c)'
  BY <1>2, <1>9, <1>10 DEF Doing, Private, ReadStep, WriteStep
<1>12. Tracked(c, n)'
  BY <1>2, <1>4, <1>9, <1>10 DEF Tracked, Asked
<1>. QED  BY <1>2, <1>5, <1>9, <1>10, <1>11, <1>12, AskTransit

\* Read1Reply, when the challenge was accepted: the response is asked for.
LEMMA Read1Transit ==
    ASSUME TunnelType, RandomInv, TransitInv, ~RetryPolls, NEW c \in Client, Read1Reply(c)
    PROVE  TransitInv'
<1>1. /\ HasReply(c) /\ down' = [down EXCEPT ![c] = Tail(@)] /\ UNCHANGED <<vars, cseals>>
      /\ crand' = crand /\ pc[c] = "read1"
  BY DEF Read1Reply
<1>2. CASE Fail(c) /\ UNCHANGED up /\ seen' = [seen EXCEPT ![c] = {}]
  BY <1>1, <1>2, FailEnds
<1>3. CASE /\ pc' = [pc EXCEPT ![c] = "read2"] /\ UNCHANGED <<op, sess, seen>>
           /\ Send(c, op[c].e, Bare("empty", 0, 0))
  <2>1. PICK n : n = [e |-> op[c].e, q |-> Bare("empty", 0, 0), live |-> TRUE]
    OBVIOUS
  <2>2. n.live /\ n.q.shape = "empty" /\ n.q.box = NoBox
    BY <2>1 DEF Bare
  <2>3. up' = [up EXCEPT ![c] = Append(@, n)]
    BY <1>3, <2>1 DEF Send
  <2>4. Asks(c, n) /\ up[c] = <<>>
    BY <1>1, <2>2, <2>3, AskNext
  <2>5. PICK W : Watches(c, W)
    BY <1>3, WindowKept
  <2>6. SealsFresh(c) /\ cseals \subseteq cseals'
    BY <1>1, SealsNothing
  <2>7. op = [op EXCEPT ![c] = op[c]] /\ sess = [sess EXCEPT ![c] = sess[c]]
    BY DEF TunnelType, ClientTypeOK
  <2>8. Moves(c, "read2", op[c], sess[c])
    BY <1>3, <2>7 DEF Moves
  <2>9. UNCHANGED vars /\ (n.q.shape = "challenge" => n.q.cr > crand)
    BY <1>1, <2>2
  <2>10. /\ Alone(c) /\ pc'[c] = "read2" /\ op'[c] = op[c] /\ sess'[c] = sess[c]
         /\ Elems(up'[c]) = Elems(up[c]) \cup {n} /\ \A d \in Client \ {c} : up'[d] = up[d]
         /\ UNCHANGED <<rd, wr, value, seals, applied>>
         /\ \A y : Session(y)' = Session(y) /\ WSession(y)' = WSession(y)
    BY <2>4, <2>5, <2>6, <2>8, <2>9, AskAlone
  <2>11. Doing(c) /\ Private(c) /\ ReadStep(c)
    BY DEF TransitInv
  <2>12. /\ InRead(c) /\ InRead(c)' /\ ~sess[c].in_use /\ ~ReadSession(c)' /\ ~WriteSession(c)'
         /\ ~Sealing(c)' /\ Elems(up'[c]) = {n}
    BY <1>1, <2>4, <2>10, <2>11, NoElems DEF Doing, InRead, ReadSession, WriteSession, Sealing
  <2>13. Doing(c)'
    BY <1>1, <2>10, <2>11, <2>12 DEF Doing, ReadRandom
  <2>14. Private(c)'
    BY <2>2, <2>10, <2>11, <2>12 DEF Private
  <2>15. ReadStep(c)'
    BY <1>1, <1>3, <2>2, <2>10, <2>11, <2>12 DEF ReadStep
  <2>16. WriteStep(c)'
    BY <2>10, <2>12 DEF WriteStep
  <2>17. Tracked(c, n)'
    BY <2>2, <2>10, <2>12 DEF Tracked, Asked
  <2>. QED  BY <2>4, <2>10, <2>13, <2>14, <2>15, <2>16, <2>17, AskTransit
<1>. QED  BY <1>2, <1>3 DEF Read1Reply

\* Write1Reply: the client seals under a random that was never used.
LEMMA Write1Transit ==
    ASSUME TunnelType, RandomInv, TransitInv, ~RetryPolls, NEW c \in Client, Write1Reply(c)
    PROVE  TransitInv'
<1>1. HasReply(c) /\ down' = [down EXCEPT ![c] = Tail(@)] /\ UNCHANGED <<vars, seen>> /\ pc[c] = "write1"
  BY DEF Write1Reply
<1>2. CASE Fail(c) /\ UNCHANGED <<up, crand, cseals>>
  BY <1>1, <1>2, FailEnds
<1>3. ASSUME crand' = crand + 1, NEW pt \in PlainFor(op[c].e), UNCHANGED sess, NEW box,
             box = Seal(Holder[c].key, crand', ReplyOf(c).sr, 0, "WRITE_REQUEST",
                        op[c].kid, c, op[c].e, pt),
             op' = [op EXCEPT ![c].cr = crand', ![c].box = box],
             cseals' = cseals \cup {box},
             Send(c, op[c].e, [shape |-> "write", b |-> op[c].kid, cr |-> crand', box |-> box]),
             pc' = [pc EXCEPT ![c] = "write2"]
      PROVE  TransitInv'
  <2>1. PICK x, s, o, n :
              /\ x = crand' /\ s = sess[c] /\ o = [op[c] EXCEPT !.cr = crand', !.box = box]
              /\ n = [e |-> op[c].e, live |-> TRUE,
                      q |-> [shape |-> "write", b |-> op[c].kid, cr |-> crand', box |-> box]]
    OBVIOUS
  <2>2. crand \in Nat /\ x \in Nat /\ x > crand /\ crand' = x
    BY <1>3, <2>1 DEF TunnelType, ClientTypeOK
  <2>3. /\ box.cr = x /\ box.cli = c /\ box.ctr = 0 /\ box.kid = op[c].kid /\ box.e = op[c].e
    BY <1>3, <2>1 DEF Seal
  <2>4. /\ n.live /\ n.e = op[c].e /\ n.q.shape = "write" /\ n.q.box = box
    BY <2>1
  <2>5. /\ op \in [Client -> Verb] /\ op[c] \in Verb /\ sess = [sess EXCEPT ![c] = s]
    BY <2>1 DEF TunnelType, ClientTypeOK
  <2>6. o.e = op[c].e /\ o.kid = op[c].kid /\ o.cr = x /\ o.box = box
    BY <2>1, <2>5 DEF Verb
  <2>7. op' = [op EXCEPT ![c] = o]
    BY <1>3, <2>1, <2>5
  <2>8. up' = [up EXCEPT ![c] = Append(@, n)]
    BY <1>3, <2>1 DEF Send
  <2>9. Asks(c, n) /\ up[c] = <<>>
    BY <1>1, <2>4, <2>8, AskNext
  <2>10. PICK W : Watches(c, W)
    BY <1>1, WindowKept
  <2>11. SealsFresh(c) /\ cseals \subseteq cseals'
    BY <1>3, <2>2, <2>3 DEF SealsFresh
  <2>12. Moves(c, "write2", o, s)
    BY <1>3, <2>5, <2>7 DEF Moves
  <2>13. UNCHANGED vars /\ (n.q.shape = "challenge" => n.q.cr > crand)
    BY <1>1, <2>4
  <2>14. /\ Alone(c) /\ pc'[c] = "write2" /\ op'[c] = o /\ sess'[c] = s
         /\ UNCHANGED <<rd, wr, value, seals, applied>>
         /\ \A y : Session(y)' = Session(y) /\ WSession(y)' = WSession(y)
    BY <2>9, <2>10, <2>11, <2>12, <2>13, AskAlone
  <2>15. Doing(c) /\ SlotsInv /\ \A t \in cseals : t.cr # x
    BY <2>2, FreshRandom DEF TransitInv
  <2>16. ~s.in_use /\ ~InRead(c)' /\ ~ReadSession(c)' /\ ~WriteSession(c)' /\ Sealing(c)'
    BY <1>1, <2>1, <2>14, <2>15 DEF Doing, InRead, ReadSession, WriteSession, Sealing
  <2>17. Doing(c)'
    <3>1. o.box \in cseals' /\ o.box.cli = c
      BY <1>3, <2>3, <2>6
    <3>2. o.box.cr = o.cr /\ o.box.ctr = 0 /\ o.box.kid = o.kid /\ o.box.e = o.e
      BY <2>3, <2>6
    <3>. QED  BY <2>14, <2>16, <3>1, <3>2 DEF Doing
  <2>18. Private(c)' /\ ReadStep(c)'
    BY <2>14, <2>16 DEF Private, ReadStep
  <2>19. \A y \in Entry : WSession(y) => wr[y].base.cr # x
    BY <2>15 DEF SlotsInv
  <2>20. WriteStep(c)'
    BY <2>6, <2>14, <2>16, <2>19 DEF WriteStep
  <2>21. box \notin applied
    BY <2>3, <2>15 DEF SlotsInv
  <2>22. Tracked(c, n)'
    BY <1>3, <2>3, <2>4, <2>6, <2>14, <2>16, <2>21 DEF Tracked, Asked
  <2>. QED  BY <2>9, <2>14, <2>17, <2>18, <2>20, <2>22, AskTransit
<1>. QED  BY <1>2, <1>3 DEF Write1Reply

\* PollRead: nothing is sealed yet under the counter that is asked for.
LEMMA PollReadTransit ==
    ASSUME TunnelType, RandomInv, TransitInv, NEW c \in Client, PollRead(c)
    PROVE  TransitInv'
<1>1. PICK s, o, n, W :
           /\ s = sess[c] /\ o = [op[c] EXCEPT !.e = sess[c].e] /\ W = {value[CellOf[sess[c].e]]}
           /\ n = [e |-> sess[c].e, q |-> Bare("byte", (sess[c].counter + 1) % 256, 0), live |-> TRUE]
  OBVIOUS
<1>2. /\ op \in [Client -> Verb] /\ op[c] \in Verb /\ sess = [sess EXCEPT ![c] = s]
      /\ s.counter \in Nat
  BY <1>1 DEF TunnelType, ClientTypeOK, ClientSession
<1>3. /\ pc[c] = "idle" /\ s.in_use /\ s.e \in RO /\ crand' = crand
      /\ UNCHANGED <<vars, sess, down, cseals>>
      /\ op' = [op EXCEPT ![c].e = s.e] /\ pc' = [pc EXCEPT ![c] = "pollr"]
      /\ up' = [up EXCEPT ![c] = Append(@, n)] /\ seen' = [seen EXCEPT ![c] = W]
  BY <1>1 DEF PollRead, Send
<1>4. op' = [op EXCEPT ![c] = o] /\ o.e = s.e
  BY <1>1, <1>2, <1>3 DEF Verb
<1>5. W \in SUBSET Word
  BY <1>1, <1>3, SodConstants DEF TunnelType, TypeOK, Entry
<1>6. n.live /\ n.e = s.e /\ n.q.shape = "byte" /\ n.q.box = NoBox
  BY <1>1 DEF Bare
<1>7. Asks(c, n) /\ up[c] = <<>>
  BY <1>1, <1>3, <1>6, AskIdle
<1>8. Moves(c, "pollr", o, s) /\ Watches(c, W)
  BY <1>2, <1>3, <1>4, <1>5 DEF Moves, Watches
<1>9. SealsFresh(c) /\ cseals \subseteq cseals'
  BY <1>3, SealsNothing
<1>10. UNCHANGED vars /\ (n.q.shape = "challenge" => n.q.cr > crand)
  BY <1>3, <1>6
<1>11. /\ Alone(c) /\ pc'[c] = "pollr" /\ op'[c] = o /\ sess'[c] = s /\ seen'[c] = W /\ up'[c] # <<>>
       /\ Elems(up'[c]) = Elems(up[c]) \cup {n} /\ \A d \in Client \ {c} : up'[d] = up[d]
       /\ UNCHANGED <<rd, wr, value, seals, applied>>
       /\ \A y : Session(y)' = Session(y) /\ WSession(y)' = WSession(y)
  BY <1>7, <1>8, <1>9, <1>10, AskAlone
<1>12. Doing(c) /\ Private(c) /\ ReadStep(c)
  BY DEF TransitInv
<1>13. /\ ReadSession(c) /\ ReadSession(c)' /\ ~InRead(c)' /\ ~Sealing(c)' /\ ~WriteSession(c)'
  BY <1>1, <1>3, <1>11, TunnelConstants DEF ReadSession, InRead, Sealing, WriteSession
<1>14. Ahead(c) = 0 /\ Ahead(c)' = 0
  BY <1>3, <1>11 DEF Ahead
<1>15. Doing(c)'
  BY <1>1, <1>3, <1>4, <1>11, <1>12, <1>13 DEF Doing, ReadRandom
<1>16. Private(c)'
  BY <1>1, <1>6, <1>7, <1>11, <1>12, <1>13, NoElems DEF Private
<1>17. ReadStep(c)'
  <2>1. ASSUME NEW b \in seals, b.cr = s.base.cr, b.sr = s.base.sr
        PROVE  b.ctr <= s.counter /\ b.ctr # s.counter + 1
    <3>1. b.ctr \in Nat /\ b.ctr <= s.counter + 0
      BY <1>1, <1>12, <1>13, <1>14, <2>1 DEF ReadStep, TunnelType, TypeOK, Box
    <3>. QED  BY <1>2, <3>1
  <2>2. ASSUME NEW e \in Entry, Session(e), rd[e].base = s.base
        PROVE  /\ rd[e].cli = c /\ rd[e].key_id = s.kid /\ e = s.e
               /\ s.counter <= rd[e].counter /\ rd[e].counter <= s.counter + 0
    BY <1>1, <1>12, <1>13, <1>14, <2>2 DEF ReadStep
  <2>3. value[CellOf[s.e]] \in W
    BY <1>1
  <2>4. \A b \in seals : b.cr = s.base.cr /\ b.sr = s.base.sr => b.ctr <= s.counter + 0
    BY <1>2, <2>1
  <2>. QED  BY <1>4, <1>11, <1>13, <1>14, <2>1, <2>2, <2>3, <2>4 DEF ReadStep
<1>18. WriteStep(c)'
  BY <1>11, <1>13 DEF WriteStep
<1>19. Tracked(c, n)'
  BY <1>3, <1>6, <1>11, <1>13 DEF Tracked, Asked
<1>. QED  BY <1>7, <1>11, <1>15, <1>16, <1>17, <1>18, <1>19, AskTransit

\* PollWrite: the counter the client seals under was not used before.
LEMMA PollWriteTransit ==
    ASSUME TunnelType, RandomInv, TransitInv, NEW c \in Client, PollWrite(c)
    PROVE  TransitInv'
<1>1. PICK s, e : s = sess[c] /\ e = sess[c].e
  OBVIOUS
<1>2. /\ pc[c] = "idle" /\ UNCHANGED <<vars, sess, seen>> /\ crand' = crand /\ down' = down
      /\ s.in_use /\ e \in WO /\ pc' = [pc EXCEPT ![c] = "pollw"]
  BY <1>1 DEF PollWrite
<1>3. /\ op \in [Client -> Verb] /\ op[c] \in Verb /\ sess = [sess EXCEPT ![c] = s] /\ crand \in Nat
      /\ s.counter \in Nat /\ \A t \in cseals : t.ctr \in Nat
  BY <1>1 DEF TunnelType, ClientTypeOK, ClientSession, Box
<1>4. \E pt \in PlainFor(e) : \E box :
           /\ box = Seal(Holder[c].key, s.base.cr, s.base.sr, s.counter + 1,
                         "WRITE_POLL_REQUEST", s.kid, c, e, pt)
           /\ op' = [op EXCEPT ![c].e = e, ![c].box = box]
           /\ cseals' = cseals \cup {box}
           /\ Send(c, e, [shape |-> "poll", b |-> (s.counter + 1) % 256, cr |-> 0, box |-> box])
  BY <1>1 DEF PollWrite
<1>5. PICK box :
           /\ \E pt \in PlainFor(e) :
                 box = Seal(Holder[c].key, s.base.cr, s.base.sr, s.counter + 1,
                            "WRITE_POLL_REQUEST", s.kid, c, e, pt)
           /\ op' = [op EXCEPT ![c].e = e, ![c].box = box]
           /\ cseals' = cseals \cup {box}
           /\ Send(c, e, [shape |-> "poll", b |-> (s.counter + 1) % 256, cr |-> 0, box |-> box])
  BY <1>4
<1>6. box.cr = s.base.cr /\ box.cli = c /\ box.ctr = s.counter + 1 /\ box.kid = s.kid /\ box.e = e
  BY <1>5 DEF Seal
<1>7. PICK o, n : /\ o = [op[c] EXCEPT !.e = e, !.box = box]
                  /\ n = [e |-> e, live |-> TRUE,
                          q |-> [shape |-> "poll", b |-> (s.counter + 1) % 256, cr |-> 0, box |-> box]]
  OBVIOUS
<1>8. op' = [op EXCEPT ![c] = o] /\ o.box = box /\ up' = [up EXCEPT ![c] = Append(@, n)]
  <2>1. o.box = box
    BY <1>3, <1>7 DEF Verb
  <2>2. op' = [op EXCEPT ![c] = o]
    BY <1>3, <1>5, <1>7
  <2>. QED  BY <1>5, <1>7, <2>1, <2>2 DEF Send
<1>9. n.live /\ n.e = e /\ n.q.shape = "poll" /\ n.q.box = box
  BY <1>7
<1>10. Asks(c, n) /\ up[c] = <<>>
  BY <1>1, <1>2, <1>8, <1>9, AskIdle
<1>11. Moves(c, "pollw", o, s)
  BY <1>2, <1>3, <1>8 DEF Moves
<1>12. Owned(c, s.base.cr, s.counter)
  BY <1>1, <1>2 DEF RandomInv, Mine
<1>13. box \notin cseals
  <2>1. ASSUME box \in cseals
        PROVE  FALSE
    <3>1. box.ctr <= s.counter
      BY <1>6, <1>12, <2>1 DEF Owned
    <3>. QED  BY <1>3, <1>6, <3>1
  <2>. QED  BY <2>1
<1>14. SealsFresh(c) /\ cseals \subseteq cseals'
  <2>1. \E u \in cseals : u.cr = box.cr /\ u.cli = c
    BY <1>6, <1>12 DEF Owned
  <2>. QED  BY <1>2, <1>3, <1>5, <2>1 DEF SealsFresh
<1>15. PICK W : Watches(c, W)
  BY <1>2, WindowKept
<1>16. UNCHANGED vars /\ (n.q.shape = "challenge" => n.q.cr > crand)
  BY <1>2, <1>9
<1>17. /\ Alone(c) /\ pc'[c] = "pollw" /\ op'[c] = o /\ sess'[c] = s /\ up'[c] # <<>>
       /\ UNCHANGED <<rd, wr, value, seals, applied>>
       /\ \A y : Session(y)' = Session(y) /\ WSession(y)' = WSession(y)
  BY <1>10, <1>11, <1>14, <1>15, <1>16, AskAlone
<1>18. Doing(c) /\ WriteStep(c) /\ SlotsInv
  BY DEF TransitInv
<1>19. /\ ~ReadSession(c)' /\ ~InRead(c)' /\ Sealing(c)' /\ WriteSession(c)' /\ WriteSession(c)
  BY <1>1, <1>2, <1>17, TunnelConstants DEF ReadSession, InRead, Sealing, WriteSession
<1>20. Ahead(c) = 0 /\ Ahead(c)' = 0
  BY <1>2, <1>17 DEF Ahead
<1>21. Doing(c)'
  <2>1. ASSUME NEW t \in cseals', t.cr = s.base.cr
        PROVE  t.kid = s.kid /\ t.e = s.e
    BY <1>1, <1>5, <1>6, <1>18, <1>19, <2>1 DEF Doing
  <2>2. o.box \in cseals' /\ o.box.cli = c /\ o.box.cr = s.base.cr /\ o.box.ctr = s.counter + 1
    BY <1>5, <1>6, <1>8
  <2>. QED  BY <1>17, <1>19, <2>1, <2>2 DEF Doing
<1>22. Private(c)' /\ ReadStep(c)'
  BY <1>17, <1>19 DEF Private, ReadStep
<1>23. WriteStep(c)'
  BY <1>1, <1>17, <1>18, <1>19, <1>20 DEF WriteStep
<1>24. box \notin applied
  BY <1>13, <1>18 DEF SlotsInv
<1>25. Tracked(c, n)'
  BY <1>1, <1>5, <1>6, <1>8, <1>9, <1>17, <1>19, <1>24 DEF Tracked, Asked
<1>. QED  BY <1>10, <1>17, <1>21, <1>22, <1>23, <1>25, AskTransit

-----------------------------------------------------------------------------
(* The replies after which a client keeps its session. *)

\* An answer that ends the verb or the poll with the session s.
LEMMA AnswerKeeps ==
    ASSUME TunnelType, TransitInv, NEW c \in Client, NEW s, HasReply(c),
           down' = [down EXCEPT ![c] = Tail(@)], Succeed(c, s), UNCHANGED <<vars, up, cseals>>,
           crand' = crand, seen' = seen \/ seen' = [seen EXCEPT ![c] = {}]
    PROVE  /\ Alone(c) /\ pc'[c] = "idle" /\ sess'[c] = s /\ up'[c] = <<>> /\ down'[c] = <<>>
           /\ up[c] = <<>> /\ Answered(c, Head(down[c])) /\ Head(down[c]).live
           /\ UNCHANGED <<rd, wr, value, seals, applied>>
           /\ \A y : Session(y)' = Session(y) /\ WSession(y)' = WSession(y)
<1>1. /\ up[c] = <<>> /\ down'[c] = <<>> /\ \A d \in Client \ {c} : down'[d] = down[d]
      /\ Answered(c, Head(down[c])) /\ Head(down[c]).live
  BY AnswerTaken
<1>2. PICK W : Watches(c, W)
  BY WindowKept
<1>3. SealsFresh(c) /\ cseals \subseteq cseals'
  BY SealsNothing
<1>4. up'[c] = <<>> /\ Elems(up'[c]) = {}
  BY <1>1, NoElems
<1>5. Moves(c, "idle", NoOp, s)
  BY DEF Succeed, Moves
<1>6. Alone(c) /\ pc'[c] = "idle" /\ sess'[c] = s
  BY <1>1, <1>2, <1>3, <1>4, <1>5, AloneMove
<1>. QED  BY <1>1, <1>4, <1>6, AloneServer

\* Read2Reply: an armed read whose response was accepted.
LEMMA Read2Transit ==
    ASSUME TunnelType, RandomInv, TransitInv, ~RetryPolls, NEW c \in Client, Read2Reply(c)
    PROVE  TransitInv'
<1>1. /\ HasReply(c) /\ down' = [down EXCEPT ![c] = Tail(@)] /\ UNCHANGED <<vars, up, cseals>>
      /\ crand' = crand /\ pc[c] = "read2" /\ seen' = [seen EXCEPT ![c] = {}]
  BY DEF Read2Reply
<1>2. PICK s : s = [in_use |-> TRUE, e |-> op[c].e, kid |-> op[c].kid,
                    base |-> [cr |-> op[c].cr, sr |-> ReplyOf(c).box.sr], counter |-> 0]
  OBVIOUS
<1>3. CASE Fail(c) \/ Succeed(c, NoSession)
  BY <1>1, <1>3, FailEnds
<1>4. CASE Succeed(c, s)
  <2>1. /\ Alone(c) /\ pc'[c] = "idle" /\ sess'[c] = s /\ up'[c] = <<>> /\ down'[c] = <<>>
        /\ up[c] = <<>> /\ UNCHANGED <<rd, wr, value, seals, applied>>
        /\ \A y : Session(y)' = Session(y) /\ WSession(y)' = WSession(y)
    BY <1>1, <1>4, AnswerKeeps
  <2>2. s.in_use /\ s.e = op[c].e /\ s.kid = op[c].kid /\ s.base.cr = op[c].cr /\ s.counter = 0
    BY <1>2
  <2>3. Doing(c) /\ Private(c) /\ ReadStep(c) /\ op[c].e \in RO
    BY <1>1 DEF TransitInv, TunnelType, ClientTypeOK
  <2>4. InRead(c) /\ ~InRead(c)' /\ ReadSession(c)' /\ ~WriteSession(c)' /\ ~Sealing(c)' /\ Ahead(c)' = 0
    BY <1>1, <2>1, <2>2, <2>3, TunnelConstants DEF InRead, ReadSession, WriteSession, Sealing, Ahead
  <2>5. Doing(c)'
    BY <1>1, <2>1, <2>2, <2>3, <2>4 DEF Doing, ReadRandom
  <2>6. Private(c)'
    BY <1>1, <2>1, <2>2, <2>3, <2>4, NoElems DEF Private
  <2>7. ReadStep(c)'
    <3>1. ASSUME NEW e \in Entry, Session(e), rd[e].base = s.base
          PROVE  /\ rd[e].cli = c /\ rd[e].key_id = s.kid /\ e = s.e
                 /\ s.counter <= rd[e].counter /\ rd[e].counter <= s.counter + 0
      <4>1. /\ rd[e].cli = c /\ rd[e].key_id = op[c].kid /\ e = op[c].e /\ rd[e].counter = 0
        BY <2>2, <2>3, <2>4, <3>1 DEF ReadStep
      <4>. QED  BY <2>2, <4>1
    <3>2. ASSUME NEW b \in seals, b.cr = s.base.cr
          PROVE  b.ctr <= s.counter + 0
      <4>1. b.ctr = 0
        BY <2>2, <2>3, <2>4, <3>2 DEF ReadStep
      <4>. QED  BY <2>2, <4>1
    <3>. QED  BY <2>1, <2>4, <3>1, <3>2 DEF ReadStep
  <2>8. WriteStep(c)'
    BY <2>1, <2>4 DEF WriteStep
  <2>. QED  BY <2>1, <2>5, <2>6, <2>7, <2>8, BetweenPolls
<1>. QED  BY <1>2, <1>3, <1>4 DEF Read2Reply

\* Write2Reply: an armed write that was acknowledged.
LEMMA Write2Transit ==
    ASSUME TunnelType, RandomInv, TransitInv, ~RetryPolls, NEW c \in Client, Write2Reply(c)
    PROVE  TransitInv'
<1>1. /\ HasReply(c) /\ down' = [down EXCEPT ![c] = Tail(@)] /\ UNCHANGED <<vars, up, cseals, seen>>
      /\ crand' = crand /\ pc[c] = "write2"
  BY DEF Write2Reply
<1>2. PICK s : s = [in_use |-> TRUE, e |-> op[c].e, kid |-> op[c].kid,
                    base |-> [cr |-> op[c].cr, sr |-> op[c].box.sr], counter |-> 0]
  OBVIOUS
<1>3. CASE Fail(c) \/ Succeed(c, NoSession)
  BY <1>1, <1>3, FailEnds
<1>4. CASE Succeed(c, s)
  <2>1. /\ Alone(c) /\ pc'[c] = "idle" /\ sess'[c] = s /\ up'[c] = <<>> /\ down'[c] = <<>>
        /\ up[c] = <<>> /\ UNCHANGED <<rd, wr, value, seals, applied>>
        /\ \A y : Session(y)' = Session(y) /\ WSession(y)' = WSession(y)
    BY <1>1, <1>4, AnswerKeeps
  <2>2. s.in_use /\ s.e = op[c].e /\ s.kid = op[c].kid /\ s.base.cr = op[c].cr /\ s.counter = 0
    BY <1>2
  <2>3. Doing(c) /\ WriteStep(c) /\ op[c].e \in WO
    BY <1>1 DEF TransitInv, TunnelType, ClientTypeOK
  <2>4. ~InRead(c)' /\ ~ReadSession(c)' /\ WriteSession(c)' /\ ~Sealing(c)' /\ Ahead(c)' = 0
    BY <1>1, <2>1, <2>2, <2>3, TunnelConstants DEF InRead, ReadSession, WriteSession, Sealing, Ahead
  <2>5. ASSUME NEW t \in cseals, t.cr = s.base.cr
        PROVE  t.kid = s.kid /\ t.e = s.e
    <3>1. /\ op[c].box \in cseals /\ op[c].box.cr = op[c].cr /\ op[c].box.ctr = 0
          /\ op[c].box.kid = op[c].kid /\ op[c].box.e = op[c].e
      BY <1>1, <2>3 DEF Doing, Sealing
    <3>2. t.ctr \in Nat /\ t.ctr <= 0
      BY <1>1, <2>2, <2>5 DEF RandomInv, Mine, Owned, TunnelType, ClientTypeOK, Box
    <3>3. t.ctr = 0
      BY <3>2
    <3>4. t = op[c].box
      BY <2>2, <2>5, <3>1, <3>3 DEF RandomInv
    <3>. QED  BY <2>2, <3>1, <3>4
  <2>6. Doing(c)'
    BY <1>1, <2>1, <2>4, <2>5 DEF Doing
  <2>7. Private(c)' /\ ReadStep(c)'
    BY <2>1, <2>4 DEF Private, ReadStep
  <2>8. WriteStep(c)'
    <3>1. ASSUME NEW e \in Entry, WSession(e), wr[e].base.cr = s.base.cr
          PROVE  s.counter <= wr[e].counter /\ wr[e].counter <= s.counter + 0
      <4>1. wr[e].counter = 0
        BY <1>1, <2>2, <2>3, <3>1 DEF WriteStep
      <4>. QED  BY <2>2, <4>1
    <3>. QED  BY <2>1, <2>4, <3>1 DEF WriteStep
  <2>. QED  BY <2>1, <2>6, <2>7, <2>8, BetweenPolls
<1>. QED  BY <1>2, <1>3, <1>4 DEF Write2Reply

\* PollReadReply: the server sealed this answer, so it has counted the poll.
LEMMA PollReadReplyTransit ==
    ASSUME TunnelType, RandomInv, TransitInv, ~RetryPolls, NEW c \in Client, PollReadReply(c)
    PROVE  TransitInv'
<1>1. /\ HasReply(c) /\ down' = [down EXCEPT ![c] = Tail(@)] /\ UNCHANGED <<vars, up, cseals>>
      /\ crand' = crand /\ pc[c] = "pollr" /\ seen' = [seen EXCEPT ![c] = {}]
  BY DEF PollReadReply
<1>2. PICK s : s = [sess[c] EXCEPT !.counter = @ + 1]
  OBVIOUS
<1>3. CASE Fail(c)
  BY <1>1, <1>3, FailEnds
<1>4. CASE PollAccepted(c) /\ Succeed(c, s)
  <2>1. /\ Alone(c) /\ pc'[c] = "idle" /\ sess'[c] = s /\ up'[c] = <<>> /\ down'[c] = <<>>
        /\ up[c] = <<>> /\ UNCHANGED <<rd, wr, value, seals, applied>>
        /\ Answered(c, Head(down[c]))
        /\ \A y : Session(y)' = Session(y) /\ WSession(y)' = WSession(y)
    BY <1>1, <1>4, AnswerKeeps
  <2>2. /\ s.in_use = sess[c].in_use /\ s.e = sess[c].e /\ s.kid = sess[c].kid /\ s.base = sess[c].base
        /\ s.counter = sess[c].counter + 1 /\ sess[c].counter \in Nat
    BY <1>2 DEF TunnelType, ClientTypeOK, ClientSession
  <2>3. Doing(c) /\ Private(c) /\ ReadStep(c)
    BY DEF TransitInv
  <2>4. /\ ReadSession(c) /\ ~InRead(c)' /\ ReadSession(c)' /\ ~WriteSession(c)' /\ ~Sealing(c)'
        /\ Ahead(c) = 1 /\ Ahead(c)' = 0
    BY <1>1, <2>1, <2>2, <2>3, TunnelConstants
       DEF Doing, InRead, ReadSession, WriteSession, Sealing, Ahead
  <2>5. PICK box : box = ReplyOf(c).box
    OBVIOUS
  <2>6. box # NoBox /\ box.sr = s.base.sr /\ box.ctr = s.counter
    BY <1>4, <2>2, <2>5 DEF PollAccepted, PollOpens, Opens, Seal
  <2>7. box \in seals
    BY <2>1, <2>5, <2>6 DEF Answered, ReplyOf
  <2>8. Doing(c)'
    BY <1>1, <2>1, <2>2, <2>3, <2>4 DEF Doing, ReadRandom
  <2>9. Private(c)'
    BY <1>1, <2>1, <2>2, <2>3, <2>4 DEF Private
  <2>10. ReadStep(c)'
    <3>1. ASSUME NEW e \in Entry, Session(e), rd[e].base = s.base
          PROVE  /\ rd[e].cli = c /\ rd[e].key_id = s.kid /\ e = s.e
                 /\ s.counter <= rd[e].counter /\ rd[e].counter <= s.counter + 0
      <4>1. /\ rd[e].cli = c /\ rd[e].key_id = s.kid /\ e = s.e
            /\ rd[e].counter <= sess[c].counter + 1 /\ rd[e].counter \in Nat
        BY <2>2, <2>3, <2>4, <3>1 DEF ReadStep, TunnelType, TypeOK, ReadSlot
      <4>2. s.counter <= rd[e].counter
        BY <2>6, <2>7, <3>1 DEF RandomInv, NonceInv
      <4>. QED  BY <2>2, <4>1, <4>2
    <3>2. ASSUME NEW b \in seals, b.cr = s.base.cr, b.sr = s.base.sr
          PROVE  b.ctr <= s.counter + 0
      <4>1. b.ctr <= sess[c].counter + 1 /\ b.ctr \in Nat
        BY <2>2, <2>3, <2>4, <3>2 DEF ReadStep, TunnelType, TypeOK, Box
      <4>. QED  BY <2>2, <4>1
    <3>. QED  BY <2>1, <2>4, <3>1, <3>2 DEF ReadStep
  <2>11. WriteStep(c)'
    BY <2>1, <2>4 DEF WriteStep
  <2>. QED  BY <2>1, <2>8, <2>9, <2>10, <2>11, BetweenPolls
<1>. QED  BY <1>2, <1>3, <1>4 DEF PollReadReply

\* PollWriteReply: the acknowledgement says that the server has counted the poll.
LEMMA PollWriteReplyTransit ==
    ASSUME TunnelType, RandomInv, TransitInv, ~RetryPolls, NEW c \in Client, PollWriteReply(c)
    PROVE  TransitInv'
<1>1. /\ HasReply(c) /\ down' = [down EXCEPT ![c] = Tail(@)] /\ UNCHANGED <<vars, up, cseals, seen>>
      /\ crand' = crand /\ pc[c] = "pollw"
  BY DEF PollWriteReply
<1>2. PICK s : s = [sess[c] EXCEPT !.counter = @ + 1]
  OBVIOUS
<1>3. CASE Fail(c)
  BY <1>1, <1>3, FailEnds
<1>4. CASE ReplyOf(c).abort = "NONE" /\ Succeed(c, s)
  <2>1. /\ Alone(c) /\ pc'[c] = "idle" /\ sess'[c] = s /\ up'[c] = <<>> /\ down'[c] = <<>>
        /\ up[c] = <<>> /\ UNCHANGED <<rd, wr, value, seals, applied>>
        /\ Answered(c, Head(down[c])) /\ Head(down[c]).live
        /\ \A y : Session(y)' = Session(y) /\ WSession(y)' = WSession(y)
    BY <1>1, <1>4, AnswerKeeps
  <2>2. /\ s.in_use = sess[c].in_use /\ s.e = sess[c].e /\ s.kid = sess[c].kid /\ s.base = sess[c].base
        /\ s.counter = sess[c].counter + 1 /\ sess[c].counter \in Nat
    BY <1>2 DEF TunnelType, ClientTypeOK, ClientSession
  <2>3. Doing(c)
    BY DEF TransitInv
  <2>4. /\ WriteSession(c) /\ ~InRead(c)' /\ ~ReadSession(c)' /\ WriteSession(c)' /\ ~Sealing(c)'
        /\ Ahead(c)' = 0
    BY <1>1, <2>1, <2>2, <2>3, TunnelConstants
       DEF Doing, InRead, ReadSession, WriteSession, Sealing, Ahead
  <2>5. Doing(c)'
    BY <1>1, <2>1, <2>2, <2>3, <2>4 DEF Doing
  <2>6. Private(c)' /\ ReadStep(c)'
    BY <2>1, <2>4 DEF Private, ReadStep
  <2>7. WriteStep(c)'
    <3>1. ASSUME NEW e \in Entry, WSession(e), wr[e].base.cr = s.base.cr
          PROVE  s.counter <= wr[e].counter /\ wr[e].counter <= s.counter + 0
      <4>1. wr[e].counter = sess[c].counter + 1
        BY <1>1, <1>4, <2>1, <2>2, <3>1 DEF Answered, ReplyOf
      <4>. QED  BY <2>2, <4>1
    <3>. QED  BY <2>1, <2>4, <3>1 DEF WriteStep
  <2>. QED  BY <2>1, <2>5, <2>6, <2>7, BetweenPolls
<1>. QED  BY <1>2, <1>3, <1>4 DEF PollWriteReply

-----------------------------------------------------------------------------
(* The transit invariant of the whole tunnel, and what follows from it. *)

\* At first nothing is on its way.
LEMMA TransitStarts == TunnelInit => TransitInv
<1>. SUFFICES ASSUME TunnelInit
              PROVE  TransitInv
  OBVIOUS
<1>1. /\ seals = {} /\ applied = {} /\ \A e \in Entry : ~Session(e) /\ ~WSession(e)
      /\ \A e \in Entry : rd[e].prepared = NoBox
  BY DEF TunnelInit, Init, Session, WSession, ZeroReadSlot, ZeroWriteSlot
<1>2. \A c \in Client : pc[c] = "idle" /\ ~sess[c].in_use /\ up[c] = <<>> /\ down[c] = <<>>
  BY NoneTypes DEF TunnelInit
<1>3. seen \in [Client -> SUBSET Word] /\ cseals = {}
  BY DEF TunnelInit
<1>4. SlotsInv
  BY <1>1, <1>3 DEF SlotsInv
<1>5. ASSUME NEW c \in Client
      PROVE  /\ Wire(c) /\ Doing(c) /\ Private(c) /\ ReadStep(c) /\ WriteStep(c)
             /\ Elems(up[c]) = {} /\ Elems(down[c]) = {}
  <2>1. ~InRead(c) /\ ~Sealing(c) /\ ~ReadSession(c) /\ ~WriteSession(c) /\ pc[c] = "idle"
    BY <1>2 DEF InRead, Sealing, ReadSession, WriteSession
  <2>2. Wire(c) /\ Elems(up[c]) = {} /\ Elems(down[c]) = {}
    BY <1>2, NoElems DEF Wire
  <2>. QED  BY <2>1, <2>2 DEF Doing, Private, ReadStep, WriteStep
<1>. QED  BY <1>3, <1>4, <1>5 DEF TransitInv

\* The clock moves, the server is restarted behind the clients' backs, or nothing happens.
LEMMA QuietTransit ==
    ASSUME TunnelType, RandomInv, TransitInv, ServerTick \/ ServerRestart \/ UNCHANGED tunnelVars
    PROVE  TransitInv'
<1>1. UNCHANGED <<pc, op, sess, up, down, crand, cseals, seals, applied>>
  BY DEF ServerTick, ServerRestart, tunnelVars, clientVars, vars, Tick, Restart, core
<1>2. CASE ServerTick \/ UNCHANGED tunnelVars
  <2>1. UNCHANGED <<rd, wr, value, seen>>
    BY <1>2 DEF ServerTick, tunnelVars, clientVars, vars, Tick, core
  <2>2. \A x \in Entry : /\ Session(x)' => SameRead(x)
                         /\ WSession(x)' => SameWrite(x)
                         /\ rd'[x].prepared \in {NoBox, rd[x].prepared}
    BY <2>1 DEF Session, WSession, SameRead, SameWrite
  <2>3. \A d \in Client : pc[d] \in {"read1", "read2", "pollr"} => value'[CellOf[op[d].e]] \in seen'[d]
    BY <2>1 DEF TransitInv, ReadStep
  <2>4. seen' \in [Client -> SUBSET Word] /\ \A d \in Client : seen[d] \subseteq seen'[d]
    BY <2>1 DEF TransitInv
  <2>. QED  BY <1>1, <2>2, <2>3, <2>4, ServerAloneTransit
<1>3. CASE ServerRestart
  <2>1. \A x \in Entry : ~Session(x)' /\ ~WSession(x)' /\ rd'[x].prepared = NoBox
    BY <1>3 DEF ServerRestart, Restart, Session, WSession, ZeroReadSlot, ZeroWriteSlot
  <2>2. TypeOK'
    BY <1>3, TypeStep DEF ServerRestart, TunnelType, Next
  <2>3. /\ seen' \in [Client -> SUBSET Word]
        /\ \A d \in Client : seen[d] \subseteq seen'[d]
        /\ \A d \in Client : pc[d] \in {"read1", "read2", "pollr"} => value'[CellOf[op[d].e]] \in seen'[d]
    BY <1>1, <1>3, <2>2, WindowsGrow DEF ServerRestart
  <2>. QED  BY <1>1, <2>1, <2>3, ServerAloneTransit
<1>. QED  BY <1>2, <1>3

\* Every step keeps the transit invariant.
LEMMA TransitStepKeeps ==
    ASSUME ~RetryPolls, TunnelType, RandomInv, TransitInv, [TunnelNext]_tunnelVars
    PROVE  TransitInv'
<1>1. ASSUME NEW c \in Client, ClientStep(c)
      PROVE  TransitInv'
  <2>1. CASE \E cyc \in BOOLEAN, e \in Works[c] \cap RO : StartRead(c, e, cyc)
    BY <2>1, StartReadTransit
  <2>2. CASE \E cyc \in BOOLEAN, e \in Works[c] \cap (WO \ KeySet) : StartWrite(c, e, cyc)
    BY <2>2, StartWriteTransit
  <2>3. CASE Read1Reply(c) \/ Read2Reply(c) \/ Write1Reply(c) \/ Write2Reply(c)
    BY <2>3, Read1Transit, Read2Transit, Write1Transit, Write2Transit
  <2>4. CASE PollRead(c) \/ PollReadReply(c) \/ PollWrite(c) \/ PollWriteReply(c)
    BY <2>4, PollReadTransit, PollReadReplyTransit, PollWriteTransit, PollWriteReplyTransit
  <2>. QED  BY <1>1, <2>1, <2>2, <2>3, <2>4, GiveUpTransit DEF ClientStep
<1>. QED  BY <1>1, DropTransit, ServerStepTransit, QuietTransit DEF TunnelNext

\* The inductive invariant behind the next three theorems.  round_trip has at
\* most one request it still waits for, and that one is the newest of its queue;
\* every sealed answer on its way was sealed by the server and every sealed
\* request by its client; and a slot of fbsec_secure_od.c that carries the base
\* of a client's session belongs to that client and is at its counter, or one
\* ahead while a poll waits for its answer.
THEOREM TransitInvariant ==
    ASSUME ~RetryPolls
    PROVE  TunnelSpec => [](TunnelType /\ RandomInv /\ TransitInv)
<1>1. TunnelInit => TunnelType /\ RandomInv /\ TransitInv
  BY TunnelStarts, TransitStarts
<1>2. TunnelType /\ RandomInv /\ TransitInv /\ [TunnelNext]_tunnelVars
         => (TunnelType /\ RandomInv /\ TransitInv)'
  BY TunnelStepKeeps, TransitStepKeeps
<1>. QED  BY <1>1, <1>2, PTL DEF TunnelSpec

\* The oldest reply of a client that waits for it.
LEMMA ReplyTracked ==
    ASSUME TunnelType, TransitInv, NEW c \in Client, HasReply(c)
    PROVE  Answered(c, Head(down[c])) /\ Head(down[c]).live
<1>1. down[c] \in Seq(Answer) /\ down[c] # <<>> /\ Head(down[c]).live
  BY DEF TunnelType, ClientTypeOK, HasReply
<1>2. Head(down[c]) \in Elems(down[c])
  BY <1>1, ElemsEnds
<1>. QED  BY <1>1, <1>2 DEF TransitInv

\* fbsec_secure_read, fbsec_secure_read_armed and fbsec_secure_poll_read: a
\* response the client accepts carries a value the object had after the verb or
\* the poll was started, whatever was lost, late or left over from requests it
\* gave up on, and across restarts of the server.
THEOREM ReadsFresh ==
    ASSUME ~RetryPolls
    PROVE  TunnelSpec => []ReadFresh
<1>1. ASSUME TunnelType, TransitInv
      PROVE  ReadFresh
  <2>. SUFFICES ASSUME NEW c \in Client, ReadAccepted(c) \/ PollAccepted(c)
                PROVE  ReplyOf(c).box.pt.w \in seen[c]
    BY DEF ReadFresh
  <2>1. PICK box : box = ReplyOf(c).box
    OBVIOUS
  <2>2. HasReply(c) /\ Doing(c) /\ ReadStep(c)
    BY <1>1 DEF ReadAccepted, PollAccepted, TransitInv
  <2>3. box = NoBox \/ box \in seals
    BY <1>1, <2>1, <2>2, ReplyTracked DEF Answered, ReplyOf
  <2>4. CASE ReadAccepted(c)
    <3>1. box # NoBox /\ box.cr = op[c].cr /\ box.e = op[c].e
      BY <2>1, <2>4 DEF ReadAccepted, ReadOpens, Opens, Seal
    <3>2. InRead(c)
      BY <2>4 DEF ReadAccepted, InRead
    <3>. QED  BY <2>1, <2>2, <2>3, <3>1, <3>2 DEF ReadStep
  <2>5. CASE PollAccepted(c)
    <3>1. /\ box # NoBox /\ box.cr = sess[c].base.cr /\ box.sr = sess[c].base.sr
          /\ box.ctr = sess[c].counter + 1 /\ box.e = sess[c].e
      BY <2>1, <2>5 DEF PollAccepted, PollOpens, Opens, Seal
    <3>2. pc[c] = "pollr" /\ ReadSession(c)
      BY <2>2, <2>5 DEF PollAccepted, Doing
    <3>. QED  BY <2>1, <2>2, <2>3, <3>1, <3>2 DEF ReadStep
  <2>. QED  BY <2>4, <2>5
<1>. QED  BY <1>1, TransitInvariant, PTL

\* fbsec_secure_write and fbsec_secure_poll_write: a write whose acknowledgement
\* arrives was applied by fbsec_sod_dispatch, and one whose abort arrives was not.
THEOREM AcksTruthful ==
    ASSUME ~RetryPolls
    PROVE  TunnelSpec => []AckTruthful
<1>1. ASSUME TunnelType, TransitInv
      PROVE  AckTruthful
  <2>1. ASSUME NEW c \in Client, pc[c] \in {"write2", "pollw"}, HasReply(c)
        PROVE  ReplyOf(c).abort = "NONE" <=> op[c].box \in applied
    BY <1>1, <2>1, ReplyTracked DEF Answered, Sealing, ReplyOf
  <2>. QED  BY <2>1 DEF AckTruthful
<1>. QED  BY <1>1, TransitInvariant, PTL

\* fbsec_secure_session_t of a client and the slot of fbsec_secure_od.c with its
\* base: the slot is of the same client, key and entry, and its counter is the
\* client's, or one more while the answer to a poll is on its way.
THEOREM SessionsInStep ==
    ASSUME ~RetryPolls
    PROVE  TunnelSpec => []SessionInStep
<1>1. ASSUME TunnelType, RandomInv, TransitInv
      PROVE  SessionInStep
  <2>. SUFFICES ASSUME NEW c \in Client, NEW e \in Entry,
                       NEW slot \in {[rd[e] EXCEPT !.prepared = NoBox], wr[e]}, Carries(slot, c)
                PROVE  /\ slot.cli = c /\ slot.key_id = sess[c].kid /\ e = sess[c].e
                       /\ slot.counter - sess[c].counter \in {0, 1}
                       /\ slot.counter # sess[c].counter /\ ~RetryPolls
                             => pc[c] \in {"pollr", "pollw"}
    BY DEF SessionInStep
  <2>1. slot.in_use /\ slot.cyclic /\ sess[c].in_use /\ slot.base = sess[c].base
    BY DEF Carries
  <2>2. /\ sess[c].e \in Entry /\ sess[c].counter \in Nat /\ rd[e] \in ReadSlot /\ wr[e] \in WriteSlot
    BY <1>1, <2>1 DEF TunnelType, TypeOK, ClientTypeOK, ClientSession
  <2>3. ReadSession(c) \/ WriteSession(c)
    BY <2>1, <2>2 DEF ReadSession, WriteSession, Entry
  <2>4. Doing(c) /\ ReadStep(c) /\ WriteStep(c) /\ SlotsInv
    BY <1>1 DEF TransitInv
  <2>5. WriteSession(c) => \E n : Owned(c, sess[c].base.cr, n)
    BY <1>1 DEF RandomInv, Mine, WriteSession
  <2>6. ASSUME NEW n \in Nat, n = slot.counter, sess[c].counter <= n, n <= sess[c].counter + Ahead(c)
        PROVE  /\ slot.counter - sess[c].counter \in {0, 1}
               /\ slot.counter # sess[c].counter => pc[c] \in {"pollr", "pollw"}
    <3>1. CASE Ahead(c) = 0
      BY <2>2, <2>6, <3>1
    <3>2. CASE Ahead(c) = 1 /\ pc[c] \in {"pollr", "pollw"}
      BY <2>2, <2>6, <3>2
    <3>. QED  BY <3>1, <3>2 DEF Ahead
  <2>7. CASE slot = [rd[e] EXCEPT !.prepared = NoBox]
    <3>1. /\ slot.in_use = rd[e].in_use /\ slot.cyclic = rd[e].cyclic /\ slot.base = rd[e].base
          /\ slot.cli = rd[e].cli /\ slot.key_id = rd[e].key_id /\ slot.counter = rd[e].counter
          /\ rd[e].counter \in Nat
      BY <2>2, <2>7 DEF ReadSlot
    <3>2. Session(e) /\ rd[e].base = sess[c].base
      BY <2>1, <3>1 DEF Session
    <3>3. ReadSession(c)
      BY <1>1, <2>3, <2>5, <3>2 DEF RandomInv, ReadRandom, Owned
    <3>4. /\ rd[e].cli = c /\ rd[e].key_id = sess[c].kid /\ e = sess[c].e
          /\ sess[c].counter <= rd[e].counter /\ rd[e].counter <= sess[c].counter + Ahead(c)
      BY <2>4, <3>2, <3>3 DEF ReadStep
    <3>. QED  BY <2>6, <3>1, <3>4
  <2>8. CASE slot = wr[e]
    <3>1. WSession(e) /\ wr[e].base = sess[c].base /\ wr[e].counter \in Nat
      BY <2>1, <2>2, <2>8 DEF WSession, WriteSlot
    <3>2. PICK t \in cseals : t.cr = sess[c].base.cr /\ t.cli = wr[e].cli /\ t.kid = wr[e].key_id /\ t.e = e
      BY <2>4, <3>1 DEF SlotsInv
    <3>3. WriteSession(c)
      BY <2>3, <2>4, <3>2 DEF Doing, ReadRandom
    <3>4. wr[e].cli = c /\ wr[e].key_id = sess[c].kid /\ e = sess[c].e
      BY <2>4, <2>5, <3>2, <3>3 DEF Doing, Owned
    <3>5. sess[c].counter <= wr[e].counter /\ wr[e].counter <= sess[c].counter + Ahead(c)
      BY <2>4, <3>1, <3>3 DEF WriteStep
    <3>. QED  BY <2>6, <2>8, <3>1, <3>4, <3>5
  <2>. QED  BY <2>7, <2>8
<1>. QED  BY <1>1, TransitInvariant, PTL
=============================================================================
