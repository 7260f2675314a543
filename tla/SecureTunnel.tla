---------------------------- MODULE SecureTunnel ----------------------------
(***************************************************************************)
(* Clients running the secure verbs (shared/fbsec_secure_proto.c) against  *)
(* the server of SecureOd over the USDO transport of fbsec_co_fd_client.c. *)
(* Each client has one request in flight at a time.  Requests and replies  *)
(* travel in FIFO order per client (one stream each way through the bus    *)
(* hub), may be arbitrarily late and may be lost; a client that has waited *)
(* long enough gives up, and the reply it gave up on is later discarded    *)
(* because it carries an old USDO session number.                          *)
(***************************************************************************)
EXTENDS SecureOd, Sequences

CONSTANTS
    Holder,         \* Holder[c]: the base key id and key material client c uses
    Works,          \* Works[c]: the entries client c's user works on
    RetryPolls,     \* TRUE: the menu's poll loops go on after a failed poll;
                    \* FALSE: the verb runners stop and forget the session
    MaxClientRandom,\* bound: client randoms drawn in a behaviour
    MaxQueue        \* bound: requests and replies of one client in transit

ASSUME TunnelConstants ==
    /\ Holder \in [Client -> [kid : KeySlot, key : KeyVal]]
    /\ Works \in [Client -> SUBSET Entry]
    /\ RO \cap WO = {}      \* every object of server_common_od.c has one access flag
    /\ RetryPolls \in BOOLEAN
    /\ MaxClientRandom \in Nat
    /\ MaxQueue \in Nat \ {0}

VARIABLES
    pc,         \* what each client waits for, "idle" between verbs
    op,         \* the verb in progress
    sess,       \* fbsec_secure_session_t of each client's poll loop
    up, down,   \* frames to the server and replies to the client
    crand,      \* number of client randoms drawn
    cseals,     \* history: every frame a client sealed
    seen        \* history: values of the entry's cell since the verb started

clientVars == <<pc, op, sess, up, down, crand, cseals, seen>>
tunnelVars == <<vars, clientVars>>

PC == {"idle", "read1", "read2", "write1", "write2", "pollr", "pollw"}
NoEntry == "none"
NoOp == [e |-> NoEntry, kid |-> 0, cr |-> 0, box |-> NoBox]
NoSession == [in_use |-> FALSE, e |-> NoEntry, kid |-> 0, base |-> ZeroBase, counter |-> 0]

\* next_session / round_trip: replies to an abandoned request carry another
\* session number; "live" says a frame belongs to the request now waited for.
Abandon(s) == [i \in DOMAIN s |-> [s[i] EXCEPT !.live = FALSE]]

Send(c, e, q) ==
    /\ Len(up[c]) < MaxQueue
    /\ up' = [up EXCEPT ![c] = Append(@, [e |-> e, q |-> q, live |-> TRUE])]

HasReply(c) == down[c] # <<>> /\ Head(down[c]).live
ReplyOf(c) == Head(down[c]).r

WireKidOf(c, cyc) == Holder[c].kid + (IF cyc THEN 64 ELSE 0)

-----------------------------------------------------------------------------
(* Verbs. *)

\* Mutant: a verb runner keeps its session after a failed poll.
FailKeepsSession(c) ==
    /\ pc' = [pc EXCEPT ![c] = "idle"]
    /\ op' = [op EXCEPT ![c] = NoOp]
    /\ UNCHANGED sess

\* The verb ends with an error; a verb runner also drops its session.
Fail(c) ==
    /\ pc' = [pc EXCEPT ![c] = "idle"]
    /\ op' = [op EXCEPT ![c] = NoOp]
    /\ sess' = IF RetryPolls THEN sess ELSE [sess EXCEPT ![c] = NoSession]

Succeed(c, s) ==
    /\ pc' = [pc EXCEPT ![c] = "idle"]
    /\ op' = [op EXCEPT ![c] = NoOp]
    /\ sess' = [sess EXCEPT ![c] = s]

\* fbsec_secure_read / fbsec_secure_read_armed, Pass 1.
StartRead(c, e, cyc) ==
    /\ pc[c] = "idle" /\ ~sess[c].in_use
    /\ crand < MaxClientRandom
    /\ crand' = crand + 1
    /\ op' = [op EXCEPT ![c] = [e |-> e, kid |-> WireKidOf(c, cyc), cr |-> crand', box |-> NoBox]]
    /\ pc' = [pc EXCEPT ![c] = "read1"]
    /\ Send(c, e, Bare("challenge", WireKidOf(c, cyc), crand'))
    /\ seen' = [seen EXCEPT ![c] = {value[CellOf[e]]}]
    /\ UNCHANGED <<vars, sess, down, cseals>>

\* The Pass-1 acknowledgement: ask for the prepared response.
Read1Reply(c) ==
    /\ pc[c] = "read1" /\ HasReply(c)
    /\ down' = [down EXCEPT ![c] = Tail(@)]
    /\ \/ /\ ReplyOf(c).abort = "NONE"
          /\ pc' = [pc EXCEPT ![c] = "read2"]
          /\ Send(c, op[c].e, Bare("empty", 0, 0))
          /\ UNCHANGED <<op, sess, seen>>
       \/ /\ ReplyOf(c).abort # "NONE"
          /\ Fail(c)
          /\ seen' = [seen EXCEPT ![c] = {}]
          /\ UNCHANGED up
    /\ UNCHANGED <<vars, crand, cseals>>

ReadOpens(c) ==
    LET box == ReplyOf(c).box IN
    /\ box # NoBox
    /\ Opens(box, Holder[c].key, op[c].cr, box.sr, 0, "READ_RESPONSE", op[c].kid, c, op[c].e)

ReadAccepted(c) ==
    pc[c] = "read2" /\ HasReply(c) /\ ReplyOf(c).abort = "NONE" /\ ReadOpens(c)

\* The Pass-2 response: verify, and keep the session of an armed read.
Read2Reply(c) ==
    /\ pc[c] = "read2" /\ HasReply(c)
    /\ down' = [down EXCEPT ![c] = Tail(@)]
    /\ \/ /\ ReadAccepted(c)
          /\ Succeed(c, IF KidCyclic(op[c].kid)
                        THEN [in_use |-> TRUE, e |-> op[c].e, kid |-> op[c].kid,
                              base |-> [cr |-> op[c].cr, sr |-> ReplyOf(c).box.sr],
                              counter |-> 0]
                        ELSE NoSession)
       \/ ~ReadAccepted(c) /\ Fail(c)
    /\ seen' = [seen EXCEPT ![c] = {}]
    /\ UNCHANGED <<vars, up, crand, cseals>>

\* fbsec_secure_write / fbsec_secure_write_armed, Pass 1.
StartWrite(c, e, cyc) ==
    /\ pc[c] = "idle" /\ ~sess[c].in_use
    /\ crand < MaxClientRandom
    /\ op' = [op EXCEPT ![c] = [e |-> e, kid |-> WireKidOf(c, cyc), cr |-> 0, box |-> NoBox]]
    /\ pc' = [pc EXCEPT ![c] = "write1"]
    /\ Send(c, e, Bare("empty", 0, 0))
    /\ UNCHANGED <<vars, sess, down, crand, cseals, seen>>

\* The challenge arrived: draw the client random, seal and send Pass 2.  The
\* verb fails on an abort or a reply that is not a challenge, and may fail on
\* a good one because the client's random source or its AEAD does.
Write1Reply(c) ==
    /\ pc[c] = "write1" /\ HasReply(c)
    /\ down' = [down EXCEPT ![c] = Tail(@)]
    /\ \/ /\ ReplyOf(c).abort = "NONE" /\ ReplyOf(c).sr # 0
          /\ crand < MaxClientRandom
          /\ crand' = crand + 1
          /\ \E pt \in PlainFor(op[c].e) :
                LET box == Seal(Holder[c].key, crand', ReplyOf(c).sr, 0, "WRITE_REQUEST",
                                op[c].kid, c, op[c].e, pt)
                IN  /\ op' = [op EXCEPT ![c].cr = crand', ![c].box = box]
                    /\ cseals' = cseals \cup {box}
                    /\ Send(c, op[c].e, [shape |-> "write", b |-> op[c].kid,
                                         cr |-> crand', box |-> box])
          /\ pc' = [pc EXCEPT ![c] = "write2"]
          /\ UNCHANGED sess
       \/ /\ Fail(c)
          /\ UNCHANGED <<up, crand, cseals>>
    /\ UNCHANGED <<vars, seen>>

Write2Reply(c) ==
    /\ pc[c] = "write2" /\ HasReply(c)
    /\ down' = [down EXCEPT ![c] = Tail(@)]
    /\ \/ /\ ReplyOf(c).abort = "NONE"
          /\ Succeed(c, IF KidCyclic(op[c].kid)
                        THEN [in_use |-> TRUE, e |-> op[c].e, kid |-> op[c].kid,
                              base |-> [cr |-> op[c].cr, sr |-> op[c].box.sr],
                              counter |-> 0]
                        ELSE NoSession)
       \/ ReplyOf(c).abort # "NONE" /\ Fail(c)
    /\ UNCHANGED <<vars, up, crand, cseals, seen>>

\* fbsec_secure_poll_read: send the low byte of the next counter.
PollRead(c) ==
    /\ pc[c] = "idle" /\ sess[c].in_use /\ sess[c].e \in RO
    /\ sess[c].counter < KeyUseLimit
    /\ Send(c, sess[c].e, Bare("byte", (sess[c].counter + 1) % 256, 0))
    /\ pc' = [pc EXCEPT ![c] = "pollr"]
    /\ op' = [op EXCEPT ![c].e = sess[c].e]
    /\ seen' = [seen EXCEPT ![c] = {value[CellOf[sess[c].e]]}]
    /\ UNCHANGED <<vars, sess, down, crand, cseals>>

PollOpens(c) ==
    LET s == sess[c] IN
    /\ ReplyOf(c).b = (s.counter + 1) % 256
    /\ Opens(ReplyOf(c).box, Holder[c].key, s.base.cr, s.base.sr, s.counter + 1,
             "READ_POLL_RESPONSE", s.kid, c, s.e)

PollAccepted(c) ==
    pc[c] = "pollr" /\ HasReply(c) /\ ReplyOf(c).abort = "NONE" /\ PollOpens(c)

PollReadReply(c) ==
    /\ pc[c] = "pollr" /\ HasReply(c)
    /\ down' = [down EXCEPT ![c] = Tail(@)]
    /\ \/ PollAccepted(c) /\ Succeed(c, [sess[c] EXCEPT !.counter = @ + 1])
       \/ ~PollAccepted(c) /\ Fail(c)
    /\ seen' = [seen EXCEPT ![c] = {}]
    /\ UNCHANGED <<vars, up, crand, cseals>>

\* fbsec_secure_poll_write: seal under the next counter and send.
PollWrite(c) ==
    /\ pc[c] = "idle" /\ sess[c].in_use /\ sess[c].e \in WO
    /\ sess[c].counter < KeyUseLimit
    /\ \E pt \in PlainFor(sess[c].e) :
          LET s == sess[c]
              box == Seal(Holder[c].key, s.base.cr, s.base.sr, s.counter + 1,
                          "WRITE_POLL_REQUEST", s.kid, c, s.e, pt)
          IN  /\ op' = [op EXCEPT ![c].e = s.e, ![c].box = box]
              /\ cseals' = cseals \cup {box}
              /\ Send(c, s.e, [shape |-> "poll", b |-> (s.counter + 1) % 256,
                               cr |-> 0, box |-> box])
    /\ pc' = [pc EXCEPT ![c] = "pollw"]
    /\ UNCHANGED <<vars, sess, down, crand, seen>>

\* The stored counter advances only when the acknowledgement arrives.
PollWriteReply(c) ==
    /\ pc[c] = "pollw" /\ HasReply(c)
    /\ down' = [down EXCEPT ![c] = Tail(@)]
    /\ \/ ReplyOf(c).abort = "NONE" /\ Succeed(c, [sess[c] EXCEPT !.counter = @ + 1])
       \/ ReplyOf(c).abort # "NONE" /\ Fail(c)
    /\ UNCHANGED <<vars, up, crand, cseals, seen>>

\* The poll loop is over (count reached or key budget used): forget the session.
EndSession(c) ==
    /\ pc[c] = "idle" /\ sess[c].in_use
    /\ sess' = [sess EXCEPT ![c] = NoSession]
    /\ UNCHANGED <<vars, pc, op, up, down, crand, cseals, seen>>

-----------------------------------------------------------------------------
(* Transport and server. *)

\* round_trip gives up at its deadline.
Timeout(c) ==
    /\ pc[c] # "idle"
    /\ Fail(c)
    /\ up' = [up EXCEPT ![c] = Abandon(@)]
    /\ down' = [down EXCEPT ![c] = Abandon(@)]
    /\ seen' = [seen EXCEPT ![c] = {}]
    /\ UNCHANGED <<vars, crand, cseals>>

\* round_trip drops a frame that is not the answer it waits for.
DropStale(c) ==
    /\ down[c] # <<>> /\ ~Head(down[c]).live
    /\ down' = [down EXCEPT ![c] = Tail(@)]
    /\ UNCHANGED <<vars, pc, op, sess, up, crand, cseals, seen>>

\* A request is lost on the bus.  A lost reply is one that comes after the
\* timeout and is dropped.
Lose(c) ==
    /\ up[c] # <<>>
    /\ up' = [up EXCEPT ![c] = Tail(@)]
    /\ UNCHANGED <<vars, pc, op, sess, down, crand, cseals, seen>>

\* What a change of the stored values adds to each reader's window.
ExtendSeen ==
    seen' = [d \in Client |->
               IF pc[d] \in {"read1", "read2", "pollr"}
               THEN seen[d] \cup {value'[CellOf[op[d].e]]} ELSE seen[d]]

\* The server takes the oldest frame of client c, dispatches it and replies.
ServerStep(c, f) ==
    /\ up[c] # <<>> /\ Len(down[c]) < MaxQueue
    /\ LET m == Head(up[c]) IN
       /\ SodRequest(c, m.e, m.q, f)
       /\ down' = [down EXCEPT ![c] =
                      Append(@, [r |-> DispatchReply(c, m.e, m.q, f), live |-> m.live])]
    /\ up' = [up EXCEPT ![c] = Tail(@)]
    /\ ExtendSeen
    /\ UNCHANGED <<pc, op, sess, crand, cseals>>

ServerTick == Tick /\ UNCHANGED clientVars

\* A server restart between any two requests; the clients are not told.
ServerRestart ==
    /\ Restart
    /\ ExtendSeen
    /\ UNCHANGED <<pc, op, sess, up, down, crand, cseals>>

TunnelInit ==
    /\ Init
    /\ pc = [c \in Client |-> "idle"]
    /\ op = [c \in Client |-> NoOp]
    /\ sess = [c \in Client |-> NoSession]
    /\ up = [c \in Client |-> <<>>]
    /\ down = [c \in Client |-> <<>>]
    /\ crand = 0
    /\ cseals = {}
    /\ seen = [c \in Client |-> {}]

ClientStep(c) ==
    \/ \E cyc \in BOOLEAN, e \in Works[c] \cap RO : StartRead(c, e, cyc)
    \/ \E cyc \in BOOLEAN, e \in Works[c] \cap (WO \ KeySet) : StartWrite(c, e, cyc)
    \/ Read1Reply(c) \/ Read2Reply(c)
    \/ Write1Reply(c) \/ Write2Reply(c)
    \/ PollRead(c) \/ PollReadReply(c)
    \/ PollWrite(c) \/ PollWriteReply(c)
    \/ EndSession(c) \/ Timeout(c)

TunnelNext ==
    \/ ServerTick
    \/ ServerRestart
    \/ \E c \in Client :
          \/ ClientStep(c)
          \/ DropStale(c)
          \/ Lose(c)
          \/ \E f \in Fault : ServerStep(c, f)

TunnelSpec == TunnelInit /\ [][TunnelNext]_tunnelVars

-----------------------------------------------------------------------------
(* Properties. *)

\* A read or poll that the client accepts returns a value the object really
\* had between the moment the verb (or the poll) was started and the moment
\* the reply was accepted: no stale, foreign or replayed response passes.
ReadFresh ==
    \A c \in Client :
        ReadAccepted(c) \/ PollAccepted(c) => ReplyOf(c).box.pt.w \in seen[c]

\* A write the client sees acknowledged was applied, and one it sees aborted
\* was not (only a timeout leaves the client in doubt).
AckTruthful ==
    \A c \in Client :
        pc[c] \in {"write2", "pollw"} /\ HasReply(c)
            => (ReplyOf(c).abort = "NONE" <=> op[c].box \in applied)

\* A server slot that carries a client's session.
Carries(slot, c) ==
    slot.in_use /\ slot.cyclic /\ sess[c].in_use /\ slot.base = sess[c].base

\* The two ends of a cyclic session never drift by more than the one poll in
\* flight, and when a verb runner is between polls they agree exactly.
SessionInStep ==
    \A c \in Client, e \in Entry :
        \A slot \in {[rd[e] EXCEPT !.prepared = NoBox], wr[e]} :
            Carries(slot, c) =>
                /\ slot.cli = c /\ slot.key_id = sess[c].kid /\ e = sess[c].e
                /\ slot.counter - sess[c].counter \in {0, 1}
                /\ slot.counter # sess[c].counter /\ ~RetryPolls
                      => pc[c] \in {"pollr", "pollw"}

\* Nobody, client or server, seals two different frames under one (key, nonce).
TunnelNonceUnique ==
    \A s, t \in seals \cup cseals :
        s.key = t.key /\ s.cr = t.cr /\ s.sr = t.sr /\ s.ctr = t.ctr => s = t

=============================================================================
