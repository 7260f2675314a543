---------------------------- MODULE SegTransfer ----------------------------
(***************************************************************************)
(* USDO transfers between clients (transport_read, transport_write,        *)
(* round_trip and seg_upload_pull of fbsec_co_fd_client.c) and the server  *)
(* (run_dispatch_loop, the server_seg_* handlers and send_reply_cb of      *)
(* fbsec_co_fd_server.c).  A short body travels in a single frame; a long  *)
(* one is cut into blocks of 60 bytes, each acknowledged before the next.  *)
(* The server has one download slot and one upload slot for all clients.   *)
(*                                                                         *)
(* The unit of length is one block, and a block is known by its owner, the *)
(* body it is part of and its place in it.  Frames travel in FIFO order    *)
(* per client and direction, may be late and may be lost.                  *)
(***************************************************************************)
EXTENDS Integers, Sequences

CONSTANTS
    Client,         \* node ids of the clients
    Content,        \* what a body can be
    Size,           \* Size[x]: blocks in the body x
    Long,           \* bodies that do not fit a single frame
    BodyMax,        \* FBSEC_CO_FD_USDO_SEG_BODY_MAX in blocks
    SessionMax,     \* the last USDO session number (255); 0 is not used
    MaxQueue        \* bound: frames of one client in transit each way

ASSUME SegConstants ==
    /\ Size \in [Content -> Nat \ {0}]
    /\ Long \subseteq Content
    /\ \A y \in Content : Size[y] > 1 => y \in Long
    /\ BodyMax \in Nat \ {0}
    /\ SessionMax \in Nat \ {0}
    /\ MaxQueue \in Nat \ {0}

VARIABLES
    segdl, segul,   \* g_segdl, g_segul
    pc,             \* what each client waits for, "idle" between transfers
    sess,           \* g_usdo_session
    x,              \* the body a client is sending
    buf,            \* the blocks acknowledged or received so far
    total,          \* the announced length of an upload
    up, down,       \* frames to the server and to the client
    done,           \* history: the last body dispatched for a client in this transfer
    ans,            \* history: the last body answered to a client in this transfer
    cut             \* history: somebody else touched the slots during the transfer

server == <<segdl, segul>>
client == <<pc, sess, x, buf, total>>
vars == <<server, client, up, down, done, ans, cut>>

None == "none"
Block(c, y, i) == [cli |-> c, x |-> y, i |-> i]
Body(c, y) == [i \in 1..Size[y] |-> Block(c, y, i)]
Bodies(c) == {Body(c, y) : y \in Content}

\* A client awaits the end of a download, or an answer that may be an upload.
Writing == {"dl_req", "dl_end"}
Reading == {"ul_req", "dl_req"}

FreeDl == [active |-> FALSE, src |-> None, session |-> 0, counter |-> 0,
           total |-> 0, buf |-> <<>>]
FreeUl == [active |-> FALSE, dst |-> None, session |-> 0, counter |-> 0, body |-> <<>>]

Frame(cmd, s, counter, n, data) ==
    [cmd |-> cmd, session |-> s, counter |-> counter, total |-> n, data |-> data]

-----------------------------------------------------------------------------
(* Client. *)

\* next_session: 1..SessionMax and round again, never 0.
NextSession(s) == IF s = SessionMax THEN 1 ELSE s + 1

\* Bound: a frame is not delayed by a whole turn of the session number.
NoLapped(c, s) == \A q \in {up[c], down[c]} : \A i \in 1..Len(q) : q[i].session # s

Send(c, m) == Len(up[c]) < MaxQueue /\ up' = [up EXCEPT ![c] = Append(@, m)]
Await(c, p) == pc' = [pc EXCEPT ![c] = p]

\* Mutant: round_trip takes whatever comes first.
HasAnyReply(c) == pc[c] # "idle" /\ down[c] # <<>>

\* round_trip discards frames of other sessions; the next one decides.
HasReply(c) == pc[c] # "idle" /\ down[c] # <<>> /\ Head(down[c]).session = sess[c]
Reply(c) == Head(down[c])
Consume(c) == down' = [down EXCEPT ![c] = Tail(@)]

DropStale(c) ==
    /\ down[c] # <<>> /\ ~HasReply(c)
    /\ Consume(c)
    /\ UNCHANGED <<server, client, up, done, ans, cut>>

Finish(c) ==
    /\ pc' = [pc EXCEPT ![c] = "idle"]
    /\ x' = [x EXCEPT ![c] = None]
    /\ buf' = [buf EXCEPT ![c] = <<>>]
    /\ total' = [total EXCEPT ![c] = 0]
    /\ done' = [done EXCEPT ![c] = <<>>]
    /\ ans' = [ans EXCEPT ![c] = None]
    /\ cut' = [cut EXCEPT ![c] = FALSE]
    /\ UNCHANGED sess

\* A download: one frame, or the initiate of a segmented one.  transport_write,
\* and transport_read with a request body, which is short; the two differ only
\* in whether they follow an announced upload.
StartWrite(c, y) ==
    LET s == NextSession(sess[c]) IN
    /\ pc[c] = "idle" /\ Size[y] <= BodyMax /\ NoLapped(c, s)
    /\ sess' = [sess EXCEPT ![c] = s]
    /\ x' = [x EXCEPT ![c] = y]
    /\ \/ y \notin Long /\ Send(c, Frame("DL_REQ", s, 0, 0, Body(c, y))) /\ Await(c, "dl_req")
       \/ y \in Long /\ Send(c, Frame("DL_INIT", s, 0, Size[y], <<>>)) /\ Await(c, "dl_init")
    /\ UNCHANGED <<server, buf, total, down, done, ans, cut>>

\* transport_read without a request body.
StartRead(c) ==
    LET s == NextSession(sess[c]) IN
    /\ pc[c] = "idle" /\ NoLapped(c, s)
    /\ sess' = [sess EXCEPT ![c] = s]
    /\ Send(c, Frame("UL_REQ", s, 0, 0, <<>>))
    /\ Await(c, "ul_req")
    /\ UNCHANGED <<server, x, buf, total, down, done, ans, cut>>

\* The reply round_trip and its caller accept in each state.
Acceptable(c) ==
    LET m == Reply(c) IN
    \/ pc[c] = "dl_req"  /\ m.cmd \in {"DL_RESP", "UL_INIT_RESP"}
    \/ pc[c] = "dl_init" /\ m.cmd = "DL_INIT_RESP"
    \/ pc[c] = "dl_seg"  /\ m.cmd = "DL_SEG_RESP" /\ m.counter = Len(buf[c])
    \/ pc[c] = "dl_end"  /\ m.cmd = "DL_END_RESP"
    \/ pc[c] = "ul_req"  /\ m.cmd \in {"UL_RESP", "UL_INIT_RESP"}
    \/ /\ pc[c] = "ul_seg" /\ m.cmd \in {"UL_SEG_RESP", "UL_END_RESP"}
       /\ m.cmd = "UL_SEG_RESP" => m.counter = Len(buf[c])
       /\ Len(buf[c]) + Len(m.data) <= total[c]
       /\ m.cmd = "UL_END_RESP" => Len(buf[c]) + Len(m.data) = total[c]

\* The initiate or a segment was acknowledged: send the next block, the last
\* one in an end request.
NextSegment(c) ==
    LET sent == IF pc[c] = "dl_seg"
                THEN Append(buf[c], Body(c, x[c])[Len(buf[c]) + 1]) ELSE <<>>
        n == Len(sent)
        last == Size[x[c]] - n = 1
        cmd == IF last THEN "DL_END" ELSE "DL_SEG"
    IN  /\ pc[c] \in {"dl_init", "dl_seg"} /\ HasReply(c) /\ Acceptable(c)
        /\ Consume(c)
        /\ buf' = [buf EXCEPT ![c] = sent]
        /\ Send(c, Frame(cmd, sess[c], n, 0, <<Body(c, x[c])[n + 1]>>))
        /\ Await(c, IF last THEN "dl_end" ELSE "dl_seg")
        /\ UNCHANGED <<server, sess, x, total, done, ans, cut>>

\* seg_upload_pull: ask for the first block, or store one and ask for the next.
PullSegment(c) ==
    LET m == Reply(c)
        got == IF pc[c] = "ul_seg" THEN buf[c] \o m.data ELSE <<>>
    IN  /\ pc[c] \in Reading \cup {"ul_seg"} /\ HasReply(c) /\ Acceptable(c)
        /\ m.cmd \in {"UL_INIT_RESP", "UL_SEG_RESP"}
        /\ Consume(c)
        /\ buf' = [buf EXCEPT ![c] = got]
        /\ total' = IF m.cmd = "UL_INIT_RESP" THEN [total EXCEPT ![c] = m.total] ELSE total
        /\ Send(c, Frame("UL_SEG", sess[c], Len(got), 0, <<>>))
        /\ Await(c, "ul_seg")
        /\ x' = [x EXCEPT ![c] = None]
        /\ UNCHANGED <<server, sess, done, ans, cut>>

\* The transfer is complete.
Complete(c) ==
    /\ HasReply(c) /\ Acceptable(c)
    /\ Reply(c).cmd \in {"DL_RESP", "DL_END_RESP", "UL_RESP", "UL_END_RESP"}
    /\ Consume(c)
    /\ Finish(c)
    /\ UNCHANGED <<server, up>>

\* An abort or an unexpected reply ends the transfer; transport_write does not
\* expect an upload.
Fail(c) ==
    /\ HasReply(c)
    /\ ~Acceptable(c) \/ (pc[c] = "dl_req" /\ Reply(c).cmd = "UL_INIT_RESP")
    /\ Consume(c)
    /\ Finish(c)
    /\ UNCHANGED <<server, up>>

\* round_trip reaches its deadline.
Timeout(c) ==
    /\ pc[c] # "idle"
    /\ Finish(c)
    /\ UNCHANGED <<server, up, down>>

-----------------------------------------------------------------------------
(* Server. *)

\* Mutant: a segment is matched by its session number only.
DownloadMatchesSession(c, m) == segdl.active /\ m.session = segdl.session

DownloadMatches(c, m) == segdl.active /\ c = segdl.src /\ m.session = segdl.session

\* Mutant: an upload segment is served to whoever asks.
UploadMatchesAny(c, m) == segul.active

UploadMatches(c, m) == segul.active /\ c = segul.dst /\ m.session = segul.session

\* The fault server_seg_abort reports for frame m of client c, if any.
SegFault(c, m) ==
    LET have == Len(segdl.buf) + Len(m.data) IN
    CASE m.cmd = "DL_INIT" -> IF m.total > BodyMax THEN "LEN_TOO_HIGH" ELSE "NONE"
      [] m.cmd \in {"DL_SEG", "DL_END"} ->
            IF ~DownloadMatches(c, m) THEN "SESSION_ID"
            ELSE IF m.cmd = "DL_SEG" /\ m.counter # segdl.counter THEN "SEG_COUNTER"
            ELSE IF have > segdl.total THEN "DATA_SIZE"
            ELSE IF m.cmd = "DL_END" /\ have # segdl.total THEN "DATA_SIZE"
            ELSE "NONE"
      [] m.cmd = "UL_SEG" ->
            IF ~UploadMatches(c, m) THEN "SESSION_ID"
            ELSE IF m.counter # segul.counter THEN "SEG_COUNTER"
            ELSE "NONE"
      [] OTHER -> "NONE"

Frames(c) == up[c] # <<>> /\ Len(down[c]) < MaxQueue
Request(c) == Head(up[c])
Answer(c, m) ==
    /\ up' = [up EXCEPT ![c] = Tail(@)]
    /\ down' = [down EXCEPT ![c] = Append(@, m)]

\* Every transfer but that of c has been disturbed.
Disturb(c) == cut' = [d \in Client |-> cut[d] \/ (d # c /\ pc[d] # "idle")]

\* server_seg_abort: a fault of one client clears both slots.
ServerAbort(c) ==
    /\ Frames(c) /\ SegFault(c, Request(c)) # "NONE"
    /\ segdl' = FreeDl /\ segul' = FreeUl
    /\ Answer(c, Frame("ABORT", Request(c).session, 0, 0, <<>>))
    /\ Disturb(c)
    /\ UNCHANGED <<client, done, ans>>

\* Mutant: the segment counter of the slot is not reset.
OpenSlotKeepsCounter(c, m) ==
    [active |-> TRUE, src |-> c, session |-> m.session, counter |-> segdl.counter,
     total |-> m.total, buf |-> <<>>]

OpenSlot(c, m) ==
    [active |-> TRUE, src |-> c, session |-> m.session, counter |-> 0,
     total |-> m.total, buf |-> <<>>]

\* server_seg_download_init takes the slot, whoever holds it.
ServerInitiate(c) ==
    LET m == Request(c) IN
    /\ Frames(c) /\ m.cmd = "DL_INIT" /\ SegFault(c, m) = "NONE"
    /\ segdl' = OpenSlot(c, m)
    /\ Answer(c, Frame("DL_INIT_RESP", m.session, 0, 0, <<>>))
    /\ Disturb(c)
    /\ UNCHANGED <<segul, client, done, ans>>

\* server_seg_download_feed, not the last block.
ServerFeed(c) ==
    LET m == Request(c) IN
    /\ Frames(c) /\ m.cmd = "DL_SEG" /\ SegFault(c, m) = "NONE"
    /\ segdl' = [segdl EXCEPT !.buf = @ \o m.data, !.counter = @ + 1]
    /\ Answer(c, Frame("DL_SEG_RESP", m.session, segdl.counter, 0, <<>>))
    /\ UNCHANGED <<segul, client, done, ans, cut>>

\* A whole request: a single frame or the end of a segmented download.
Dispatches(c) ==
    /\ Frames(c) /\ Request(c).cmd \in {"DL_REQ", "UL_REQ", "DL_END"}
    /\ SegFault(c, Request(c)) = "NONE"
Dispatched(m) == IF m.cmd = "DL_END" THEN segdl.buf \o m.data ELSE m.data

\* send_reply_cb: a long answer is parked in the upload slot and announced; the
\* end response of a download has no room for one.
ReplyFrame(m, c, y) ==
    IF y \in Long THEN Frame("UL_INIT_RESP", m.session, 0, Size[y], <<>>)
    ELSE CASE m.cmd = "DL_REQ" -> Frame("DL_RESP", m.session, 0, 0, Body(c, y))
           [] m.cmd = "UL_REQ" -> Frame("UL_RESP", m.session, 0, 0, Body(c, y))
           [] OTHER            -> Frame("DL_END_RESP", m.session, 0, 0, <<>>)

Park(c, s, body) ==
    [active |-> TRUE, dst |-> c, session |-> s, counter |-> 0, body |-> body]

\* fbsec_server_dispatch_request answers with some body or an abort.
ServerDispatch(c) ==
    LET m == Request(c) IN
    /\ Dispatches(c)
    /\ segdl' = IF m.cmd = "DL_END" THEN FreeDl ELSE segdl
    /\ done' = [done EXCEPT ![c] = IF pc[c] \in Writing THEN Dispatched(m) ELSE @]
    /\ \/ \E y \in IF m.cmd = "DL_END" THEN Content \ Long ELSE Content :
             /\ Size[y] <= BodyMax
             /\ segul' = IF y \in Long THEN Park(c, m.session, Body(c, y)) ELSE segul
             /\ Answer(c, ReplyFrame(m, c, y))
             /\ ans' = [ans EXCEPT ![c] = IF pc[c] \in Reading THEN y ELSE @]
             /\ IF y \in Long THEN Disturb(c) ELSE UNCHANGED cut
       \/ /\ Answer(c, Frame("ABORT", m.session, 0, 0, <<>>))
          /\ UNCHANGED <<segul, ans, cut>>
    /\ UNCHANGED client

\* server_seg_upload_serve: the next block, the last one frees the slot.
ServerServe(c) ==
    LET m == Request(c)
        block == <<segul.body[segul.counter + 1]>>
        last == Len(segul.body) - segul.counter = 1
    IN  /\ Frames(c) /\ m.cmd = "UL_SEG" /\ SegFault(c, m) = "NONE"
        /\ segul' = IF last THEN FreeUl ELSE [segul EXCEPT !.counter = @ + 1]
        /\ Answer(c, Frame(IF last THEN "UL_END_RESP" ELSE "UL_SEG_RESP",
                           m.session, segul.counter, 0, block))
        /\ UNCHANGED <<segdl, client, done, ans, cut>>

ServerRestart ==
    /\ segdl.active \/ segul.active
    /\ segdl' = FreeDl /\ segul' = FreeUl
    /\ cut' = [c \in Client |-> pc[c] # "idle"]
    /\ UNCHANGED <<client, up, down, done, ans>>

\* A request is lost on the bus.  A lost reply is one that comes after the
\* timeout and is dropped.
Lose(c) ==
    /\ up[c] # <<>>
    /\ up' = [up EXCEPT ![c] = Tail(@)]
    /\ UNCHANGED <<server, client, down, done, ans, cut>>

-----------------------------------------------------------------------------

Init ==
    /\ segdl = FreeDl /\ segul = FreeUl
    /\ pc = [c \in Client |-> "idle"]
    /\ sess = [c \in Client |-> 0]
    /\ x = [c \in Client |-> None]
    /\ buf = [c \in Client |-> <<>>]
    /\ total = [c \in Client |-> 0]
    /\ up = [c \in Client |-> <<>>]
    /\ down = [c \in Client |-> <<>>]
    /\ done = [c \in Client |-> <<>>]
    /\ ans = [c \in Client |-> None]
    /\ cut = [c \in Client |-> FALSE]

ClientStep(c) ==
    \/ \E y \in Content : StartWrite(c, y)
    \/ StartRead(c)
    \/ NextSegment(c) \/ PullSegment(c)
    \/ Complete(c) \/ Fail(c) \/ Timeout(c) \/ DropStale(c)

ServerStep(c) ==
    \/ ServerAbort(c) \/ ServerInitiate(c) \/ ServerFeed(c)
    \/ ServerDispatch(c) \/ ServerServe(c)

Next ==
    \/ \E c \in Client : ClientStep(c) \/ ServerStep(c) \/ Lose(c)
    \/ ServerRestart

Spec == Init /\ [][Next]_vars

-----------------------------------------------------------------------------
(* Properties. *)

\* server_seg_download_feed: whatever is interleaved, lost or abandoned, the
\* server dispatches only whole bodies, in order, of the client it names.
DispatchWhole ==
    \A c \in Client :
        Dispatches(c) /\ Request(c).cmd # "UL_REQ" => Dispatched(Request(c)) \in Bodies(c)

\* transport_write: the acknowledgement a client accepts means that the server
\* dispatched exactly the body this client was sending.
WriteAcked ==
    \A c \in Client :
        /\ pc[c] \in Writing /\ HasReply(c) /\ Acceptable(c)
        /\ Reply(c).cmd \in {"DL_RESP", "DL_END_RESP"}
        => done[c] = Body(c, x[c])

\* seg_upload_pull: the body a client assembles is the whole answer the server
\* gave to this request, never blocks of another answer.
ReadWhole ==
    \A c \in Client :
        /\ pc[c] \in Reading \cup {"ul_seg"} /\ HasReply(c) /\ Acceptable(c)
        /\ Reply(c).cmd \in {"DL_RESP", "UL_RESP", "UL_END_RESP"}
        => buf[c] \o Reply(c).data = Body(c, ans[c])

\* A client's own losses, timeouts and late frames never make the server abort
\* its current transfer: only another client or a restart can.
NoSelfInflictedAbort ==
    \A c \in Client :
        /\ Frames(c) /\ pc[c] # "idle" /\ Request(c).session = sess[c]
        /\ SegFault(c, Request(c)) # "NONE"
        => cut[c]

=============================================================================
