------------------------------- MODULE FdLink -------------------------------
(***************************************************************************)
(* The way of a USDO message from one node to another, byte by byte: the   *)
(* encoders of fbsec_co_fd_usdo.c, the wire format of fbsec_co_fd_frame.c, *)
(* the carrier's send and its receive with a deadline, the hub's relay and *)
(* its bridge over a real CAN FD bus (fbsec_co_fd_pcan.c) to another hub,  *)
(* the decoder, and the filters of the server's and the client's loops.    *)
(*                                                                         *)
(* One receiver is looked at.  What others put on the bus reaches it as a  *)
(* stream of bytes, in order, in pieces of any size.                       *)
(***************************************************************************)
EXTENDS Integers, Sequences, FiniteSetsExt

CONSTANTS
    Message,        \* what the nodes try to send, see Msg
    Foreign,        \* frames of other devices on the real bus
    Me,             \* the receiver's node id
    Target,         \* the server a client talks to
    Chunk,          \* bound: most bytes one recv returns
    MaxMessages     \* bound: messages put on the receiver's stream

VARIABLES
    role,           \* "server" or "client"
    far,            \* the receiver is on another hub than the senders
    wire,           \* bytes on their way to the receiver
    rx,             \* bytes the current fbsec_co_fd_carrier_recv has taken
    alive,          \* the receiver still reads
    dropped,        \* nodes the hub has disconnected
    puts,           \* messages put on the stream
    sent,           \* history: the messages meant for the receiver
    got,            \* what passed the receiver's filter
    cut             \* history: a deadline passed in the middle of a message

vars == <<role, far, wire, rx, alive, dropped, puts, sent, got, cut>>

-----------------------------------------------------------------------------
(* Layout constants. *)

PayloadMax == 64
HeaderSize == 6             \* of the carrier, before the payload
UsdoHeaderSize == 6
DataPrefixSize == 2
DataMax == PayloadMax - UsdoHeaderSize - DataPrefixSize
SegHeaderSize == 4
SegDataMax == PayloadMax - SegHeaderSize
InitSize == 12
EndRespSize == 3
AbortSize == 7
SegBodyMax == 256
NodeId == 1..127
MinIndex == \h1000
StdIdMax == \h7FF
FlagBRS == 1
FlagAll == 3
TypeDomain == \h0F

ReqBase == \h600
RspBase == \h580
SimAnnounce == \h1FFFFFE0
SimLoss == \h1FFFFFE1
SimError == \h1FFFFFEF
SimOnly == {SimAnnounce, SimLoss, SimError}

\* Command specifiers.
Cmd == [DownloadReq     |-> \h01, DownloadResp     |-> \h21,
        UploadReq       |-> \h11, UploadResp       |-> \h31,
        DownloadInitReq |-> \h02, DownloadInitResp |-> \h22,
        DownloadSegReq  |-> \h03, DownloadSegResp  |-> \h23,
        DownloadEndReq  |-> \h04, DownloadEndResp  |-> \h24,
        UploadSegReq    |-> \h13, UploadInitResp   |-> \h32,
        UploadSegResp   |-> \h33, UploadEndResp    |-> \h34,
        Abort           |-> \h7F]

-----------------------------------------------------------------------------
(* Classes of commands. *)

KnownCmd == {Cmd[k] : k \in DOMAIN Cmd}

\* Carried on the 600h identifiers; everything else rides on 580h.
RequestCmd == {Cmd.DownloadReq, Cmd.UploadReq, Cmd.DownloadInitReq, Cmd.DownloadSegReq,
               Cmd.DownloadEndReq, Cmd.UploadSegReq}

MustHaveData == {Cmd.DownloadReq, Cmd.UploadResp}
Initiate == {Cmd.DownloadInitReq, Cmd.UploadInitResp}
FullSegment == {Cmd.DownloadSegReq, Cmd.UploadSegResp}
LastSegment == {Cmd.DownloadEndReq, Cmd.UploadEndResp}
SegmentAck == {Cmd.DownloadSegResp, Cmd.UploadSegReq}
HasMux == KnownCmd \ (FullSegment \cup LastSegment \cup SegmentAck \cup {Cmd.DownloadEndResp})

-----------------------------------------------------------------------------
(* Encoding.  A message is what an encoder is given and what a decoder      *)
(* makes of it; fields a command does not carry are zero.                   *)

Byte == 0..255
Word == 0..(2^16 - 1)
CanId == 0..(2^29 - 1)

\* What the encoders take: bytes, 16-bit indices, any size.  A full segment has its
\* 60 bytes.
Field == [src : Byte, dst : Byte, cmd : KnownCmd, session : Byte, index : Word,
          subindex : Byte, counter : Byte, total : Nat, code : Byte, data : Seq(Byte)]
Argument ==
    {m \in Field :
        /\ m.cmd \in FullSegment => Len(m.data) = SegDataMax
        /\ m.cmd \in LastSegment => m.counter = Len(m.data)
        /\ m.cmd \notin HasMux => m.index = 0 /\ m.subindex = 0
        /\ m.cmd \notin FullSegment \cup LastSegment \cup SegmentAck => m.counter = 0
        /\ m.cmd \notin Initiate => m.total = 0
        /\ m.cmd # Cmd.Abort => m.code = 0
        /\ m.data # <<>> => m.cmd \in MustHaveData \cup FullSegment \cup LastSegment
                                       \cup {Cmd.DownloadResp, Cmd.UploadReq}}

Msg(src, dst, cmd, session) ==
    [src |-> src, dst |-> dst, cmd |-> cmd, session |-> session, index |-> 0,
     subindex |-> 0, counter |-> 0, total |-> 0, code |-> 0, data |-> <<>>]

WithMux(m, index, subindex) == [m EXCEPT !.index = index, !.subindex = subindex]

\* An end frame counts its bytes where other segments have a counter.
WithLast(m, data) == [m EXCEPT !.counter = Len(data), !.data = data]

Frame == [id : CanId, ide : BOOLEAN, rtr : BOOLEAN, err : BOOLEAN, flags : Byte,
          payload : Seq(Byte)]

NewFrame(id, extended) ==
    [id |-> id, ide |-> extended, rtr |-> FALSE, err |-> FALSE, flags |-> 0, payload |-> <<>>]

\* Mutant: the low byte is not masked.
U16leUnmasked(v) == <<v, v \div 256>>

U16le(v) == <<v % 256, v \div 256>>
U32le(v) == <<v % 256, (v \div 256) % 256, (v \div 65536) % 256, v \div 16777216>>

UsdoCanId(sender, cmd) == (IF cmd \in RequestCmd THEN ReqBase ELSE RspBase) + sender

\* encode_common and encode_seg_common: what every frame needs.
PeersOk(m) == m.src \in NodeId /\ m.dst \in NodeId /\ m.session # 0

\* Mutant: the encoders trust the index.
IndexOkAny(m) == TRUE

\* The index check of encode_common, encode_init_common, the initiate response
\* and the abort.
IndexOk(m) == m.cmd \in HasMux => m.index >= MinIndex

SizesOk(m) ==
    /\ m.cmd \in MustHaveData \cup {Cmd.DownloadResp} => Len(m.data) <= DataMax
    /\ m.cmd = Cmd.UploadReq => m.data = <<>>
    /\ m.cmd \in Initiate => m.total \in 1..SegBodyMax
    /\ m.cmd \in LastSegment => Len(m.data) <= SegDataMax
    /\ m.cmd = Cmd.DownloadEndReq => m.data # <<>>

\* The encoders that return true.
Encodes(m) == PeersOk(m) /\ IndexOk(m) /\ SizesOk(m)

EmitsData(m) == m.cmd \in MustHaveData \/ (m.cmd = Cmd.DownloadResp /\ m.data # <<>>)

EncodePayload(m) ==
    <<m.dst, m.cmd, m.session>>
    \o (IF m.cmd \in HasMux THEN <<m.subindex>> \o U16le(m.index) ELSE <<>>)
    \o (IF EmitsData(m) THEN <<TypeDomain, Len(m.data)>> \o m.data ELSE <<>>)
    \o (IF m.cmd \in Initiate THEN <<TypeDomain, 0>> \o U32le(m.total) ELSE <<>>)
    \o (IF m.cmd \in SegmentAck THEN <<m.counter>> ELSE <<>>)
    \o (IF m.cmd \in FullSegment \cup LastSegment THEN <<m.counter>> \o m.data ELSE <<>>)
    \o (IF m.cmd = Cmd.Abort THEN <<m.code>> ELSE <<>>)

EncodeFrame(m) ==
    [NewFrame(UsdoCanId(m.src, m.cmd), FALSE) EXCEPT !.flags = FlagBRS,
                                                     !.payload = EncodePayload(m)]

-----------------------------------------------------------------------------
(* The wire format: identifier with its flag bits, flags, length, payload.  *)

FrameValid(f) ==
    /\ ~f.rtr /\ ~f.err
    /\ ~f.ide => f.id <= StdIdMax
    /\ f.flags <= FlagAll
    /\ Len(f.payload) <= PayloadMax

Serialize(f) ==
    LET top == (IF f.ide THEN 128 ELSE 0) + (IF f.rtr THEN 64 ELSE 0) + (IF f.err THEN 32 ELSE 0)
    IN [U32le(f.id) EXCEPT ![4] = @ + top] \o <<f.flags, Len(f.payload)>> \o f.payload

\* The frame that starts with these header bytes, its payload to come.
HeaderOf(b) ==
    [id |-> b[1] + 256 * b[2] + 65536 * b[3] + 16777216 * (b[4] % 32), ide |-> b[4] >= 128,
     rtr |-> (b[4] \div 64) % 2 = 1, err |-> (b[4] \div 32) % 2 = 1, flags |-> b[5],
     payload |-> <<>>]

\* fbsec_co_fd_frame_parse_header returns PARSE_OK.
HeaderOk(b) == FrameValid(HeaderOf(b)) /\ b[6] <= PayloadMax

FrameOf(b) == [HeaderOf(b) EXCEPT !.payload = SubSeq(b, HeaderSize + 1, Len(b))]

-----------------------------------------------------------------------------
(* Decoding. *)

\* Only the low eleven bits of the identifier are looked at.
Sender(id) == id % 128
Kind(id) ==
    LET base == ((id % 2048) \div 128) * 128 IN
    IF Sender(id) = 0 THEN "NONE"
    ELSE IF base = ReqBase THEN "REQUEST"
    ELSE IF base = RspBase THEN "RESPONSE" ELSE "NONE"

\* The payload starts at p[1] here, at payload[0] in the code.
IndexOf(p) == p[5] + 256 * p[6]

\* total_size; a value past the third byte is too large all the same.
TotalOf(p) == IF p[12] # 0 THEN SegBodyMax + 1 ELSE p[9] + 256 * p[10] + 65536 * p[11]

HasDataBlock(p) ==
    p[2] \in MustHaveData \/ (p[2] = Cmd.DownloadResp /\ Len(p) > UsdoHeaderSize)

\* fbsec_co_fd_usdo_decode returns DECODE_OK.
Decodes(f) ==
    LET p == f.payload
        n == Len(p)
        is(cmds) == p[2] \in cmds IN
    /\ Kind(f.id) # "NONE" /\ n >= EndRespSize
    /\ p[1] \in NodeId
    /\ is(KnownCmd)
    /\ is(FullSegment) => n >= PayloadMax
    /\ is(LastSegment) => n >= SegHeaderSize /\ p[4] <= SegDataMax /\ n >= SegHeaderSize + p[4]
    /\ is(SegmentAck) => n >= SegHeaderSize
    /\ is({Cmd.Abort}) => n >= AbortSize
    /\ is(HasMux \ {Cmd.Abort}) => n >= UsdoHeaderSize /\ IndexOf(p) >= MinIndex
    /\ is(Initiate) => n >= InitSize /\ TotalOf(p) \in 1..SegBodyMax
    /\ HasDataBlock(p) => /\ n >= UsdoHeaderSize + DataPrefixSize
                          /\ p[8] <= DataMax
                          /\ n >= UsdoHeaderSize + DataPrefixSize + p[8]

\* Mutant: the last segment reaches to the end of the frame.
DataOfFrame(p) ==
    IF p[2] \in FullSegment \cup LastSegment THEN SubSeq(p, SegHeaderSize + 1, Len(p))
    ELSE IF HasDataBlock(p) THEN SubSeq(p, 9, 8 + p[8]) ELSE <<>>

\* data, data_len: by the length the message states, not by that of the frame,
\* which the bus may have padded.
DataOf(p) ==
    IF p[2] \in FullSegment THEN SubSeq(p, SegHeaderSize + 1, PayloadMax)
    ELSE IF p[2] \in LastSegment THEN SubSeq(p, SegHeaderSize + 1, SegHeaderSize + p[4])
    ELSE IF HasDataBlock(p) THEN SubSeq(p, 9, 8 + p[8]) ELSE <<>>

Decode(f) ==
    LET p == f.payload
        cmd == p[2]
        m == Msg(Sender(f.id), p[1], cmd, p[3]) IN
    [m EXCEPT !.subindex = IF cmd \in HasMux THEN p[4] ELSE 0,
              !.index = IF cmd \in HasMux THEN IndexOf(p) ELSE 0,
              !.counter = IF cmd \in FullSegment \cup LastSegment \cup SegmentAck THEN p[4] ELSE 0,
              !.total = IF cmd \in Initiate THEN TotalOf(p) ELSE 0,
              !.code = IF cmd = Cmd.Abort THEN p[7] ELSE 0,
              !.data = DataOf(p)]

-----------------------------------------------------------------------------
(* The hub and the bridge. *)

\* cb_on_peer_readable lets a peer's USDO frame through; anything else that is
\* not an announce costs the peer its connection.
HubAccepts(b) == HeaderOk(b) /\ Decodes(FrameOf(b))

\* len_to_dlc and dlc_to_len: the lengths a CAN FD frame can have.
DlcLen == <<0, 1, 2, 3, 4, 5, 6, 7, 8, 12, 16, 20, 24, 32, 48, 64>>
LenToDlc(n) == Min({d \in 0..15 : DlcLen[d + 1] >= n})

\* fbsec_pcan_write_fd zeroes the message and copies the payload, the bus
\* carries as many bytes as the DLC says, fbsec_pcan_read_fd reads them back.
OverPcan(f) ==
    LET n == Len(f.payload)
        len == DlcLen[LenToDlc(n) + 1] IN
    [f EXCEPT !.payload = [i \in 1..len |-> IF i <= n THEN f.payload[i] ELSE 0]]

\* cb_on_idle_tick: what it makes of a frame read from the bus.
FromPcan(f) ==
    [NewFrame(f.id, f.ide) EXCEPT !.flags = f.flags % 2, !.payload = f.payload]

\* can_id_is_sim_only, and the validation before the broadcast.
Bridged(f) == f.id \notin SimOnly /\ FrameValid(FromPcan(f))

-----------------------------------------------------------------------------
(* The receiver. *)

\* Mutant: the server compares its node id with the sender.
PassesOwn(f, m) ==
    IF role = "server" THEN Kind(f.id) = "REQUEST" /\ m.src = Me
    ELSE Kind(f.id) = "RESPONSE" /\ m.src = Target /\ m.dst = Me

\* The filters of run_dispatch_loop and of round_trip; what round_trip does with
\* sessions and multiplexors is SegTransfer's.
Passes(f, m) ==
    IF role = "server" THEN Kind(f.id) = "REQUEST" /\ m.dst = Me
    ELSE Kind(f.id) = "RESPONSE" /\ m.src = Target /\ m.dst = Me

\* Bytes recv_exact_with_deadline still waits for: the header, then the payload.
Missing == IF Len(rx) < HeaderSize THEN HeaderSize - Len(rx) ELSE HeaderSize + rx[6] - Len(rx)

\* Mutant: one recv is taken for the whole payload.
CompleteAtOnce(b) == Len(b) > HeaderSize \/ (Len(b) = HeaderSize /\ b[6] = 0)

Complete(b) == Len(b) >= HeaderSize /\ Len(b) = HeaderSize + b[6]

\* A frame, or what looks like one, has arrived.
Arrived(f) ==
    got' = IF Decodes(f) /\ Passes(f, Decode(f)) THEN Append(got, Decode(f)) ELSE got

\* One recv of at most k bytes.  A malformed header ends the server's loop and a
\* client's round trip; the client reads on in its next one.
Recv(k) ==
    LET n == Min({k, Missing, Len(wire)})
        b == rx \o SubSeq(wire, 1, n)
        bad == Len(b) = HeaderSize /\ ~HeaderOk(b) IN
    /\ alive /\ wire # <<>>
    /\ wire' = SubSeq(wire, n + 1, Len(wire))
    /\ rx' = IF bad \/ Complete(b) THEN <<>> ELSE b
    /\ alive' = ~(bad /\ role = "server")
    /\ IF ~bad /\ Complete(b) THEN Arrived(FrameOf(b)) ELSE UNCHANGED got
    /\ UNCHANGED <<role, far, dropped, puts, sent, cut>>

Receive == \E k \in Chunk : Recv(k)

\* The deadline of a recv, 250 ms in the server's loop: whatever it has read is
\* lost, and the next one starts with what follows.
Deadline ==
    /\ alive
    /\ rx' = <<>>
    /\ cut' = (cut \/ rx # <<>>)
    /\ UNCHANGED <<role, far, wire, alive, dropped, puts, sent, got>>

-----------------------------------------------------------------------------
(* What others put on the stream. *)

\* Bound.
MayPut == puts < MaxMessages

Put(f) ==
    /\ puts' = puts + 1
    /\ wire' = wire \o Serialize(f)

\* The messages this receiver is to get.
MeantForMe(m) ==
    IF role = "server" THEN m.cmd \in RequestCmd /\ m.dst = Me
    ELSE m.cmd \notin RequestCmd /\ m.src = Target /\ m.dst = Me

\* A node encodes m and hands it to its carrier; its hub looks at the frame and
\* relays it, to the receiver or, over the bridge, to the receiver's hub.
Send(m) ==
    LET f == EncodeFrame(m) IN
    /\ MayPut
    /\ m.src \notin dropped \cup {Me}
    /\ Encodes(m) /\ FrameValid(f)
    /\ IF HubAccepts(Serialize(f))
       THEN /\ IF far THEN Bridged(OverPcan(f)) /\ Put(FromPcan(OverPcan(f))) ELSE Put(f)
            /\ UNCHANGED dropped
       ELSE dropped' = dropped \cup {m.src} /\ UNCHANGED <<wire, puts>>
    /\ sent' = IF MeantForMe(m) THEN Append(sent, m) ELSE sent
    /\ UNCHANGED <<role, far, rx, alive, got, cut>>

\* The hub relays a peer's announce, or tells of its loss.
Control(id, n, name) ==
    /\ MayPut
    /\ Put([NewFrame(id, TRUE) EXCEPT !.payload = <<1, n>> \o name])
    /\ UNCHANGED <<role, far, rx, alive, dropped, sent, got, cut>>

\* The bridge brings a frame that is none of USDO's.
ForeignFrame(f) ==
    /\ MayPut /\ Bridged(f)
    /\ Put(FromPcan(f))
    /\ UNCHANGED <<role, far, rx, alive, dropped, sent, got, cut>>

-----------------------------------------------------------------------------

Init ==
    /\ role \in {"server", "client"} /\ far \in BOOLEAN
    /\ wire = <<>> /\ rx = <<>> /\ alive = TRUE
    /\ dropped = {} /\ puts = 0
    /\ sent = <<>> /\ got = <<>> /\ cut = FALSE

Next ==
    \/ \E m \in Message : Send(m)
    \/ \E id \in {SimAnnounce, SimLoss}, name \in {<<>>, <<70, 68>>} : Control(id, Target, name)
    \/ \E f \in Foreign : ForeignFrame(f)
    \/ Receive
    \/ Deadline

\* The server's loop never stops reading.
Spec == Init /\ [][Next]_vars /\ WF_vars(role = "server" /\ Receive)

ASSUME LinkConstants ==
    /\ Me \in NodeId /\ Target \in NodeId \ {Me}
    /\ Chunk \subseteq Nat \ {0} /\ Chunk # {}
    /\ MaxMessages \in Nat
    /\ Message \subseteq Argument /\ Foreign \subseteq Frame
    \* Other devices send nothing that decodes as USDO.
    /\ \A f \in Foreign : Bridged(f) => ~Decodes(FromPcan(f))

-----------------------------------------------------------------------------
(* Properties. *)

\* What the encoders and the hub put on a stream is bytes, and the receiver's
\* buffer never takes more than one frame.
LinkTypeOK ==
    /\ role \in {"server", "client"} /\ far \in BOOLEAN
    /\ \A q \in {wire, rx} : \A i \in 1..Len(q) : q[i] \in 0..255
    /\ Len(rx) < HeaderSize + PayloadMax
    /\ alive \in BOOLEAN /\ cut \in BOOLEAN
    /\ dropped \subseteq NodeId
    /\ puts \in 0..MaxMessages

\* The hub never disconnects a peer for a frame one of the encoders made,
\* whatever its caller asked it to encode.
PeersKept == dropped = {}

\* As long as no deadline falls into a message the receiver stays in step with
\* the stream: no header it reads is malformed, so the server's loop goes on.
StaysInStep == ~cut => alive

\* The channel the link implements: what was meant for the receiver and has not
\* reached it is still in the queue.
Chan == INSTANCE FrameChannel WITH
            queue <- SubSeq(sent, Len(got) + 1, Len(sent)),
            delivered <- got,
            broken <- cut

\* The link delivers every message whole, unchanged and in order, over the bridge
\* and its padding too, until a deadline falls into a message.
ChannelKept == Chan!Spec

\* What is sent to a server reaches it, unless a deadline falls into a message.
ServerHears ==
    \A n \in 1..MaxMessages :
        (role = "server" /\ Len(sent) >= n) ~> (Len(got) >= n \/ cut)
=============================================================================
