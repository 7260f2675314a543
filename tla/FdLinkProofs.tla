---------------------------- MODULE FdLinkProofs ----------------------------
(***************************************************************************)
(* Theorems about FdLink.  First what the codec and the wire format do to  *)
(* one message, then what the stream of bytes in front of the receiver     *)
(* looks like, and from that the invariants of the link and the channel it *)
(* implements.                                                             *)
(***************************************************************************)
EXTENDS FdLink, SequenceTheorems, TLAPS

-----------------------------------------------------------------------------
(* Commands. *)

\* The commands by the layout of their frames.
Answer == {Cmd.DownloadResp}
Bare == {Cmd.UploadReq, Cmd.DownloadInitResp}
Done == {Cmd.DownloadEndResp}
Aborts == {Cmd.Abort}

LEMMA CmdValues ==
    /\ Cmd.DownloadReq = 1 /\ Cmd.DownloadResp = 33 /\ Cmd.UploadReq = 17
    /\ Cmd.UploadResp = 49 /\ Cmd.DownloadInitReq = 2 /\ Cmd.DownloadInitResp = 34
    /\ Cmd.DownloadSegReq = 3 /\ Cmd.DownloadSegResp = 35 /\ Cmd.DownloadEndReq = 4
    /\ Cmd.DownloadEndResp = 36 /\ Cmd.UploadSegReq = 19 /\ Cmd.UploadInitResp = 50
    /\ Cmd.UploadSegResp = 51 /\ Cmd.UploadEndResp = 52 /\ Cmd.Abort = 127
BY DEF Cmd

LEMMA KnownCmdValues ==
    KnownCmd = {1, 33, 17, 49, 2, 34, 3, 35, 4, 36, 19, 50, 51, 52, 127}
<1>1. DOMAIN Cmd = {"DownloadReq", "DownloadResp", "UploadReq", "UploadResp",
                    "DownloadInitReq", "DownloadInitResp", "DownloadSegReq",
                    "DownloadSegResp", "DownloadEndReq", "DownloadEndResp",
                    "UploadSegReq", "UploadInitResp", "UploadSegResp", "UploadEndResp",
                    "Abort"}
  BY DEF Cmd
<1>2. \A k \in DOMAIN Cmd : Cmd[k] \in {1, 33, 17, 49, 2, 34, 3, 35, 4, 36, 19, 50, 51, 52, 127}
  BY <1>1, CmdValues
<1>3. \A v \in {1, 33, 17, 49, 2, 34, 3, 35, 4, 36, 19, 50, 51, 52, 127} :
          \E k \in DOMAIN Cmd : Cmd[k] = v
  BY <1>1, CmdValues
<1>. QED  BY <1>2, <1>3 DEF KnownCmd

\* Every command has one layout, and is a byte.
LEMMA Layouts ==
    /\ KnownCmd = MustHaveData \cup Answer \cup Bare \cup Initiate \cup FullSegment
                  \cup LastSegment \cup SegmentAck \cup Done \cup Aborts
    /\ KnownCmd \subseteq 1..127
    /\ HasMux = MustHaveData \cup Answer \cup Bare \cup Initiate \cup Aborts
BY CmdValues, KnownCmdValues
   DEF MustHaveData, Answer, Bare, Initiate, FullSegment, LastSegment, SegmentAck, Done, Aborts, HasMux

\* No command has two.
LEMMA LayoutsApart ==
    /\ MustHaveData \cap (Answer \cup Bare \cup Initiate \cup FullSegment \cup LastSegment
                          \cup SegmentAck \cup Done \cup Aborts) = {}
    /\ Answer \cap (Bare \cup Initiate \cup FullSegment \cup LastSegment
                    \cup SegmentAck \cup Done \cup Aborts) = {}
    /\ Bare \cap (Initiate \cup FullSegment \cup LastSegment \cup SegmentAck \cup Done
                  \cup Aborts) = {}
    /\ Initiate \cap (FullSegment \cup LastSegment \cup SegmentAck \cup Done \cup Aborts) = {}
    /\ FullSegment \cap (LastSegment \cup SegmentAck \cup Done \cup Aborts) = {}
    /\ LastSegment \cap (SegmentAck \cup Done \cup Aborts) = {}
    /\ SegmentAck \cap (Done \cup Aborts) = {}
    /\ Done \cap Aborts = {}
BY CmdValues
   DEF MustHaveData, Answer, Bare, Initiate, FullSegment, LastSegment, SegmentAck, Done, Aborts

-----------------------------------------------------------------------------
(* Identifiers. *)

LEMMA IdFacts ==
    ASSUME NEW n \in NodeId, NEW c
    PROVE  /\ UsdoCanId(n, c) \in Nat /\ UsdoCanId(n, c) <= 2047
           /\ Sender(UsdoCanId(n, c)) = n
           /\ Kind(UsdoCanId(n, c)) = IF c \in RequestCmd THEN "REQUEST" ELSE "RESPONSE"
BY DEF UsdoCanId, Sender, Kind, NodeId, ReqBase, RspBase

\* The identifiers of the hub's own frames are none of USDO's.
LEMMA ControlKind == Kind(SimAnnounce) = "NONE" /\ Kind(SimLoss) = "NONE"
BY DEF Kind, Sender, SimAnnounce, SimLoss, ReqBase, RspBase

-----------------------------------------------------------------------------
(* Payloads. *)

LEMMA ArgumentType ==
    ASSUME NEW m \in Argument
    PROVE  /\ m.src \in Byte /\ m.dst \in Byte /\ m.cmd \in KnownCmd /\ m.session \in Byte
           /\ m.index \in Word /\ m.subindex \in Byte /\ m.counter \in Byte
           /\ m.total \in Nat /\ m.code \in Byte /\ m.data \in Seq(Byte)
<1>1. m \in Field
  BY DEF Argument
<1>. QED  BY <1>1 DEF Field

\* The parts of a payload.
Lead(m) == <<m.dst, m.cmd, m.session>>
Mux(m) == <<m.subindex>> \o U16le(m.index)
Block(m) == <<TypeDomain, Len(m.data)>> \o m.data
Size(m) == <<TypeDomain, 0>> \o U32le(m.total)
Segment(m) == <<m.counter>> \o m.data

LEMMA PartLead ==
    ASSUME NEW m \in Argument
    PROVE  /\ Lead(m) \in Seq(Byte) /\ Len(Lead(m)) = 3
           /\ Lead(m)[1] = m.dst /\ Lead(m)[2] = m.cmd /\ Lead(m)[3] = m.session
<1>1. m.dst \in Byte /\ m.cmd \in KnownCmd /\ m.session \in Byte
  BY ArgumentType
<1>2. m.cmd \in Byte
  BY <1>1, Layouts DEF Byte
<1>. QED  BY <1>1, <1>2 DEF Lead

LEMMA SmallByte ==
    ASSUME NEW n \in Nat, n <= 64
    PROVE  n \in Byte
BY DEF Byte

\* A word is two bytes.
LEMMA WordBytes ==
    ASSUME NEW v \in Word
    PROVE  /\ v % 256 \in Byte /\ v \div 256 \in Byte
           /\ (v % 256) + 256 * (v \div 256) = v
BY DEF Word, Byte

LEMMA PartMux ==
    ASSUME NEW m \in Argument
    PROVE  /\ Mux(m) \in Seq(Byte) /\ Len(Mux(m)) = 3
           /\ Mux(m)[1] = m.subindex /\ Mux(m)[2] = m.index % 256 /\ Mux(m)[3] = m.index \div 256
<1>1. <<m.subindex>> \in Seq(Byte) /\ Len(<<m.subindex>>) = 1 /\ <<m.subindex>>[1] = m.subindex
  BY ArgumentType
<1>2. U16le(m.index) \in Seq(Byte) /\ Len(U16le(m.index)) = 2
      /\ U16le(m.index)[1] = m.index % 256 /\ U16le(m.index)[2] = m.index \div 256
  <2>1. m.index % 256 \in Byte /\ m.index \div 256 \in Byte
    BY ArgumentType, WordBytes
  <2>. QED  BY <2>1 DEF U16le
<1>. QED  BY <1>1, <1>2, ConcatProperties DEF Mux

LEMMA PartBlock ==
    ASSUME NEW m \in Argument, Len(m.data) <= DataMax
    PROVE  /\ Block(m) \in Seq(Byte) /\ Len(Block(m)) = 2 + Len(m.data)
           /\ Block(m)[2] = Len(m.data)
           /\ \A i \in 1..Len(m.data) : Block(m)[2 + i] = m.data[i]
<1>. DEFINE a == <<TypeDomain, Len(m.data)>>
<1>0. m.data \in Seq(Byte) /\ Len(m.data) \in Byte
  <2>1. m.data \in Seq(Byte) /\ Len(m.data) \in Nat
    BY ArgumentType
  <2>2. DataMax = 56
    BY DEF DataMax, PayloadMax, UsdoHeaderSize, DataPrefixSize
  <2>3. Len(m.data) <= 64
    BY <2>1, <2>2
  <2>4. Len(m.data) \in Byte
    BY <2>1, <2>3, SmallByte
  <2>. QED  BY <2>1, <2>4
<1>1. a \in Seq(Byte) /\ Len(a) = 2 /\ a[2] = Len(m.data)
  BY <1>0 DEF TypeDomain, Byte
<1>2. Block(m) = a \o m.data
  BY DEF Block
<1>. HIDE DEF a
<1>3. /\ a \o m.data \in Seq(Byte) /\ Len(a \o m.data) = Len(a) + Len(m.data)
      /\ \A i \in 1..Len(a) + Len(m.data) :
             (a \o m.data)[i] = IF i <= Len(a) THEN a[i] ELSE m.data[i - Len(a)]
  BY <1>0, <1>1, ConcatProperties
<1>4. Len(m.data) \in Nat
  BY <1>0
<1>. QED  BY <1>1, <1>2, <1>3, <1>4

LEMMA PartSize ==
    ASSUME NEW m \in Argument, m.total <= SegBodyMax
    PROVE  /\ Size(m) \in Seq(Byte) /\ Len(Size(m)) = 6
           /\ Size(m)[3] = m.total % 256 /\ Size(m)[4] = m.total \div 256
           /\ Size(m)[5] = 0 /\ Size(m)[6] = 0
<1>. DEFINE a == <<TypeDomain, 0>>
            u == U32le(m.total)
<1>0. m.total \in 0..256
  <2>1. m.total \in Nat
    BY ArgumentType
  <2>. QED  BY <2>1 DEF SegBodyMax
<1>1. a \in Seq(Byte) /\ Len(a) = 2
  BY DEF TypeDomain, Byte
<1>2. /\ m.total % 256 \in Byte /\ (m.total \div 256) % 256 = m.total \div 256
      /\ m.total \div 256 \in Byte /\ (m.total \div 65536) % 256 = 0
      /\ m.total \div 16777216 = 0 /\ 0 \in Byte
  BY <1>0 DEF Byte
<1>3. u = <<m.total % 256, m.total \div 256, 0, 0>>
  BY <1>2 DEF U32le
<1>4. /\ u \in Seq(Byte) /\ Len(u) = 4
      /\ u[1] = m.total % 256 /\ u[2] = m.total \div 256 /\ u[3] = 0 /\ u[4] = 0
  BY <1>2, <1>3
<1>5. Size(m) = a \o u
  BY DEF Size
<1>. HIDE DEF a, u
<1>6. /\ a \o u \in Seq(Byte) /\ Len(a \o u) = Len(a) + Len(u)
      /\ \A i \in 1..Len(a) + Len(u) :
             (a \o u)[i] = IF i <= Len(a) THEN a[i] ELSE u[i - Len(a)]
  <2>1. a \in Seq(Byte) /\ u \in Seq(Byte)
    BY <1>1, <1>4
  <2>. QED  BY <2>1, ConcatProperties
<1>. QED  BY <1>1, <1>4, <1>5, <1>6

LEMMA PartSegment ==
    ASSUME NEW m \in Argument
    PROVE  /\ Segment(m) \in Seq(Byte) /\ Len(Segment(m)) = 1 + Len(m.data)
           /\ Segment(m)[1] = m.counter
           /\ \A i \in 1..Len(m.data) : Segment(m)[1 + i] = m.data[i]
<1>. DEFINE a == <<m.counter>>
<1>0. m.data \in Seq(Byte) /\ Len(m.data) \in Nat
  BY ArgumentType
<1>1. a \in Seq(Byte) /\ Len(a) = 1 /\ a[1] = m.counter
  BY ArgumentType
<1>2. Segment(m) = a \o m.data
  BY DEF Segment
<1>. HIDE DEF a
<1>3. /\ a \o m.data \in Seq(Byte) /\ Len(a \o m.data) = Len(a) + Len(m.data)
      /\ \A i \in 1..Len(a) + Len(m.data) :
             (a \o m.data)[i] = IF i <= Len(a) THEN a[i] ELSE m.data[i - Len(a)]
  BY <1>0, <1>1, ConcatProperties
<1>. QED  BY <1>0, <1>1, <1>2, <1>3

LEMMA Cat ==
    ASSUME NEW s \in Seq(Byte), NEW t \in Seq(Byte)
    PROVE  /\ s \o t \in Seq(Byte) /\ Len(s \o t) = Len(s) + Len(t)
           /\ Len(s) \in Nat /\ Len(t) \in Nat
           /\ \A i \in 1..Len(s) : (s \o t)[i] = s[i]
           /\ \A i \in 1..Len(t) : (s \o t)[Len(s) + i] = t[i]
<1>1. /\ s \o t \in Seq(Byte) /\ Len(s \o t) = Len(s) + Len(t)
      /\ \A i \in 1..Len(s) + Len(t) :
             (s \o t)[i] = IF i <= Len(s) THEN s[i] ELSE t[i - Len(s)]
  BY ConcatProperties
<1>2. Len(s) \in Nat /\ Len(t) \in Nat
  BY LenProperties
<1>. QED  BY <1>1, <1>2

LEMMA NoMore == \A s \in Seq(Byte) : s \o <<>> = s
BY ConcatEmptySeq

LEMMA OneByte ==
    ASSUME NEW b \in Byte
    PROVE  <<b>> \in Seq(Byte) /\ Len(<<b>>) = 1 /\ <<b>>[1] = b
OBVIOUS

\* The commands whose frames have a data block, and those that end with the
\* multiplexor.
HasBlock(m) == m.cmd \in MustHaveData \/ (m.cmd \in Answer /\ m.data # <<>>)
EndsWithMux(m) == m.cmd \in Bare \/ (m.cmd \in Answer /\ m.data = <<>>)

LEMMA BlockForm ==
    ASSUME NEW m \in Argument, HasBlock(m), Len(m.data) <= DataMax
    PROVE  EncodePayload(m) = (Lead(m) \o Mux(m)) \o Block(m)
<1>1. /\ m.cmd \in HasMux /\ EmitsData(m) /\ m.cmd \notin Initiate /\ m.cmd \notin SegmentAck
      /\ m.cmd \notin FullSegment \cup LastSegment /\ m.cmd # Cmd.Abort
  BY Layouts, LayoutsApart DEF HasBlock, EmitsData, Answer, Aborts
<1>2. EncodePayload(m) = ((((((Lead(m) \o Mux(m)) \o Block(m)) \o <<>>) \o <<>>) \o <<>>) \o <<>>)
  BY <1>1 DEF EncodePayload, Lead, Mux, Block
<1>3. (Lead(m) \o Mux(m)) \o Block(m) \in Seq(Byte)
  BY PartLead, PartMux, PartBlock, Cat
<1>. QED  BY <1>2, <1>3, NoMore

LEMMA MuxForm ==
    ASSUME NEW m \in Argument, EndsWithMux(m)
    PROVE  EncodePayload(m) = Lead(m) \o Mux(m)
<1>1. /\ m.cmd \in HasMux /\ ~EmitsData(m) /\ m.cmd \notin Initiate /\ m.cmd \notin SegmentAck
      /\ m.cmd \notin FullSegment \cup LastSegment /\ m.cmd # Cmd.Abort
  BY Layouts, LayoutsApart DEF EndsWithMux, EmitsData, Answer, Aborts
<1>2. EncodePayload(m) = ((((((Lead(m) \o Mux(m)) \o <<>>) \o <<>>) \o <<>>) \o <<>>) \o <<>>)
  BY <1>1 DEF EncodePayload, Lead, Mux
<1>3. Lead(m) \o Mux(m) \in Seq(Byte)
  BY PartLead, PartMux, Cat
<1>. QED  BY <1>2, <1>3, NoMore

LEMMA InitiateForm ==
    ASSUME NEW m \in Argument, m.cmd \in Initiate, m.total <= SegBodyMax
    PROVE  EncodePayload(m) = (Lead(m) \o Mux(m)) \o Size(m)
<1>1. /\ m.cmd \in HasMux /\ ~EmitsData(m) /\ m.cmd \notin SegmentAck
      /\ m.cmd \notin FullSegment \cup LastSegment /\ m.cmd # Cmd.Abort
  BY Layouts, LayoutsApart DEF EmitsData, Answer, Aborts
<1>2. EncodePayload(m) = ((((((Lead(m) \o Mux(m)) \o <<>>) \o Size(m)) \o <<>>) \o <<>>) \o <<>>)
  BY <1>1 DEF EncodePayload, Lead, Mux, Size
<1>3. Lead(m) \o Mux(m) \in Seq(Byte)
  BY PartLead, PartMux, Cat
<1>4. (Lead(m) \o Mux(m)) \o Size(m) \in Seq(Byte)
  BY <1>3, PartSize, Cat
<1>. QED  BY <1>2, <1>3, <1>4, NoMore

LEMMA SegmentForm ==
    ASSUME NEW m \in Argument, m.cmd \in FullSegment \cup LastSegment
    PROVE  EncodePayload(m) = Lead(m) \o Segment(m)
<1>1. /\ m.cmd \notin HasMux /\ ~EmitsData(m) /\ m.cmd \notin Initiate
      /\ m.cmd \notin SegmentAck /\ m.cmd # Cmd.Abort
  BY Layouts, LayoutsApart DEF EmitsData, Answer, Aborts
<1>2. EncodePayload(m) = ((((((Lead(m) \o <<>>) \o <<>>) \o <<>>) \o <<>>) \o Segment(m)) \o <<>>)
  BY <1>1 DEF EncodePayload, Lead, Segment
<1>3. Lead(m) \in Seq(Byte) /\ Lead(m) \o Segment(m) \in Seq(Byte)
  BY PartLead, PartSegment, Cat
<1>. QED  BY <1>2, <1>3, NoMore

LEMMA AckForm ==
    ASSUME NEW m \in Argument, m.cmd \in SegmentAck
    PROVE  EncodePayload(m) = Lead(m) \o <<m.counter>>
<1>1. /\ m.cmd \notin HasMux /\ ~EmitsData(m) /\ m.cmd \notin Initiate
      /\ m.cmd \notin FullSegment \cup LastSegment /\ m.cmd # Cmd.Abort
  BY Layouts, LayoutsApart DEF EmitsData, Answer, Aborts
<1>2. EncodePayload(m) = ((((((Lead(m) \o <<>>) \o <<>>) \o <<>>) \o <<m.counter>>) \o <<>>) \o <<>>)
  BY <1>1 DEF EncodePayload, Lead
<1>3. Lead(m) \in Seq(Byte) /\ Lead(m) \o <<m.counter>> \in Seq(Byte)
  BY PartLead, ArgumentType, OneByte, Cat
<1>. QED  BY <1>2, <1>3, NoMore

LEMMA DoneForm ==
    ASSUME NEW m \in Argument, m.cmd \in Done
    PROVE  EncodePayload(m) = Lead(m)
<1>1. /\ m.cmd \notin HasMux /\ ~EmitsData(m) /\ m.cmd \notin Initiate /\ m.cmd \notin SegmentAck
      /\ m.cmd \notin FullSegment \cup LastSegment /\ m.cmd # Cmd.Abort
  BY Layouts, LayoutsApart DEF EmitsData, Answer, Aborts
<1>2. EncodePayload(m) = ((((((Lead(m) \o <<>>) \o <<>>) \o <<>>) \o <<>>) \o <<>>) \o <<>>)
  BY <1>1 DEF EncodePayload, Lead
<1>3. Lead(m) \in Seq(Byte)
  BY PartLead
<1>. QED  BY <1>2, <1>3, NoMore

LEMMA AbortForm ==
    ASSUME NEW m \in Argument, m.cmd \in Aborts
    PROVE  EncodePayload(m) = (Lead(m) \o Mux(m)) \o <<m.code>>
<1>1. /\ m.cmd \in HasMux /\ ~EmitsData(m) /\ m.cmd \notin Initiate /\ m.cmd \notin SegmentAck
      /\ m.cmd \notin FullSegment \cup LastSegment /\ m.cmd = Cmd.Abort
  BY Layouts, LayoutsApart DEF EmitsData, Answer, Aborts
<1>2. EncodePayload(m) = ((((((Lead(m) \o Mux(m)) \o <<>>) \o <<>>) \o <<>>) \o <<>>) \o <<m.code>>)
  BY <1>1 DEF EncodePayload, Lead, Mux
<1>3. Lead(m) \o Mux(m) \in Seq(Byte)
  BY PartLead, PartMux, Cat
<1>. QED  BY <1>2, <1>3, NoMore

-----------------------------------------------------------------------------
(* What a payload carries. *)

LeadAt(p, m) == Len(p) >= 3 /\ p[1] = m.dst /\ p[2] = m.cmd /\ p[3] = m.session
MuxAt(p, m) ==
    Len(p) >= 6 /\ p[4] = m.subindex /\ p[5] = m.index % 256 /\ p[6] = m.index \div 256
BlockAt(p, m) ==
    /\ Len(p) >= 8 + Len(m.data) /\ p[8] = Len(m.data)
    /\ \A i \in 1..Len(m.data) : p[8 + i] = m.data[i]
SizeAt(p, m) ==
    /\ Len(p) >= 12 /\ p[9] = m.total % 256 /\ p[10] = m.total \div 256
    /\ p[11] = 0 /\ p[12] = 0
SegmentAt(p, m) ==
    /\ Len(p) >= 4 + Len(m.data) /\ p[4] = m.counter
    /\ \A i \in 1..Len(m.data) : p[4 + i] = m.data[i]

\* The payload of m, padded or not.  The padding must not make a data block out of
\* a frame that ends with the multiplexor.
Carries(p, m) ==
    /\ p \in Seq(Byte) /\ Len(p) <= PayloadMax /\ LeadAt(p, m)
    /\ m.cmd \in HasMux => MuxAt(p, m)
    /\ HasBlock(m) => BlockAt(p, m)
    /\ EndsWithMux(m) => Len(p) = UsdoHeaderSize
    /\ m.cmd \in Initiate => SizeAt(p, m)
    /\ m.cmd \in FullSegment \cup LastSegment => SegmentAt(p, m)
    /\ m.cmd \in FullSegment => Len(p) = PayloadMax
    /\ m.cmd \in SegmentAck => Len(p) >= SegHeaderSize /\ p[4] = m.counter
    /\ m.cmd \in Aborts => Len(p) >= AbortSize /\ p[7] = m.code

\* The lead with something behind it, and the multiplexor with something behind it.
LEMMA AfterLead ==
    ASSUME NEW m \in Argument, NEW t \in Seq(Byte)
    PROVE  /\ Lead(m) \o t \in Seq(Byte) /\ Len(Lead(m) \o t) = 3 + Len(t)
           /\ LeadAt(Lead(m) \o t, m)
           /\ \A i \in 1..Len(t) : (Lead(m) \o t)[3 + i] = t[i]
<1>1. Len(t) \in Nat
  BY LenProperties
<1>. QED  BY <1>1, PartLead, Cat DEF LeadAt

LEMMA AfterMux ==
    ASSUME NEW m \in Argument, NEW t \in Seq(Byte)
    PROVE  /\ (Lead(m) \o Mux(m)) \o t \in Seq(Byte)
           /\ Len((Lead(m) \o Mux(m)) \o t) = 6 + Len(t)
           /\ LeadAt((Lead(m) \o Mux(m)) \o t, m) /\ MuxAt((Lead(m) \o Mux(m)) \o t, m)
           /\ \A i \in 1..Len(t) : ((Lead(m) \o Mux(m)) \o t)[6 + i] = t[i]
<1>. DEFINE h == Lead(m) \o Mux(m)
<1>1. Len(t) \in Nat
  BY LenProperties
<1>2. /\ h \in Seq(Byte) /\ Len(h) = 6 /\ LeadAt(h, m)
      /\ h[4] = Mux(m)[1] /\ h[5] = Mux(m)[2] /\ h[6] = Mux(m)[3]
  <2>1. /\ h \in Seq(Byte) /\ Len(h) = 3 + Len(Mux(m)) /\ LeadAt(h, m)
        /\ \A i \in 1..Len(Mux(m)) : h[3 + i] = Mux(m)[i]
    BY PartMux, AfterLead
  <2>2. Len(Mux(m)) = 3
    BY PartMux
  <2>. QED  BY <2>1, <2>2
<1>3. h[4] = m.subindex /\ h[5] = m.index % 256 /\ h[6] = m.index \div 256
  BY <1>2, PartMux
<1>. HIDE DEF h
<1>4. /\ h \o t \in Seq(Byte) /\ Len(h \o t) = 6 + Len(t)
      /\ \A i \in 1..6 : (h \o t)[i] = h[i]
      /\ \A i \in 1..Len(t) : (h \o t)[6 + i] = t[i]
  <2>1. /\ h \o t \in Seq(Byte) /\ Len(h \o t) = Len(h) + Len(t)
        /\ \A i \in 1..Len(h) : (h \o t)[i] = h[i]
        /\ \A i \in 1..Len(t) : (h \o t)[Len(h) + i] = t[i]
    BY <1>2, Cat
  <2>. QED  BY <1>2, <2>1
<1>5. LeadAt(h \o t, m)
  BY <1>1, <1>2, <1>4 DEF LeadAt
<1>6. MuxAt(h \o t, m)
  <2>1. (h \o t)[4] = h[4] /\ (h \o t)[5] = h[5] /\ (h \o t)[6] = h[6] /\ Len(h \o t) >= 6
    BY <1>1, <1>4
  <2>. QED  BY <2>1, <1>3 DEF MuxAt
<1>. QED  BY <1>4, <1>5, <1>6 DEF h

\* What the size checks of the encoders leave.
LEMMA Sizes ==
    ASSUME NEW m \in Argument, Encodes(m)
    PROVE  /\ m.data \in Seq(Byte) /\ Len(m.data) \in Nat
           /\ HasBlock(m) => Len(m.data) <= 56
           /\ m.cmd \in Initiate => m.total \in 1..256
           /\ m.cmd \in FullSegment => Len(m.data) = 60
           /\ m.cmd \in LastSegment => Len(m.data) <= 60 /\ m.counter = Len(m.data)
           /\ m.cmd \in HasMux => m.index >= 4096
           /\ m.src \in NodeId /\ m.dst \in NodeId
<1>1. m.data \in Seq(Byte)
  BY ArgumentType
<1>2. Len(m.data) \in Nat
  BY <1>1, LenProperties
<1>3. /\ m.cmd \in FullSegment => Len(m.data) = SegDataMax
      /\ m.cmd \in LastSegment => m.counter = Len(m.data)
  BY DEF Argument
<1>4. DataMax = 56 /\ SegDataMax = 60 /\ SegBodyMax = 256 /\ MinIndex = 4096
  BY DEF DataMax, SegDataMax, SegBodyMax, MinIndex, PayloadMax, UsdoHeaderSize,
         DataPrefixSize, SegHeaderSize
<1>5. /\ m.cmd \in MustHaveData \cup {Cmd.DownloadResp} => Len(m.data) <= DataMax
      /\ m.cmd \in Initiate => m.total \in 1..SegBodyMax
      /\ m.cmd \in LastSegment => Len(m.data) <= SegDataMax
  BY DEF Encodes, SizesOk
<1>6. m.cmd \in HasMux => m.index >= MinIndex
  BY DEF Encodes, IndexOk
<1>7. m.src \in NodeId /\ m.dst \in NodeId
  BY DEF Encodes, PeersOk
<1>8. HasBlock(m) => m.cmd \in MustHaveData \cup {Cmd.DownloadResp}
  BY DEF HasBlock, Answer
<1>. QED  BY <1>1, <1>2, <1>3, <1>4, <1>5, <1>6, <1>7, <1>8

\* Every encoder puts its message into the payload.
LEMMA Encoded ==
    ASSUME NEW m \in Argument, Encodes(m)
    PROVE  Carries(EncodePayload(m), m)
<1>. DEFINE p == EncodePayload(m)
<1>1. PayloadMax = 64 /\ UsdoHeaderSize = 6 /\ SegHeaderSize = 4 /\ AbortSize = 7
      /\ DataMax = 56 /\ SegBodyMax = 256
  BY DEF PayloadMax, UsdoHeaderSize, SegHeaderSize, AbortSize, DataMax, DataPrefixSize, SegBodyMax
<1>2. m.cmd \in KnownCmd
  BY ArgumentType
<1>3. CASE HasBlock(m)
  <2>1. Len(m.data) \in Nat /\ Len(m.data) <= 56
    BY <1>3, Sizes
  <2>2. p = (Lead(m) \o Mux(m)) \o Block(m)
    BY <1>1, <1>3, <2>1, BlockForm
  <2>3. /\ Block(m) \in Seq(Byte) /\ Len(Block(m)) = 2 + Len(m.data) /\ Block(m)[2] = Len(m.data)
        /\ \A i \in 1..Len(m.data) : Block(m)[2 + i] = m.data[i]
    BY <1>1, <2>1, PartBlock
  <2>. HIDE DEF p
  <2>4. /\ p \in Seq(Byte) /\ Len(p) = 8 + Len(m.data) /\ LeadAt(p, m) /\ MuxAt(p, m)
        /\ \A i \in 1..Len(Block(m)) : p[6 + i] = Block(m)[i]
    <3>1. /\ p \in Seq(Byte) /\ Len(p) = 6 + Len(Block(m)) /\ LeadAt(p, m) /\ MuxAt(p, m)
          /\ \A i \in 1..Len(Block(m)) : p[6 + i] = Block(m)[i]
      BY <2>2, <2>3, AfterMux
    <3>2. Len(p) = 8 + Len(m.data)
      BY <2>1, <2>3, <3>1
    <3>. QED  BY <3>1, <3>2
  <2>5. BlockAt(p, m)
    <3>1. p[8] = Len(m.data)
      BY <2>1, <2>3, <2>4
    <3>2. ASSUME NEW i \in 1..Len(m.data)
          PROVE  p[8 + i] = m.data[i]
      <4>1. 2 + i \in 1..Len(Block(m)) /\ 6 + (2 + i) = 8 + i
        BY <2>1, <2>3
      <4>. QED  BY <2>3, <2>4, <4>1
    <3>. QED  BY <2>1, <2>4, <3>1, <3>2 DEF BlockAt
  <2>6. /\ m.cmd \notin Initiate /\ m.cmd \notin SegmentAck /\ m.cmd \notin Aborts
        /\ m.cmd \notin FullSegment /\ m.cmd \notin LastSegment /\ ~EndsWithMux(m)
    BY <1>3, LayoutsApart DEF HasBlock, EndsWithMux
  <2>7. Len(p) <= PayloadMax
    BY <1>1, <2>1, <2>4
  <2>. QED  BY <2>4, <2>5, <2>6, <2>7 DEF Carries, p
<1>4. CASE EndsWithMux(m)
  <2>. DEFINE t == <<>>
  <2>1. p = Lead(m) \o Mux(m)
    BY <1>4, MuxForm
  <2>2. p = (Lead(m) \o Mux(m)) \o t
    BY <2>1, PartLead, PartMux, Cat, NoMore
  <2>. HIDE DEF p
  <2>3. t \in Seq(Byte) /\ Len(t) = 0
    OBVIOUS
  <2>. HIDE DEF t
  <2>4. p \in Seq(Byte) /\ Len(p) = 6 /\ LeadAt(p, m) /\ MuxAt(p, m)
    <3>1. p \in Seq(Byte) /\ Len(p) = 6 + Len(t) /\ LeadAt(p, m) /\ MuxAt(p, m)
      BY <2>2, <2>3, AfterMux
    <3>. QED  BY <2>3, <3>1
  <2>5. /\ m.cmd \notin Initiate /\ m.cmd \notin SegmentAck /\ m.cmd \notin Aborts
        /\ m.cmd \notin FullSegment /\ m.cmd \notin LastSegment /\ ~HasBlock(m)
    BY <1>4, LayoutsApart DEF HasBlock, EndsWithMux
  <2>6. Len(p) <= PayloadMax /\ Len(p) = UsdoHeaderSize
    BY <1>1, <2>4
  <2>. QED  BY <2>4, <2>5, <2>6 DEF Carries, p
<1>5. CASE m.cmd \in Initiate
  <2>1. m.total <= SegBodyMax
    <3>1. m.total \in 1..256
      BY <1>5, Sizes
    <3>. QED  BY <1>1, <3>1
  <2>2. p = (Lead(m) \o Mux(m)) \o Size(m)
    BY <1>5, <2>1, InitiateForm
  <2>3. /\ Size(m) \in Seq(Byte) /\ Len(Size(m)) = 6
        /\ Size(m)[3] = m.total % 256 /\ Size(m)[4] = m.total \div 256
        /\ Size(m)[5] = 0 /\ Size(m)[6] = 0
    BY <2>1, PartSize
  <2>. HIDE DEF p
  <2>4. /\ p \in Seq(Byte) /\ Len(p) = 6 + Len(Size(m)) /\ LeadAt(p, m) /\ MuxAt(p, m)
        /\ \A i \in 1..Len(Size(m)) : p[6 + i] = Size(m)[i]
    BY <2>2, <2>3, AfterMux
  <2>5. Len(p) = 12 /\ p[9] = Size(m)[3] /\ p[10] = Size(m)[4] /\ p[11] = Size(m)[5] /\ p[12] = Size(m)[6]
    <3>1. Len(Size(m)) = 6
      BY <2>3
    <3>. QED  BY <2>4, <3>1
  <2>6. SizeAt(p, m)
    BY <2>3, <2>5 DEF SizeAt
  <2>7. /\ m.cmd \notin SegmentAck /\ m.cmd \notin Aborts
        /\ m.cmd \notin FullSegment /\ m.cmd \notin LastSegment /\ ~HasBlock(m) /\ ~EndsWithMux(m)
    BY <1>5, LayoutsApart DEF HasBlock, EndsWithMux
  <2>8. Len(p) <= PayloadMax
    BY <1>1, <2>5
  <2>. QED  BY <2>4, <2>6, <2>7, <2>8 DEF Carries, p
<1>6. CASE m.cmd \in FullSegment \cup LastSegment
  <2>1. Len(m.data) \in Nat /\ Len(m.data) <= 60 /\ (m.cmd \in FullSegment => Len(m.data) = 60)
    <3>1. Len(m.data) \in Nat
      BY Sizes
    <3>2. /\ m.cmd \in FullSegment => Len(m.data) = 60
          /\ m.cmd \in LastSegment => Len(m.data) <= 60
      BY Sizes
    <3>3. Len(m.data) = 60 => Len(m.data) <= 60
      OBVIOUS
    <3>4. Len(m.data) <= 60
      BY <1>6, <3>2, <3>3
    <3>. QED  BY <3>1, <3>2, <3>4
  <2>2. p = Lead(m) \o Segment(m)
    BY <1>6, SegmentForm
  <2>3. /\ Segment(m) \in Seq(Byte) /\ Len(Segment(m)) = 1 + Len(m.data)
        /\ Segment(m)[1] = m.counter
        /\ \A i \in 1..Len(m.data) : Segment(m)[1 + i] = m.data[i]
    BY PartSegment
  <2>. HIDE DEF p
  <2>4. /\ p \in Seq(Byte) /\ Len(p) = 4 + Len(m.data) /\ LeadAt(p, m)
        /\ \A i \in 1..Len(Segment(m)) : p[3 + i] = Segment(m)[i]
    BY <2>1, <2>2, <2>3, AfterLead
  <2>5. SegmentAt(p, m)
    <3>1. p[4] = m.counter
      BY <2>1, <2>3, <2>4
    <3>2. ASSUME NEW i \in 1..Len(m.data)
          PROVE  p[4 + i] = m.data[i]
      <4>1. 1 + i \in 1..Len(Segment(m)) /\ 3 + (1 + i) = 4 + i
        BY <2>1, <2>3
      <4>. QED  BY <2>3, <2>4, <4>1
    <3>. QED  BY <2>1, <2>4, <3>1, <3>2 DEF SegmentAt
  <2>6. /\ m.cmd \notin Initiate /\ m.cmd \notin SegmentAck /\ m.cmd \notin Aborts
        /\ m.cmd \notin HasMux /\ ~HasBlock(m) /\ ~EndsWithMux(m)
    BY <1>6, Layouts, LayoutsApart DEF HasBlock, EndsWithMux
  <2>7. Len(p) <= PayloadMax /\ (m.cmd \in FullSegment => Len(p) = PayloadMax)
    <3>1. Len(m.data) \in Nat /\ Len(m.data) <= 60 /\ Len(p) = 4 + Len(m.data)
      BY <2>1, <2>4
    <3>2. \A n \in Nat : n <= 60 => 4 + n <= 64
      OBVIOUS
    <3>3. Len(p) <= 64
      BY <3>1, <3>2
    <3>4. Len(m.data) = 60 => Len(p) = 64
      BY <3>1
    <3>. QED  BY <1>1, <2>1, <3>3, <3>4
  <2>. QED  BY <2>4, <2>5, <2>6, <2>7 DEF Carries, p
<1>7. CASE m.cmd \in SegmentAck
  <2>. DEFINE t == <<m.counter>>
  <2>1. p = Lead(m) \o t
    BY <1>7, AckForm
  <2>2. t \in Seq(Byte) /\ Len(t) = 1 /\ t[1] = m.counter
    BY ArgumentType, OneByte
  <2>. HIDE DEF p, t
  <2>3. p \in Seq(Byte) /\ Len(p) = 4 /\ LeadAt(p, m) /\ p[4] = m.counter
    <3>1. /\ p \in Seq(Byte) /\ Len(p) = 3 + Len(t) /\ LeadAt(p, m)
          /\ \A i \in 1..Len(t) : p[3 + i] = t[i]
      BY <2>1, <2>2, AfterLead
    <3>. QED  BY <2>2, <3>1
  <2>4. /\ m.cmd \notin Initiate /\ m.cmd \notin Aborts /\ m.cmd \notin HasMux
        /\ m.cmd \notin FullSegment /\ m.cmd \notin LastSegment /\ ~HasBlock(m) /\ ~EndsWithMux(m)
    BY <1>7, Layouts, LayoutsApart DEF HasBlock, EndsWithMux
  <2>5. Len(p) <= PayloadMax /\ Len(p) >= SegHeaderSize
    BY <1>1, <2>3
  <2>. QED  BY <2>3, <2>4, <2>5 DEF Carries, p
<1>8. CASE m.cmd \in Done
  <2>1. p = Lead(m)
    BY <1>8, DoneForm
  <2>. HIDE DEF p
  <2>2. p \in Seq(Byte) /\ Len(p) = 3 /\ LeadAt(p, m)
    BY <2>1, PartLead DEF LeadAt
  <2>3. /\ m.cmd \notin Initiate /\ m.cmd \notin Aborts /\ m.cmd \notin HasMux /\ m.cmd \notin SegmentAck
        /\ m.cmd \notin FullSegment /\ m.cmd \notin LastSegment /\ ~HasBlock(m) /\ ~EndsWithMux(m)
    BY <1>8, Layouts, LayoutsApart DEF HasBlock, EndsWithMux
  <2>4. Len(p) <= PayloadMax
    BY <1>1, <2>2
  <2>. QED  BY <2>2, <2>3, <2>4 DEF Carries, p
<1>9. CASE m.cmd \in Aborts
  <2>. DEFINE t == <<m.code>>
  <2>1. p = (Lead(m) \o Mux(m)) \o t
    BY <1>9, AbortForm
  <2>2. t \in Seq(Byte) /\ Len(t) = 1 /\ t[1] = m.code
    BY ArgumentType, OneByte
  <2>. HIDE DEF p, t
  <2>3. p \in Seq(Byte) /\ Len(p) = 7 /\ LeadAt(p, m) /\ MuxAt(p, m) /\ p[7] = m.code
    <3>1. /\ p \in Seq(Byte) /\ Len(p) = 6 + Len(t) /\ LeadAt(p, m) /\ MuxAt(p, m)
          /\ \A i \in 1..Len(t) : p[6 + i] = t[i]
      BY <2>1, <2>2, AfterMux
    <3>. QED  BY <2>2, <3>1
  <2>4. /\ m.cmd \notin Initiate /\ m.cmd \notin SegmentAck
        /\ m.cmd \notin FullSegment /\ m.cmd \notin LastSegment /\ ~HasBlock(m) /\ ~EndsWithMux(m)
    BY <1>9, Layouts, LayoutsApart DEF HasBlock, EndsWithMux
  <2>5. Len(p) <= PayloadMax /\ Len(p) >= AbortSize
    BY <1>1, <2>3
  <2>. QED  BY <2>3, <2>4, <2>5 DEF Carries, p
<1>. QED  BY <1>2, <1>3, <1>4, <1>5, <1>6, <1>7, <1>8, <1>9, Layouts DEF HasBlock, EndsWithMux

LEMMA SubSeqIs ==
    ASSUME NEW p \in Seq(Byte), NEW d \in Seq(Byte), NEW k \in Nat, k + Len(d) <= Len(p),
           \A i \in 1..Len(d) : p[k + i] = d[i]
    PROVE  SubSeq(p, k + 1, k + Len(d)) = d
<1>. DEFINE s == SubSeq(p, k + 1, k + Len(d))
<1>1. Len(d) \in Nat /\ Len(p) \in Nat
  BY LenProperties
<1>2. \A i \in (k + 1)..(k + Len(d)) : p[i] \in Byte
  BY <1>1, ElementOfSeq
<1>3. k + 1 \in Int /\ k + Len(d) \in Int
  BY <1>1
<1>4. /\ s \in Seq(Byte)
      /\ Len(s) = IF k + 1 <= k + Len(d) THEN (k + Len(d)) - (k + 1) + 1 ELSE 0
      /\ \A i \in 1..((k + Len(d)) - (k + 1) + 1) : s[i] = p[(k + 1) + i - 1]
  BY <1>2, <1>3, SubSeqProperties
<1>. HIDE DEF s
<1>5. Len(s) = Len(d)
  BY <1>1, <1>4
<1>6. \A i \in 1..Len(s) : s[i] = d[i]
  <2>. SUFFICES ASSUME NEW i \in 1..Len(s)
                PROVE  s[i] = d[i]
    OBVIOUS
  <2>1. i \in 1..Len(d) /\ i \in 1..((k + Len(d)) - (k + 1) + 1) /\ (k + 1) + i - 1 = k + i
    BY <1>1, <1>5
  <2>. QED  BY <1>4, <2>1
<1>7. s = d
  BY <1>4, <1>5, <1>6, SeqEqual
<1>. QED  BY <1>7 DEF s

\* Where data is carried, and where there is none.
LEMMA NoData ==
    ASSUME NEW m \in Argument, Encodes(m), ~HasBlock(m), m.cmd \notin FullSegment \cup LastSegment
    PROVE  m.data = <<>>
<1>1. m.data # <<>> => m.cmd \in MustHaveData \cup FullSegment \cup LastSegment
                                  \cup {Cmd.DownloadResp, Cmd.UploadReq}
  BY DEF Argument
<1>2. m.cmd = Cmd.UploadReq => m.data = <<>>
  BY DEF Encodes, SizesOk
<1>. QED  BY <1>1, <1>2 DEF HasBlock, Answer

LEMMA DataBlockAt ==
    ASSUME NEW m \in Argument, NEW p, Encodes(m), Carries(p, m)
    PROVE  HasDataBlock(p) <=> HasBlock(m)
<1>1. p[2] = m.cmd
  BY DEF Carries, LeadAt
<1>2. UsdoHeaderSize = 6
  BY DEF UsdoHeaderSize
<1>3. CASE HasBlock(m)
  <2>1. Len(p) >= 8 + Len(m.data) /\ Len(m.data) \in Nat /\ Len(p) \in Nat
    BY <1>3, Sizes DEF Carries, BlockAt
  <2>2. Len(p) > 6
    BY <2>1
  <2>. QED  BY <1>1, <1>2, <1>3, <2>2 DEF HasDataBlock, HasBlock, Answer
<1>4. CASE ~HasBlock(m)
  <2>1. m.cmd \notin MustHaveData
    BY <1>4 DEF HasBlock
  <2>2. m.cmd = Cmd.DownloadResp => Len(p) = 6
    BY <1>2, <1>4 DEF HasBlock, EndsWithMux, Answer, Carries
  <2>3. \A n \in Nat : ~(n = 6 /\ n > 6)
    OBVIOUS
  <2>4. Len(p) \in Nat
    BY LenProperties DEF Carries
  <2>. QED  BY <1>1, <1>2, <1>4, <2>1, <2>2, <2>3, <2>4 DEF HasDataBlock
<1>. QED  BY <1>3, <1>4

\* decode: the message comes out of every payload that carries it.
LEMMA FieldsAt ==
    ASSUME NEW m \in Argument, NEW p, Encodes(m), Carries(p, m)
    PROVE  /\ m.cmd \in HasMux => IndexOf(p) = m.index
           /\ m.cmd \in Initiate => TotalOf(p) = m.total
           /\ DataOf(p) = m.data
<1>1. m.cmd \in HasMux => IndexOf(p) = m.index
  <2>. SUFFICES ASSUME m.cmd \in HasMux
                PROVE  IndexOf(p) = m.index
    OBVIOUS
  <2>1. p[5] = m.index % 256 /\ p[6] = m.index \div 256
    BY DEF Carries, MuxAt
  <2>2. (m.index % 256) + 256 * (m.index \div 256) = m.index
    BY ArgumentType, WordBytes
  <2>. QED  BY <2>1, <2>2 DEF IndexOf
<1>2. m.cmd \in Initiate => TotalOf(p) = m.total
  <2>. SUFFICES ASSUME m.cmd \in Initiate
                PROVE  TotalOf(p) = m.total
    OBVIOUS
  <2>1. p[9] = m.total % 256 /\ p[10] = m.total \div 256 /\ p[11] = 0 /\ p[12] = 0
    BY DEF Carries, SizeAt
  <2>2. \A n \in 1..256 : (n % 256) + 256 * (n \div 256) + 65536 * 0 = n
    OBVIOUS
  <2>3. m.total \in 1..256
    BY Sizes
  <2>. QED  BY <2>1, <2>2, <2>3 DEF TotalOf
<1>. SUFFICES DataOf(p) = m.data
  BY <1>1, <1>2
<1>3. p[2] = m.cmd /\ p \in Seq(Byte)
  BY DEF Carries, LeadAt
<1>4. m.data \in Seq(Byte) /\ Len(m.data) \in Nat
  BY Sizes
<1>5. SegHeaderSize = 4 /\ PayloadMax = 64
  BY DEF SegHeaderSize, PayloadMax
<1>6. CASE m.cmd \in FullSegment \cup LastSegment
  <2>1. /\ 4 + Len(m.data) <= Len(p) /\ p[4] = m.counter
        /\ \A i \in 1..Len(m.data) : p[4 + i] = m.data[i]
    <3>1. SegmentAt(p, m)
      BY <1>6 DEF Carries
    <3>2. Len(p) \in Nat
      BY <1>3, LenProperties
    <3>. QED  BY <1>4, <3>1, <3>2 DEF SegmentAt
  <2>2. SubSeq(p, 4 + 1, 4 + Len(m.data)) = m.data
    BY <1>3, <1>4, <2>1, SubSeqIs
  <2>3. m.cmd \in FullSegment => Len(m.data) = 60
    BY Sizes
  <2>4. m.cmd \in LastSegment => m.counter = Len(m.data)
    BY Sizes
  <2>5. CASE m.cmd \in FullSegment
    <3>1. DataOf(p) = SubSeq(p, SegHeaderSize + 1, PayloadMax)
      BY <1>3, <2>5 DEF DataOf
    <3>2. Len(m.data) = 60
      BY <2>3, <2>5
    <3>. QED  BY <1>5, <2>2, <3>1, <3>2
  <2>6. CASE m.cmd \in LastSegment
    <3>1. m.cmd \notin FullSegment
      BY <2>6, LayoutsApart
    <3>2. DataOf(p) = SubSeq(p, SegHeaderSize + 1, SegHeaderSize + p[4])
      BY <1>3, <2>6, <3>1 DEF DataOf
    <3>. QED  BY <1>5, <2>1, <2>2, <2>4, <2>6, <3>2
  <2>. QED  BY <1>6, <2>5, <2>6
<1>7. CASE HasBlock(m)
  <2>1. /\ 8 + Len(m.data) <= Len(p) /\ p[8] = Len(m.data)
        /\ \A i \in 1..Len(m.data) : p[8 + i] = m.data[i]
    <3>1. BlockAt(p, m)
      BY <1>7 DEF Carries
    <3>2. Len(p) \in Nat
      BY <1>3, LenProperties
    <3>. QED  BY <1>4, <3>1, <3>2 DEF BlockAt
  <2>2. SubSeq(p, 8 + 1, 8 + Len(m.data)) = m.data
    BY <1>3, <1>4, <2>1, SubSeqIs
  <2>3. m.cmd \notin FullSegment /\ m.cmd \notin LastSegment /\ HasDataBlock(p)
    BY <1>7, LayoutsApart, DataBlockAt DEF HasBlock
  <2>4. DataOf(p) = SubSeq(p, 9, 8 + p[8])
    BY <1>3, <2>3 DEF DataOf
  <2>. QED  BY <2>1, <2>2, <2>4
<1>8. CASE ~HasBlock(m) /\ m.cmd \notin FullSegment \cup LastSegment
  <2>1. ~HasDataBlock(p) /\ m.data = <<>>
    BY <1>8, DataBlockAt, NoData
  <2>. QED  BY <1>3, <1>8, <2>1 DEF DataOf
<1>. QED  BY <1>6, <1>7, <1>8

\* A USDO frame of m.
FrameFor(f, m) ==
    f \in Frame /\ FrameValid(f) /\ f.id = UsdoCanId(m.src, m.cmd) /\ Carries(f.payload, m)

LEMMA FrameDecodes ==
    ASSUME NEW m \in Argument, NEW f, Encodes(m), FrameFor(f, m)
    PROVE  Decodes(f)
<1>. DEFINE p == f.payload
            n == Len(p)
<1>1. /\ Carries(p, m) /\ p[1] = m.dst /\ p[2] = m.cmd /\ p[3] = m.session
      /\ n >= 3 /\ p \in Seq(Byte)
  BY DEF FrameFor, Carries, LeadAt
<1>2. n \in Nat
  BY <1>1, LenProperties
<1>3. /\ EndRespSize = 3 /\ PayloadMax = 64 /\ SegHeaderSize = 4 /\ SegDataMax = 60
      /\ AbortSize = 7 /\ UsdoHeaderSize = 6 /\ MinIndex = 4096 /\ InitSize = 12
      /\ SegBodyMax = 256 /\ DataPrefixSize = 2 /\ DataMax = 56
  BY DEF EndRespSize, PayloadMax, SegHeaderSize, SegDataMax, AbortSize, UsdoHeaderSize, MinIndex,
         InitSize, SegBodyMax, DataPrefixSize, DataMax
<1>4. Kind(f.id) # "NONE"
  BY Sizes, IdFacts DEF FrameFor
<1>5. m.dst \in NodeId /\ m.cmd \in KnownCmd
  BY Sizes, ArgumentType
<1>6. m.cmd \in FullSegment => n >= PayloadMax
  BY <1>1, <1>2, <1>3 DEF Carries
<1>7. m.cmd \in LastSegment => n >= SegHeaderSize /\ p[4] <= SegDataMax /\ n >= SegHeaderSize + p[4]
  <2>. SUFFICES ASSUME m.cmd \in LastSegment
                PROVE  n >= 4 /\ p[4] <= 60 /\ n >= 4 + p[4]
    BY <1>3
  <2>1. Len(m.data) \in Nat /\ Len(m.data) <= 60 /\ m.counter = Len(m.data)
    BY Sizes
  <2>2. n >= 4 + Len(m.data) /\ p[4] = m.counter
    BY <1>1 DEF Carries, SegmentAt
  <2>. QED  BY <1>2, <2>1, <2>2
<1>8. m.cmd \in SegmentAck => n >= SegHeaderSize
  BY <1>1 DEF Carries
<1>9. m.cmd = Cmd.Abort => n >= AbortSize
  BY <1>1 DEF Carries, Aborts
<1>10. m.cmd \in HasMux => n >= UsdoHeaderSize /\ IndexOf(p) >= MinIndex
  <2>. SUFFICES ASSUME m.cmd \in HasMux
                PROVE  n >= 6 /\ IndexOf(p) >= 4096
    BY <1>3
  <2>1. IndexOf(p) = m.index /\ m.index >= 4096
    BY <1>1, FieldsAt, Sizes
  <2>2. n >= 6
    BY <1>1 DEF Carries, MuxAt
  <2>. QED  BY <2>1, <2>2
<1>11. m.cmd \in Initiate => n >= InitSize /\ TotalOf(p) \in 1..SegBodyMax
  <2>. SUFFICES ASSUME m.cmd \in Initiate
                PROVE  n >= 12 /\ TotalOf(p) \in 1..256
    BY <1>3
  <2>1. TotalOf(p) = m.total /\ m.total \in 1..256
    BY <1>1, FieldsAt, Sizes
  <2>2. n >= 12
    BY <1>1 DEF Carries, SizeAt
  <2>. QED  BY <2>1, <2>2
<1>12. HasDataBlock(p) => /\ n >= UsdoHeaderSize + DataPrefixSize
                          /\ p[8] <= DataMax
                          /\ n >= UsdoHeaderSize + DataPrefixSize + p[8]
  <2>. SUFFICES ASSUME HasDataBlock(p)
                PROVE  n >= 6 + 2 /\ p[8] <= 56 /\ n >= 6 + 2 + p[8]
    BY <1>3
  <2>1. HasBlock(m)
    BY <1>1, DataBlockAt
  <2>2. Len(m.data) \in Nat /\ Len(m.data) <= 56
    BY <2>1, Sizes
  <2>3. n >= 8 + Len(m.data) /\ p[8] = Len(m.data)
    BY <1>1, <2>1 DEF Carries, BlockAt
  <2>. QED  BY <1>2, <2>2, <2>3
<1>. HIDE DEF p, n
<1>13. /\ Kind(f.id) # "NONE" /\ n >= EndRespSize /\ p[1] \in NodeId /\ p[2] \in KnownCmd
  BY <1>1, <1>3, <1>4, <1>5
<1>14. /\ p[2] \in FullSegment => n >= PayloadMax
       /\ p[2] \in LastSegment => n >= SegHeaderSize /\ p[4] <= SegDataMax /\ n >= SegHeaderSize + p[4]
       /\ p[2] \in SegmentAck => n >= SegHeaderSize
       /\ p[2] \in {Cmd.Abort} => n >= AbortSize
       /\ p[2] \in HasMux \ {Cmd.Abort} => n >= UsdoHeaderSize /\ IndexOf(p) >= MinIndex
       /\ p[2] \in Initiate => n >= InitSize /\ TotalOf(p) \in 1..SegBodyMax
  BY <1>1, <1>6, <1>7, <1>8, <1>9, <1>10, <1>11
<1>. QED  BY <1>12, <1>13, <1>14 DEF Decodes, p, n

LEMMA FrameDecoded ==
    ASSUME NEW m \in Argument, NEW f, Encodes(m), FrameFor(f, m)
    PROVE  Decode(f) = m
<1>. DEFINE p == f.payload
            d == [src |-> Sender(f.id), dst |-> p[1], cmd |-> p[2], session |-> p[3],
                  index |-> IF p[2] \in HasMux THEN IndexOf(p) ELSE 0,
                  subindex |-> IF p[2] \in HasMux THEN p[4] ELSE 0,
                  counter |-> IF p[2] \in FullSegment \cup LastSegment \cup SegmentAck
                              THEN p[4] ELSE 0,
                  total |-> IF p[2] \in Initiate THEN TotalOf(p) ELSE 0,
                  code |-> IF p[2] = Cmd.Abort THEN p[7] ELSE 0,
                  data |-> DataOf(p)]
<1>1. Carries(p, m) /\ p[1] = m.dst /\ p[2] = m.cmd /\ p[3] = m.session
  BY DEF FrameFor, Carries, LeadAt
<1>2. Decode(f) = d
  <2>. DEFINE v1 == d.index
              v2 == d.subindex
              v3 == d.counter
              v4 == d.total
              v5 == d.code
              v6 == d.data
  <2>1. Decode(f) = [Msg(Sender(f.id), p[1], p[2], p[3]) EXCEPT
                        !.subindex = v2, !.index = v1, !.counter = v3, !.total = v4,
                        !.code = v5, !.data = v6]
    BY DEF Decode
  <2>2. d = [src |-> Sender(f.id), dst |-> p[1], cmd |-> p[2], session |-> p[3], index |-> v1,
             subindex |-> v2, counter |-> v3, total |-> v4, code |-> v5, data |-> v6]
    OBVIOUS
  <2>. HIDE DEF v1, v2, v3, v4, v5, v6, d
  <2>. QED  BY <2>1, <2>2 DEF Msg
<1>3. Sender(f.id) = m.src
  BY Sizes, IdFacts DEF FrameFor
<1>4. /\ m.cmd \in HasMux => IndexOf(p) = m.index
      /\ m.cmd \in Initiate => TotalOf(p) = m.total
      /\ DataOf(p) = m.data
  BY <1>1, FieldsAt
<1>5. m.cmd \in HasMux => p[4] = m.subindex
  BY <1>1 DEF Carries, MuxAt
<1>6. m.cmd \in FullSegment \cup LastSegment \cup SegmentAck => p[4] = m.counter
  BY <1>1 DEF Carries, SegmentAt
<1>7. m.cmd = Cmd.Abort => p[7] = m.code
  BY <1>1 DEF Carries, Aborts
<1>8. /\ m.cmd \notin HasMux => m.index = 0 /\ m.subindex = 0
      /\ m.cmd \notin FullSegment \cup LastSegment \cup SegmentAck => m.counter = 0
      /\ m.cmd \notin Initiate => m.total = 0
      /\ m.cmd # Cmd.Abort => m.code = 0
  BY DEF Argument
<1>9. d = [src |-> m.src, dst |-> m.dst, cmd |-> m.cmd, session |-> m.session,
           index |-> m.index, subindex |-> m.subindex, counter |-> m.counter,
           total |-> m.total, code |-> m.code, data |-> m.data]
  BY <1>1, <1>3, <1>4, <1>5, <1>6, <1>7, <1>8
<1>10. m \in Field
  BY DEF Argument
<1>11. m = [src |-> m.src, dst |-> m.dst, cmd |-> m.cmd, session |-> m.session,
           index |-> m.index, subindex |-> m.subindex, counter |-> m.counter,
           total |-> m.total, code |-> m.code, data |-> m.data]
  BY <1>10 DEF Field
<1>. QED  BY <1>2, <1>9, <1>11

-----------------------------------------------------------------------------
(* The wire format. *)

LEMMA IdBytes ==
    ASSUME NEW v \in CanId
    PROVE  /\ v % 256 \in Byte /\ (v \div 256) % 256 \in Byte /\ (v \div 65536) % 256 \in Byte
           /\ v \div 16777216 \in 0..31
           /\ (v % 256) + 256 * ((v \div 256) % 256) + 65536 * ((v \div 65536) % 256)
              + 16777216 * (v \div 16777216) = v
<1>1. v \in Nat
  BY DEF CanId
<1>2. v % 256 \in Byte /\ (v \div 256) % 256 \in Byte /\ (v \div 65536) % 256 \in Byte
  BY <1>1 DEF Byte
<1>3. v \div 16777216 \in 0..31
  <2>1. 2^29 = 32 * 16777216
    OBVIOUS
  <2>2. v < 32 * 16777216
    BY <2>1 DEF CanId
  <2>. QED  BY <1>1, <2>2
<1>4. (v % 256) + 256 * (v \div 256) = v
  BY <1>1
<1>5. ((v \div 256) % 256) + 256 * (v \div 65536) = v \div 256
  BY <1>1
<1>6. ((v \div 65536) % 256) + 256 * (v \div 16777216) = v \div 65536
  BY <1>1
<1>. QED  BY <1>1, <1>2, <1>3, <1>4, <1>5, <1>6

\* The top byte of the identifier with the extended flag.
Top(f) == f.id \div 16777216 + (IF f.ide THEN 128 ELSE 0)

LEMMA TopByte ==
    ASSUME NEW f \in Frame
    PROVE  /\ Top(f) \in Byte /\ Top(f) % 32 = f.id \div 16777216
           /\ (Top(f) >= 128) = f.ide
           /\ (Top(f) \div 64) % 2 = 0 /\ (Top(f) \div 32) % 2 = 0
<1>1. f.id \in CanId /\ f.ide \in BOOLEAN
  BY DEF Frame
<1>2. f.id \div 16777216 \in 0..31
  BY <1>1, IdBytes
<1>3. CASE f.ide
  <2>1. Top(f) = f.id \div 16777216 + 128
    BY <1>3 DEF Top
  <2>2. \A n \in 0..31 : /\ n + 128 \in Byte /\ (n + 128) % 32 = n /\ n + 128 >= 128
                         /\ ((n + 128) \div 64) % 2 = 0 /\ ((n + 128) \div 32) % 2 = 0
    BY DEF Byte
  <2>3. Top(f) >= 128
    BY <1>2, <2>1, <2>2
  <2>4. (Top(f) >= 128) = f.ide
    BY <1>1, <1>3, <2>3
  <2>. QED  BY <1>2, <2>1, <2>2, <2>4
<1>4. CASE ~f.ide
  <2>1. Top(f) = f.id \div 16777216
    BY <1>2, <1>4 DEF Top
  <2>2. \A n \in 0..31 : /\ n \in Byte /\ n % 32 = n /\ ~(n >= 128)
                         /\ (n \div 64) % 2 = 0 /\ (n \div 32) % 2 = 0
    BY DEF Byte
  <2>3. ~(Top(f) >= 128)
    BY <1>2, <2>1, <2>2
  <2>4. (Top(f) >= 128) = f.ide
    BY <1>1, <1>4, <2>3
  <2>. QED  BY <1>2, <2>1, <2>2, <2>4
<1>. QED  BY <1>3, <1>4

LEMMA SerializeForm ==
    ASSUME NEW f \in Frame, FrameValid(f)
    PROVE  Serialize(f) = (<<f.id % 256, (f.id \div 256) % 256, (f.id \div 65536) % 256, Top(f)>>
                           \o <<f.flags, Len(f.payload)>>) \o f.payload
<1>1. ~f.rtr /\ ~f.err
  BY DEF FrameValid
<1>2. f.id \in CanId
  BY DEF Frame
<1>3. f.id \div 16777216 \in 0..31
  BY <1>2, IdBytes
<1>. DEFINE a == IF f.ide THEN 128 ELSE 0
            x == IF f.rtr THEN 64 ELSE 0
            y == IF f.err THEN 32 ELSE 0
            u == [U32le(f.id) EXCEPT ![4] = @ + (a + x + y)]
            w == <<f.id % 256, (f.id \div 256) % 256, (f.id \div 65536) % 256, Top(f)>>
<1>4. a \in Nat /\ x = 0 /\ y = 0 /\ Top(f) = f.id \div 16777216 + a
  BY <1>1 DEF Top
<1>5. Serialize(f) = (u \o <<f.flags, Len(f.payload)>>) \o f.payload
  BY Zenon DEF Serialize
<1>. HIDE DEF a, x, y
<1>6. f.id \div 16777216 + (a + x + y) = Top(f)
  BY <1>3, <1>4
<1>7. u = w
  BY <1>6 DEF U32le
<1>. HIDE DEF u, w
<1>8. Serialize(f) = (w \o <<f.flags, Len(f.payload)>>) \o f.payload
  BY <1>5, <1>7
<1>. QED  BY <1>8 DEF w

LEMMA WireBytes ==
    ASSUME NEW f \in Frame, FrameValid(f), NEW b, b = Serialize(f)
    PROVE  /\ b \in Seq(Byte) /\ Len(b) = 6 + Len(f.payload)
           /\ Len(f.payload) \in Nat /\ Len(f.payload) <= 64
           /\ b[1] = f.id % 256 /\ b[2] = (f.id \div 256) % 256 /\ b[3] = (f.id \div 65536) % 256
           /\ b[4] = Top(f) /\ b[5] = f.flags /\ b[6] = Len(f.payload)
           /\ \A i \in 1..Len(f.payload) : b[6 + i] = f.payload[i]
<1>. DEFINE s == <<f.id % 256, (f.id \div 256) % 256, (f.id \div 65536) % 256, Top(f)>>
            t == <<f.flags, Len(f.payload)>>
            p == f.payload
<1>1. f.id \in CanId /\ f.flags \in Byte /\ p \in Seq(Byte)
  BY DEF Frame
<1>2. Len(p) \in Nat
  BY <1>1, LenProperties
<1>3. Len(p) <= 64
  BY DEF FrameValid, PayloadMax
<1>4. Len(p) \in Byte
  BY <1>2, <1>3, SmallByte
<1>5. /\ s \in Seq(Byte) /\ Len(s) = 4 /\ s[1] = f.id % 256 /\ s[2] = (f.id \div 256) % 256
      /\ s[3] = (f.id \div 65536) % 256 /\ s[4] = Top(f)
  BY <1>1, IdBytes, TopByte
<1>6. t \in Seq(Byte) /\ Len(t) = 2 /\ t[1] = f.flags /\ t[2] = Len(p)
  BY <1>1, <1>4
<1>7. b = (s \o t) \o p
  BY SerializeForm
<1>. HIDE DEF s, t, p
<1>8. /\ s \o t \in Seq(Byte) /\ Len(s \o t) = Len(s) + Len(t)
      /\ \A i \in 1..Len(s) : (s \o t)[i] = s[i]
      /\ \A i \in 1..Len(t) : (s \o t)[Len(s) + i] = t[i]
  <2>1. s \in Seq(Byte) /\ t \in Seq(Byte)
    BY <1>5, <1>6
  <2>. QED  BY <2>1, Cat
<1>9. /\ Len(s \o t) = 6
      /\ (s \o t)[1] = s[1] /\ (s \o t)[2] = s[2] /\ (s \o t)[3] = s[3] /\ (s \o t)[4] = s[4]
      /\ (s \o t)[5] = t[1] /\ (s \o t)[6] = t[2]
  <2>1. Len(s) = 4 /\ Len(t) = 2
    BY <1>5, <1>6
  <2>. QED  BY <1>8, <2>1
<1>10. /\ b \in Seq(Byte) /\ Len(b) = Len(s \o t) + Len(p)
       /\ \A i \in 1..Len(s \o t) : b[i] = (s \o t)[i]
       /\ \A i \in 1..Len(p) : b[Len(s \o t) + i] = p[i]
  BY <1>1, <1>7, <1>8, Cat
<1>11. /\ Len(b) = 6 + Len(p)
       /\ b[1] = s[1] /\ b[2] = s[2] /\ b[3] = s[3] /\ b[4] = s[4] /\ b[5] = t[1] /\ b[6] = t[2]
       /\ \A i \in 1..Len(p) : b[6 + i] = p[i]
  BY <1>9, <1>10
<1>12. /\ b \in Seq(Byte) /\ Len(b) = 6 + Len(p) /\ Len(p) \in Nat /\ Len(p) <= 64
       /\ b[1] = f.id % 256 /\ b[2] = (f.id \div 256) % 256 /\ b[3] = (f.id \div 65536) % 256
       /\ b[4] = Top(f) /\ b[5] = f.flags /\ b[6] = Len(p)
       /\ \A i \in 1..Len(p) : b[6 + i] = p[i]
  BY <1>2, <1>3, <1>5, <1>6, <1>10, <1>11
<1>. QED  BY <1>12 DEF p

\* parse_header looks at the first six bytes only.
LEMMA WireHeader ==
    ASSUME NEW f \in Frame, FrameValid(f), NEW b,
           \A i \in 1..6 : b[i] = Serialize(f)[i]
    PROVE  /\ HeaderOf(b) = [f EXCEPT !.payload = <<>>] /\ HeaderOk(b)
           /\ b[6] = Len(f.payload)
<1>. DEFINE s == Serialize(f)
<1>1. /\ b[1] = f.id % 256 /\ b[2] = (f.id \div 256) % 256 /\ b[3] = (f.id \div 65536) % 256
      /\ b[4] = Top(f) /\ b[5] = f.flags /\ b[6] = Len(f.payload) /\ Len(f.payload) \in Nat /\ Len(f.payload) <= 64
  <2>1. /\ s[1] = f.id % 256 /\ s[2] = (f.id \div 256) % 256 /\ s[3] = (f.id \div 65536) % 256
        /\ s[4] = Top(f) /\ s[5] = f.flags /\ s[6] = Len(f.payload) /\ Len(f.payload) \in Nat /\ Len(f.payload) <= 64
    BY WireBytes
  <2>2. b[1] = s[1] /\ b[2] = s[2] /\ b[3] = s[3] /\ b[4] = s[4] /\ b[5] = s[5] /\ b[6] = s[6]
    OBVIOUS
  <2>. QED  BY <2>1, <2>2
<1>2. f.id \in CanId /\ f.ide \in BOOLEAN /\ f.rtr = FALSE /\ f.err = FALSE
  BY DEF Frame, FrameValid
<1>3. b[4] % 32 = f.id \div 16777216 /\ (b[4] >= 128) = f.ide
      /\ (b[4] \div 64) % 2 = 0 /\ (b[4] \div 32) % 2 = 0
  BY <1>1, TopByte
<1>4. b[1] + 256 * b[2] + 65536 * b[3] + 16777216 * (b[4] % 32) = f.id
  <2>1. (f.id % 256) + 256 * ((f.id \div 256) % 256) + 65536 * ((f.id \div 65536) % 256)
              + 16777216 * (f.id \div 16777216) = f.id
    BY <1>2, IdBytes
  <2>. QED  BY <1>1, <1>3, <2>1
<1>5. ((b[4] \div 64) % 2 = 1) = FALSE /\ ((b[4] \div 32) % 2 = 1) = FALSE
  BY <1>3
<1>6. HeaderOf(b) = [id |-> f.id, ide |-> f.ide, rtr |-> FALSE, err |-> FALSE,
                     flags |-> f.flags, payload |-> <<>>]
  <2>. DEFINE v1 == b[1] + 256 * b[2] + 65536 * b[3] + 16777216 * (b[4] % 32)
              v2 == b[4] >= 128
              v3 == (b[4] \div 64) % 2 = 1
              v4 == (b[4] \div 32) % 2 = 1
  <2>1. HeaderOf(b) = [id |-> v1, ide |-> v2, rtr |-> v3, err |-> v4, flags |-> b[5],
                       payload |-> <<>>]
    BY DEF HeaderOf
  <2>2. v1 = f.id /\ v2 = f.ide /\ v3 = FALSE /\ v4 = FALSE /\ b[5] = f.flags
    BY <1>1, <1>3, <1>4, <1>5
  <2>. HIDE DEF v1, v2, v3, v4
  <2>. QED  BY <2>1, <2>2
<1>7. [f EXCEPT !.payload = <<>>] = [id |-> f.id, ide |-> f.ide, rtr |-> FALSE, err |-> FALSE,
                                     flags |-> f.flags, payload |-> <<>>]
  <2>1. f = [id |-> f.id, ide |-> f.ide, rtr |-> f.rtr, err |-> f.err, flags |-> f.flags,
             payload |-> f.payload]
    BY DEF Frame
  <2>2. [f EXCEPT !.payload = <<>>] = [id |-> f.id, ide |-> f.ide, rtr |-> f.rtr, err |-> f.err,
                                       flags |-> f.flags, payload |-> <<>>]
    BY <2>1
  <2>. QED  BY <1>2, <2>2
<1>8. FrameValid(HeaderOf(b))
  <2>1. ~f.ide => f.id <= StdIdMax
    BY DEF FrameValid
  <2>2. f.flags <= FlagAll
    BY DEF FrameValid
  <2>3. Len(<<>>) <= PayloadMax
    BY DEF PayloadMax
  <2>. QED  BY <1>6, <2>1, <2>2, <2>3 DEF FrameValid
<1>9. b[6] <= PayloadMax
  BY <1>1 DEF PayloadMax
<1>. QED  BY <1>1, <1>6, <1>7, <1>8, <1>9 DEF HeaderOk

\* A serialized frame is read back as it was.
LEMMA WireFrame ==
    ASSUME NEW f \in Frame, FrameValid(f)
    PROVE  HeaderOk(Serialize(f)) /\ FrameOf(Serialize(f)) = f
<1>. DEFINE b == Serialize(f)
            p == f.payload
<1>1. HeaderOf(b) = [f EXCEPT !.payload = <<>>] /\ HeaderOk(b)
  BY WireHeader
<1>2. /\ b \in Seq(Byte) /\ Len(b) = 6 + Len(p) /\ Len(p) \in Nat
      /\ \A i \in 1..Len(p) : b[6 + i] = p[i]
  BY WireBytes
<1>3. p \in Seq(Byte)
  BY DEF Frame
<1>4. SubSeq(b, 6 + 1, 6 + Len(p)) = p
  <2>. HIDE DEF b, p
  <2>1. 6 + Len(p) <= Len(b)
    BY <1>2
  <2>. QED  BY <1>2, <1>3, <2>1, SubSeqIs
<1>5. FrameOf(b) = [[f EXCEPT !.payload = <<>>] EXCEPT !.payload = p]
  <2>1. HeaderSize + 1 = 6 + 1
    BY DEF HeaderSize
  <2>2. FrameOf(b) = [HeaderOf(b) EXCEPT !.payload = SubSeq(b, HeaderSize + 1, Len(b))]
    BY DEF FrameOf
  <2>. QED  BY <1>1, <1>2, <1>4, <2>1, <2>2
<1>6. [[f EXCEPT !.payload = <<>>] EXCEPT !.payload = p] = f
  BY DEF Frame
<1>. QED  BY <1>1, <1>5, <1>6

-----------------------------------------------------------------------------
(* The bridge. *)

LEMMA DlcValues ==
    /\ \A d \in 0..8 : DlcLen[d + 1] = d
    /\ DlcLen[10] = 12 /\ DlcLen[11] = 16 /\ DlcLen[12] = 20 /\ DlcLen[13] = 24
    /\ DlcLen[14] = 32 /\ DlcLen[15] = 48 /\ DlcLen[16] = 64
BY DEF DlcLen

\* The length of a frame on the bus: long enough, and exact up to eight bytes.
LEMMA DlcFits ==
    ASSUME NEW n \in Nat, n <= 64
    PROVE  LET len == DlcLen[LenToDlc(n) + 1] IN
           len \in Nat /\ n <= len /\ len <= 64 /\ (n <= 8 => len = n)
<1>. DEFINE S == {d \in 0..15 : DlcLen[d + 1] >= n}
            Least(d) == d \in S /\ \A e \in S : d <= e
<1>1. \E d \in 0..15 : Least(d)
  <2>1. CASE n <= 8
    <3>1. Least(n)
      BY <2>1, DlcValues
    <3>. QED  BY <2>1, <3>1
  <2>2. CASE n \in 9..12
    <3>1. Least(9)
      BY <2>2, DlcValues
    <3>. QED  BY <3>1
  <2>3. CASE n \in 13..16
    <3>1. Least(10)
      BY <2>3, DlcValues
    <3>. QED  BY <3>1
  <2>4. CASE n \in 17..20
    <3>1. Least(11)
      BY <2>4, DlcValues
    <3>. QED  BY <3>1
  <2>5. CASE n \in 21..24
    <3>1. Least(12)
      BY <2>5, DlcValues
    <3>. QED  BY <3>1
  <2>6. CASE n > 24 /\ n <= 32
    <3>1. Least(13)
      BY <2>6, DlcValues
    <3>. QED  BY <3>1
  <2>7. CASE n > 32 /\ n <= 48
    <3>1. Least(14)
      BY <2>7, DlcValues
    <3>. QED  BY <3>1
  <2>8. CASE n > 48
    <3>1. Least(15)
      BY <2>8, DlcValues
    <3>. QED  BY <3>1
  <2>. QED  BY <2>1, <2>2, <2>3, <2>4, <2>5, <2>6, <2>7, <2>8
<1>2. Least(LenToDlc(n))
  BY <1>1 DEF LenToDlc, Min
<1>. DEFINE d == LenToDlc(n)
            len == DlcLen[d + 1]
<1>3. d \in 0..15 /\ len >= n /\ \A e \in 0..15 : DlcLen[e + 1] >= n => d <= e
  BY <1>2
<1>. HIDE DEF d
<1>4. len \in Nat /\ len <= 64
  BY <1>3, DlcValues
<1>5. n <= 8 => len = n
  <2>. SUFFICES ASSUME n <= 8
                PROVE  len = n
    OBVIOUS
  <2>1. d <= n
    BY <1>3, DlcValues
  <2>2. len = d
    BY <1>3, <2>1, DlcValues
  <2>. QED  BY <1>3, <2>1, <2>2
<1>6. n <= len
  BY <1>3, <1>4
<1>. QED  BY <1>4, <1>5, <1>6 DEF d

\* Padding does not change what a payload carries.
LEMMA Padded ==
    ASSUME NEW m \in Argument, NEW p, NEW q \in Seq(Byte), Carries(p, m), Encodes(m),
           Len(p) <= Len(q), Len(q) <= 64, Len(p) <= 8 => Len(q) = Len(p),
           \A i \in 1..Len(p) : q[i] = p[i]
    PROVE  Carries(q, m)
<1>1. PayloadMax = 64 /\ UsdoHeaderSize = 6 /\ SegHeaderSize = 4 /\ AbortSize = 7
  BY DEF PayloadMax, UsdoHeaderSize, SegHeaderSize, AbortSize
<1>2. p \in Seq(Byte) /\ Len(p) \in Nat /\ Len(q) \in Nat
  BY LenProperties DEF Carries
<1>3. m.data \in Seq(Byte) /\ Len(m.data) \in Nat
  BY Sizes
<1>4. LeadAt(q, m)
  <2>1. LeadAt(p, m)
    BY DEF Carries
  <2>. QED  BY <1>2, <2>1 DEF LeadAt
<1>5. m.cmd \in HasMux => MuxAt(q, m)
  <2>. SUFFICES ASSUME m.cmd \in HasMux
                PROVE  MuxAt(q, m)
    OBVIOUS
  <2>1. MuxAt(p, m)
    BY DEF Carries
  <2>2. Len(q) >= 6 /\ q[4] = p[4] /\ q[5] = p[5] /\ q[6] = p[6]
    BY <1>2, <2>1 DEF MuxAt
  <2>. QED  BY <2>1, <2>2 DEF MuxAt
<1>6. HasBlock(m) => BlockAt(q, m)
  <2>. SUFFICES ASSUME HasBlock(m)
                PROVE  BlockAt(q, m)
    OBVIOUS
  <2>1. BlockAt(p, m)
    BY DEF Carries
  <2>2. Len(p) >= 8 + Len(m.data)
    BY <2>1 DEF BlockAt
  <2>3. q[8] = p[8] /\ Len(q) >= 8 + Len(m.data)
    BY <1>2, <1>3, <2>2
  <2>4. \A i \in 1..Len(m.data) : q[8 + i] = p[8 + i]
    BY <1>2, <1>3, <2>2
  <2>. QED  BY <2>1, <2>3, <2>4 DEF BlockAt
<1>7. EndsWithMux(m) => Len(q) = UsdoHeaderSize
  <2>. SUFFICES ASSUME EndsWithMux(m)
                PROVE  Len(q) = 6
    BY <1>1
  <2>1. Len(p) = 6
    BY <1>1 DEF Carries
  <2>. QED  BY <2>1
<1>8. m.cmd \in Initiate => SizeAt(q, m)
  <2>. SUFFICES ASSUME m.cmd \in Initiate
                PROVE  SizeAt(q, m)
    OBVIOUS
  <2>1. SizeAt(p, m)
    BY DEF Carries
  <2>2. Len(p) >= 12
    BY <2>1 DEF SizeAt
  <2>3. Len(q) >= 12 /\ q[9] = p[9] /\ q[10] = p[10] /\ q[11] = p[11] /\ q[12] = p[12]
    BY <1>2, <2>2
  <2>. QED  BY <2>1, <2>3 DEF SizeAt
<1>9. m.cmd \in FullSegment \cup LastSegment => SegmentAt(q, m)
  <2>. SUFFICES ASSUME m.cmd \in FullSegment \cup LastSegment
                PROVE  SegmentAt(q, m)
    OBVIOUS
  <2>1. SegmentAt(p, m)
    BY DEF Carries
  <2>2. Len(p) >= 4 + Len(m.data)
    BY <2>1 DEF SegmentAt
  <2>3. q[4] = p[4] /\ Len(q) >= 4 + Len(m.data)
    BY <1>2, <1>3, <2>2
  <2>4. \A i \in 1..Len(m.data) : q[4 + i] = p[4 + i]
    BY <1>2, <1>3, <2>2
  <2>. QED  BY <2>1, <2>3, <2>4 DEF SegmentAt
<1>10. m.cmd \in FullSegment => Len(q) = PayloadMax
  <2>. SUFFICES ASSUME m.cmd \in FullSegment
                PROVE  Len(q) = 64
    BY <1>1
  <2>1. Len(p) = 64
    BY <1>1 DEF Carries
  <2>2. 64 <= Len(q)
    BY <2>1
  <2>3. \A k \in Nat : 64 <= k /\ k <= 64 => k = 64
    OBVIOUS
  <2>. QED  BY <1>2, <2>2, <2>3
<1>11. m.cmd \in SegmentAck => Len(q) >= SegHeaderSize /\ q[4] = m.counter
  <2>. SUFFICES ASSUME m.cmd \in SegmentAck
                PROVE  Len(q) >= 4 /\ q[4] = m.counter
    BY <1>1
  <2>1. Len(p) >= 4 /\ p[4] = m.counter
    BY <1>1 DEF Carries
  <2>2. Len(q) >= 4 /\ q[4] = p[4]
    BY <1>2, <2>1
  <2>. QED  BY <2>1, <2>2
<1>12. m.cmd \in Aborts => Len(q) >= AbortSize /\ q[7] = m.code
  <2>. SUFFICES ASSUME m.cmd \in Aborts
                PROVE  Len(q) >= 7 /\ q[7] = m.code
    BY <1>1
  <2>1. Len(p) >= 7 /\ p[7] = m.code
    BY <1>1 DEF Carries
  <2>2. Len(q) >= 7 /\ q[7] = p[7]
    BY <1>2, <2>1
  <2>. QED  BY <2>1, <2>2
<1>13. Len(q) <= PayloadMax
  BY <1>1
<1>. QED  BY <1>4, <1>5, <1>6, <1>7, <1>8, <1>9, <1>10, <1>11, <1>12, <1>13 DEF Carries

\* A frame with nothing but these fields set.
Plain(id, e, n, q) ==
    [id |-> id, ide |-> e, rtr |-> FALSE, err |-> FALSE, flags |-> n, payload |-> q]

LEMMA FrameWith ==
    \A id, e, n, q : [NewFrame(id, e) EXCEPT !.flags = n, !.payload = q] = Plain(id, e, n, q)
<1>. TAKE id, e, n, q
<1>. DEFINE R(a, k, s) == [id |-> id, ide |-> e, rtr |-> a, err |-> a, flags |-> k, payload |-> s]
<1>1. NewFrame(id, e) = R(FALSE, 0, <<>>)
  BY DEF NewFrame
<1>2. \A a, k, s : [R(a, k, s) EXCEPT !.flags = n] = R(a, n, s)
  OBVIOUS
<1>3. \A a, k, s : [R(a, k, s) EXCEPT !.payload = q] = R(a, k, q)
  OBVIOUS
<1>4. \A r : [r EXCEPT !.flags = n, !.payload = q] = [[r EXCEPT !.flags = n] EXCEPT !.payload = q]
  OBVIOUS
<1>. HIDE DEF R
<1>5. [NewFrame(id, e) EXCEPT !.flags = n, !.payload = q] = R(FALSE, n, q)
  <2>1. [NewFrame(id, e) EXCEPT !.flags = n] = R(FALSE, n, <<>>)
    <3>1. [R(FALSE, 0, <<>>) EXCEPT !.flags = n] = R(FALSE, n, <<>>)
      BY <1>2, Zenon
    <3>. QED  BY <1>1, <3>1
  <2>. DEFINE r == NewFrame(id, e)
  <2>2. [r EXCEPT !.flags = n, !.payload = q] = [[r EXCEPT !.flags = n] EXCEPT !.payload = q]
    BY <1>4
  <2>3. [[r EXCEPT !.flags = n] EXCEPT !.payload = q] = R(FALSE, n, q)
    BY <1>3, <2>1
  <2>. QED  BY <2>2, <2>3
<1>6. R(FALSE, n, q) = Plain(id, e, n, q)
  BY DEF R, Plain
<1>. QED  BY <1>5, <1>6

LEMMA PayloadOnly ==
    \A id, e, q : [NewFrame(id, e) EXCEPT !.payload = q] = Plain(id, e, 0, q)
<1>. TAKE id, e, q
<1>. DEFINE R(a, k, s) == [id |-> id, ide |-> e, rtr |-> a, err |-> a, flags |-> k, payload |-> s]
<1>1. NewFrame(id, e) = R(FALSE, 0, <<>>)
  BY DEF NewFrame
<1>2. \A a, k, s : [R(a, k, s) EXCEPT !.payload = q] = R(a, k, q)
  OBVIOUS
<1>3. R(FALSE, 0, q) = Plain(id, e, 0, q)
  BY DEF Plain
<1>. HIDE DEF R
<1>4. [R(FALSE, 0, <<>>) EXCEPT !.payload = q] = R(FALSE, 0, q)
  BY <1>2, Zenon
<1>. QED  BY <1>1, <1>3, <1>4

\* What the encoder makes of m, and what the far hub makes of that.
LEMMA NearFrame ==
    ASSUME NEW m \in Argument, Encodes(m)
    PROVE  FrameFor(EncodeFrame(m), m) /\ EncodeFrame(m).flags = 1
<1>. DEFINE f == EncodeFrame(m)
            id == UsdoCanId(m.src, m.cmd)
            p == EncodePayload(m)
<1>1. f = [id |-> id, ide |-> FALSE, rtr |-> FALSE, err |-> FALSE, flags |-> 1, payload |-> p]
  <2>1. f = [NewFrame(id, FALSE) EXCEPT !.flags = 1, !.payload = p]
    BY DEF EncodeFrame, FlagBRS
  <2>. HIDE DEF f, id, p
  <2>2. f = Plain(id, FALSE, 1, p)
    BY <2>1, FrameWith
  <2>. QED  BY <2>2 DEF Plain
<1>2. id \in Nat /\ id <= 2047
  <2>1. m.src \in NodeId
    BY Sizes
  <2>. QED  BY <2>1, IdFacts
<1>3. id \in CanId /\ id <= StdIdMax
  <2>1. 2^29 = 536870912
    OBVIOUS
  <2>2. id \in Nat /\ id <= 2047
    BY <1>2
  <2>. HIDE DEF id
  <2>3. id \in CanId
    BY <2>1, <2>2 DEF CanId
  <2>. QED  BY <2>2, <2>3 DEF StdIdMax
<1>4. Carries(p, m)
  BY Encoded
<1>5. p \in Seq(Byte) /\ Len(p) <= PayloadMax
  BY <1>4 DEF Carries
<1>6. 1 \in Byte /\ 1 <= FlagAll
  BY DEF Byte, FlagAll
<1>. HIDE DEF f, id, p
<1>7. f \in Frame
  BY <1>1, <1>3, <1>5, <1>6 DEF Frame
<1>8. FrameValid(f)
  BY <1>1, <1>3, <1>5, <1>6 DEF FrameValid
<1>9. f.id = id /\ f.payload = p /\ f.flags = 1
  BY <1>1
<1>. QED  BY <1>4, <1>7, <1>8, <1>9 DEF FrameFor, f, id, p

LEMMA FarFrame ==
    ASSUME NEW m \in Argument, Encodes(m)
    PROVE  FrameFor(FromPcan(OverPcan(EncodeFrame(m))), m)
<1>. DEFINE f == EncodeFrame(m)
            p == f.payload
            n == Len(p)
            len == DlcLen[LenToDlc(n) + 1]
            q == [i \in 1..len |-> IF i <= n THEN p[i] ELSE 0]
            g == FromPcan(OverPcan(f))
<1>1. FrameFor(f, m) /\ f.flags = 1
  BY NearFrame
<1>. HIDE DEF f
<1>2. f \in Frame /\ Carries(p, m) /\ f.id = UsdoCanId(m.src, m.cmd) /\ FrameValid(f)
  BY <1>1 DEF FrameFor
<1>3. p \in Seq(Byte) /\ n \in Nat /\ n <= 64
  BY <1>2, LenProperties DEF Carries, PayloadMax
<1>4. f = [id |-> f.id, ide |-> f.ide, rtr |-> f.rtr, err |-> f.err, flags |-> f.flags,
           payload |-> f.payload]
  BY <1>2 DEF Frame
<1>5. OverPcan(f) = [f EXCEPT !.payload = q]
  BY DEF OverPcan
<1>6. len \in Nat /\ n <= len /\ len <= 64 /\ (n <= 8 => len = n)
  BY <1>3, DlcFits
<1>. HIDE DEF n, len
<1>7. q \in Seq(Byte) /\ Len(q) = len /\ \A i \in 1..n : q[i] = p[i]
  <2>1. \A i \in 1..n : p[i] \in Byte
    BY <1>3, ElementOfSeq DEF n
  <2>2. 0 \in Byte
    BY DEF Byte
  <2>3. \A i \in 1..len : (IF i <= n THEN p[i] ELSE 0) \in Byte
    BY <1>3, <1>6, <2>1, <2>2
  <2>. QED  BY <1>3, <1>6, <2>3
<1>. HIDE DEF q, p
<1>8. OverPcan(f).id = f.id /\ OverPcan(f).ide = f.ide /\ OverPcan(f).flags = 1
      /\ OverPcan(f).payload = q
  BY <1>1, <1>4, <1>5
<1>9. g = [id |-> f.id, ide |-> f.ide, rtr |-> FALSE, err |-> FALSE, flags |-> 1, payload |-> q]
  <2>1. 1 % 2 = 1
    OBVIOUS
  <2>2. g = [NewFrame(f.id, f.ide) EXCEPT !.flags = 1, !.payload = q]
    BY <1>8, <2>1 DEF FromPcan
  <2>. HIDE DEF g
  <2>3. g = Plain(f.id, f.ide, 1, q)
    BY <2>2, FrameWith
  <2>. QED  BY <2>3 DEF Plain
<1>10. Carries(q, m)
  BY <1>2, <1>6, <1>7, Padded DEF n
<1>11. 1 \in Byte /\ 1 <= FlagAll
  BY DEF Byte, FlagAll
<1>12. f.id \in CanId /\ f.ide \in BOOLEAN /\ (~f.ide => f.id <= StdIdMax)
  BY <1>2 DEF Frame, FrameValid
<1>. HIDE DEF g
<1>13. g \in Frame
  BY <1>7, <1>9, <1>11, <1>12 DEF Frame
<1>14. FrameValid(g)
  <2>1. Len(q) <= PayloadMax
    BY <1>10 DEF Carries
  <2>. QED  BY <1>9, <1>11, <1>12, <2>1 DEF FrameValid
<1>15. g.id = f.id /\ g.payload = q
  BY <1>9
<1>. QED  BY <1>2, <1>10, <1>13, <1>14, <1>15 DEF FrameFor, g, f

\* cb_on_peer_readable: the hub lets every encoded message through.
LEMMA HubLets ==
    ASSUME NEW m \in Argument, Encodes(m)
    PROVE  HubAccepts(Serialize(EncodeFrame(m)))
<1>1. FrameFor(EncodeFrame(m), m)
  BY NearFrame
<1>2. HeaderOk(Serialize(EncodeFrame(m))) /\ FrameOf(Serialize(EncodeFrame(m))) = EncodeFrame(m)
  BY <1>1, WireFrame DEF FrameFor
<1>3. Decodes(EncodeFrame(m))
  BY <1>1, FrameDecodes
<1>. QED  BY <1>2, <1>3 DEF HubAccepts

\* The codec's round trip: whatever message an encoder takes, its frame survives the
\* wire format and decodes to that message, straight from the sender and after the
\* bridge has padded it to a length a CAN FD frame can have.
THEOREM RoundTrip ==
    ASSUME NEW m \in Argument, Encodes(m)
    PROVE  \A f \in {EncodeFrame(m), FromPcan(OverPcan(EncodeFrame(m)))} :
               /\ HeaderOk(Serialize(f)) /\ FrameOf(Serialize(f)) = f
               /\ Decodes(f) /\ Decode(f) = m
<1>. SUFFICES ASSUME NEW f \in {EncodeFrame(m), FromPcan(OverPcan(EncodeFrame(m)))}
              PROVE  /\ HeaderOk(Serialize(f)) /\ FrameOf(Serialize(f)) = f
                     /\ Decodes(f) /\ Decode(f) = m
  OBVIOUS
<1>1. FrameFor(f, m)
  BY NearFrame, FarFrame
<1>2. HeaderOk(Serialize(f)) /\ FrameOf(Serialize(f)) = f
  BY <1>1, WireFrame DEF FrameFor
<1>3. Decodes(f) /\ Decode(f) = m
  BY <1>1, FrameDecodes, FrameDecoded
<1>. QED  BY <1>2, <1>3

-----------------------------------------------------------------------------
(* What is put on the stream: frames that pass fbsec_co_fd_frame_validate.  *)

OnBus(f) == f \in Frame /\ FrameValid(f)

LEMMA PlainOnBus ==
    ASSUME NEW id \in CanId, NEW n \in Byte, NEW q \in Seq(Byte), n <= FlagAll, Len(q) <= PayloadMax
    PROVE  OnBus(Plain(id, TRUE, n, q))
<1>. DEFINE f == Plain(id, TRUE, n, q)
<1>1. f = [id |-> id, ide |-> TRUE, rtr |-> FALSE, err |-> FALSE, flags |-> n, payload |-> q]
  BY DEF Plain
<1>. HIDE DEF f
<1>2. f \in Frame
  BY <1>1 DEF Frame
<1>3. FrameValid(f)
  BY <1>1 DEF FrameValid
<1>. QED  BY <1>2, <1>3 DEF OnBus, f

\* Announces and losses are frames, and none of USDO's.
LEMMA ControlFrame ==
    ASSUME NEW id \in {SimAnnounce, SimLoss}, NEW name \in {<<>>, <<70, 68>>}
    PROVE  /\ OnBus([NewFrame(id, TRUE) EXCEPT !.payload = <<1, Target>> \o name])
           /\ ~Decodes([NewFrame(id, TRUE) EXCEPT !.payload = <<1, Target>> \o name])
<1>. DEFINE q == <<1, Target>> \o name
            f == [NewFrame(id, TRUE) EXCEPT !.payload = q]
<1>1. f = Plain(id, TRUE, 0, q)
  <2>. HIDE DEF q
  <2>. QED  BY PayloadOnly
<1>2. id \in CanId
  <2>1. 2^29 = 536870912
    OBVIOUS
  <2>2. SimAnnounce = 536870880 /\ SimLoss = 536870881
    BY DEF SimAnnounce, SimLoss
  <2>. QED  BY <2>1, <2>2 DEF CanId
<1>3. 0 \in Byte /\ 0 <= FlagAll /\ 1 \in Byte /\ 70 \in Byte /\ 68 \in Byte
  BY DEF Byte, FlagAll
<1>4. Target \in Byte
  BY LinkConstants DEF NodeId, Byte
<1>5. q \in Seq(Byte) /\ Len(q) <= PayloadMax
  <2>1. <<1, Target>> \in Seq(Byte) /\ Len(<<1, Target>>) = 2
    BY <1>3, <1>4
  <2>2. name \in Seq(Byte) /\ Len(name) <= 2
    <3>1. CASE name = <<>>
      BY <3>1
    <3>2. CASE name = <<70, 68>>
      BY <1>3, <3>2
    <3>. QED  BY <3>1, <3>2
  <2>3. Len(q) = 2 + Len(name) /\ q \in Seq(Byte) /\ Len(name) \in Nat
    BY <2>1, <2>2, Cat
  <2>. QED  BY <2>2, <2>3 DEF PayloadMax
<1>6. f.id = id
  BY <1>1 DEF Plain
<1>. HIDE DEF q, f
<1>7. OnBus(f)
  BY <1>1, <1>2, <1>3, <1>5, PlainOnBus
<1>8. ~Decodes(f)
  BY <1>6, ControlKind DEF Decodes
<1>. QED  BY <1>7, <1>8 DEF f, q

\* What the bridge brings from other devices.
LEMMA ForeignOnBus ==
    ASSUME NEW f \in Foreign, Bridged(f)
    PROVE  OnBus(FromPcan(f)) /\ ~Decodes(FromPcan(f))
<1>1. f \in Frame /\ FrameValid(FromPcan(f)) /\ ~Decodes(FromPcan(f))
  BY LinkConstants DEF Bridged
<1>2. f.id \in CanId /\ f.ide \in BOOLEAN /\ f.flags \in Byte /\ f.payload \in Seq(Byte)
  BY <1>1 DEF Frame
<1>3. f.flags % 2 \in Byte
  <2>1. \A v \in Byte : v % 2 \in Byte
    BY DEF Byte
  <2>. QED  BY <1>2, <2>1
<1>. DEFINE k == f.flags % 2
<1>4. FromPcan(f) = Plain(f.id, f.ide, k, f.payload)
  BY FrameWith DEF FromPcan
<1>. HIDE DEF k
<1>5. FromPcan(f) \in Frame
  <2>1. k \in Byte
    BY <1>3 DEF k
  <2>. QED  BY <1>2, <1>4, <2>1 DEF Plain, Frame
<1>. QED  BY <1>1, <1>5 DEF OnBus

-----------------------------------------------------------------------------
(* One recv. *)

LEMMA ByteNat == \A v \in Byte : v \in Nat /\ v <= 255
BY DEF Byte

LEMMA Least3 ==
    ASSUME NEW a \in Nat, NEW b \in Nat, NEW c \in Nat
    PROVE  /\ Min({a, b, c}) \in Nat
           /\ Min({a, b, c}) <= a /\ Min({a, b, c}) <= b /\ Min({a, b, c}) <= c
<1>. DEFINE S == {a, b, c}
<1>1. \E x \in S : \A y \in S : x <= y
  <2>1. CASE a <= b /\ a <= c
    BY <2>1
  <2>2. CASE b <= a /\ b <= c
    BY <2>2
  <2>3. CASE c <= a /\ c <= b
    BY <2>3
  <2>. QED  BY <2>1, <2>2, <2>3
<1>2. Min(S) \in S /\ \A y \in S : Min(S) <= y
  BY <1>1 DEF Min
<1>. QED  BY <1>2

LEMMA CatAssoc == \A s, t, u \in Seq(Byte) : (s \o t) \o u = s \o (t \o u)
BY ConcatAssociative

\* The first n bytes of w move behind x: what was read so far, and what is left.
Read(x, w, n) == x \o SubSeq(w, 1, n)
Left(w, n) == SubSeq(w, n + 1, Len(w))

LEMMA Moved ==
    ASSUME NEW x \in Seq(Byte), NEW w \in Seq(Byte), NEW n \in Nat, n <= Len(w)
    PROVE  /\ Read(x, w, n) \in Seq(Byte) /\ Left(w, n) \in Seq(Byte)
           /\ Len(Read(x, w, n)) = Len(x) + n
           /\ Read(x, w, n) \o Left(w, n) = x \o w
           /\ \A i \in 1..Len(x) : Read(x, w, n)[i] = x[i]
<1>. DEFINE h == SubSeq(w, 1, n)
            b == Read(x, w, n)
            r == Left(w, n)
<1>1. Len(w) \in Nat /\ Len(x) \in Nat
  BY LenProperties
<1>2. h \in Seq(Byte) /\ Len(h) = n
  <2>1. \A i \in 1..n : w[i] \in Byte
    BY <1>1, ElementOfSeq
  <2>2. h \in Seq(Byte) /\ Len(h) = IF 1 <= n THEN n - 1 + 1 ELSE 0
    BY <2>1, SubSeqProperties
  <2>. QED  BY <2>2
<1>3. r \in Seq(Byte) /\ Len(r) = Len(w) - n
  <2>1. \A i \in (n + 1)..Len(w) : w[i] \in Byte
    BY <1>1, ElementOfSeq
  <2>2. n + 1 \in Int /\ Len(w) \in Int
    BY <1>1
  <2>3. r \in Seq(Byte) /\ Len(r) = IF n + 1 <= Len(w) THEN Len(w) - (n + 1) + 1 ELSE 0
    BY <2>1, <2>2, SubSeqProperties DEF Left
  <2>. QED  BY <1>1, <2>3
<1>4. h \o r = w
  <2>1. 1 \in 1..(Len(w) + 1) /\ n \in (1 - 1)..Len(w) /\ Len(w) \in n..Len(w)
    BY <1>1
  <2>2. h \o r = SubSeq(w, 1, Len(w))
    BY <2>1, ConcatAdjacentSubSeq DEF Left
  <2>. QED  BY <2>2, SubSeqFull
<1>5. b = x \o h
  BY DEF Read
<1>. HIDE DEF h, b, r
<1>6. /\ b \in Seq(Byte) /\ Len(b) = Len(x) + Len(h)
      /\ \A i \in 1..Len(x) : b[i] = x[i]
  BY <1>2, <1>5, Cat
<1>7. b \o r = x \o w
  <2>1. (x \o h) \o r = x \o (h \o r)
    <3>1. h \in Seq(Byte) /\ r \in Seq(Byte)
      BY <1>2, <1>3
    <3>. QED  BY <3>1, CatAssoc
  <2>. QED  BY <1>4, <1>5, <2>1
<1>. QED  BY <1>2, <1>3, <1>6, <1>7 DEF b, r

-----------------------------------------------------------------------------
(* The bytes on the way, and the peers. *)

\* A frame is put on the stream, and nothing else happens but to the history.
Puts(f) == MayPut /\ Put(f) /\ UNCHANGED <<role, far, rx, alive, dropped, got, cut>>

\* A message is put on the stream, by its sender's hub or by the one over the bridge.
PutsMessage ==
    \E m \in Message, f \in Frame :
        /\ Encodes(m) /\ FrameFor(f, m) /\ Puts(f)
        /\ sent' = IF MeantForMe(m) THEN Append(sent, m) ELSE sent

\* A frame that is none of USDO's is put on the stream.
PutsOther == \E f \in Frame : FrameValid(f) /\ ~Decodes(f) /\ Puts(f) /\ sent' = sent

LEMMA SendPuts ==
    ASSUME NEW m \in Message, Send(m)
    PROVE  PutsMessage
<1>. DEFINE f == EncodeFrame(m)
            g == FromPcan(OverPcan(f))
<1>1. m \in Argument /\ Encodes(m)
  BY LinkConstants DEF Send
<1>2. FrameFor(f, m) /\ FrameFor(g, m) /\ HubAccepts(Serialize(f))
  BY <1>1, NearFrame, FarFrame, HubLets
<1>3. f \in Frame /\ g \in Frame
  BY <1>2 DEF FrameFor
<1>4. /\ MayPut
      /\ IF far THEN Put(g) ELSE Put(f)
      /\ UNCHANGED dropped
      /\ sent' = IF MeantForMe(m) THEN Append(sent, m) ELSE sent
      /\ UNCHANGED <<role, far, rx, alive, got, cut>>
  BY <1>2 DEF Send
<1>. HIDE DEF f, g
<1>5. CASE far
  BY <1>1, <1>2, <1>3, <1>4, <1>5 DEF PutsMessage, Puts
<1>6. CASE ~far
  BY <1>1, <1>2, <1>3, <1>4, <1>6 DEF PutsMessage, Puts
<1>. QED  BY <1>5, <1>6

\* Every step of the link.
LEMMA Steps ==
    ASSUME [Next]_vars
    PROVE  PutsMessage \/ PutsOther \/ (\E k \in Chunk : Recv(k)) \/ Deadline \/ UNCHANGED vars
<1>1. CASE \E m \in Message : Send(m)
  BY <1>1, SendPuts
<1>2. ASSUME NEW id \in {SimAnnounce, SimLoss}, NEW name \in {<<>>, <<70, 68>>},
             Control(id, Target, name)
      PROVE  PutsOther
  <2>. DEFINE f == [NewFrame(id, TRUE) EXCEPT !.payload = <<1, Target>> \o name]
  <2>1. OnBus(f) /\ ~Decodes(f)
    BY ControlFrame
  <2>2. /\ MayPut /\ Put(f)
        /\ UNCHANGED <<role, far, rx, alive, dropped, sent, got, cut>>
    BY <1>2 DEF Control
  <2>. HIDE DEF f
  <2>. QED  BY <2>1, <2>2 DEF PutsOther, Puts, OnBus
<1>3. ASSUME NEW f \in Foreign, ForeignFrame(f)
      PROVE  PutsOther
  <2>. DEFINE g == FromPcan(f)
  <2>1. OnBus(g) /\ ~Decodes(g)
    BY <1>3, ForeignOnBus DEF ForeignFrame
  <2>2. /\ MayPut /\ Put(g)
        /\ UNCHANGED <<role, far, rx, alive, dropped, sent, got, cut>>
    BY <1>3 DEF ForeignFrame
  <2>. HIDE DEF g
  <2>. QED  BY <2>1, <2>2 DEF PutsOther, Puts, OnBus
<1>4. CASE Receive
  BY <1>4 DEF Receive
<1>5. CASE Deadline
  BY <1>5
<1>6. CASE UNCHANGED vars
  BY <1>6
<1>. QED  BY <1>1, <1>2, <1>3, <1>4, <1>5, <1>6 DEF Next

\* Bytes only, and in the buffer less than the frame it has begun.
BytesOK ==
    /\ wire \in Seq(Byte) /\ rx \in Seq(Byte)
    /\ Len(rx) >= 6 => rx[6] <= 64 /\ Len(rx) < 6 + rx[6]

Grounds ==
    /\ role \in {"server", "client"} /\ far \in BOOLEAN
    /\ alive \in BOOLEAN /\ cut \in BOOLEAN
    /\ puts \in Nat /\ puts <= MaxMessages
    /\ dropped = {}
    /\ sent \in Seq(Argument)

\* recv asks for no more than the header or the rest of the frame.
LEMMA Asked ==
    ASSUME BytesOK, NEW k \in Nat, NEW n, n = Min({k, Missing, Len(wire)})
    PROVE  /\ n \in Nat /\ n <= Len(wire) /\ Len(rx) \in Nat
           /\ Len(rx) < 6 => Len(rx) + n <= 6
           /\ Len(rx) >= 6 => rx[6] \in Nat /\ Len(rx) + n <= 6 + rx[6]
<1>1. Len(wire) \in Nat /\ Len(rx) \in Nat
  BY LenProperties DEF BytesOK
<1>2. HeaderSize = 6
  BY DEF HeaderSize
<1>3. CASE Len(rx) < 6
  <2>1. Missing = 6 - Len(rx)
    BY <1>2, <1>3 DEF Missing
  <2>2. Missing \in Nat
    BY <1>1, <1>3, <2>1
  <2>3. n \in Nat /\ n <= Missing /\ n <= Len(wire)
    BY <1>1, <2>2, Least3
  <2>. QED  BY <1>1, <1>3, <2>1, <2>3
<1>4. CASE Len(rx) >= 6
  <2>1. ~(Len(rx) < 6)
    BY <1>1, <1>4
  <2>2. Missing = 6 + rx[6] - Len(rx)
    BY <1>2, <2>1 DEF Missing
  <2>3. rx[6] \in Nat
    <3>1. 6 \in 1..Len(rx)
      BY <1>1, <1>4
    <3>2. rx[6] \in Byte
      BY <3>1, ElementOfSeq DEF BytesOK
    <3>. QED  BY <3>2, ByteNat
  <2>4. Len(rx) < 6 + rx[6]
    BY <1>4 DEF BytesOK
  <2>5. Missing \in Nat
    BY <1>1, <2>2, <2>3, <2>4
  <2>6. n \in Nat /\ n <= Missing /\ n <= Len(wire)
    BY <1>1, <2>5, Least3
  <2>. QED  BY <1>1, <2>1, <2>2, <2>3, <2>6
<1>. QED  BY <1>1, <1>3, <1>4

\* What is left in the buffer is the beginning of a frame.
LEMMA RecvBytes ==
    ASSUME BytesOK, NEW k \in Chunk, Recv(k)
    PROVE  BytesOK'
<1>. DEFINE n == Min({k, Missing, Len(wire)})
            b == rx \o SubSeq(wire, 1, n)
            r == SubSeq(wire, n + 1, Len(wire))
            bad == Len(b) = HeaderSize /\ ~HeaderOk(b)
<1>1. k \in Nat
  BY LinkConstants
<1>2. /\ n \in Nat /\ n <= Len(wire) /\ Len(rx) \in Nat
      /\ Len(rx) < 6 => Len(rx) + n <= 6
      /\ Len(rx) >= 6 => rx[6] \in Nat /\ Len(rx) + n <= 6 + rx[6]
  BY <1>1, Asked
<1>3. wire' = r /\ rx' = IF bad \/ Complete(b) THEN <<>> ELSE b
  BY DEF Recv
<1>4. /\ b \in Seq(Byte) /\ r \in Seq(Byte) /\ Len(b) = Len(rx) + n
      /\ \A i \in 1..Len(rx) : b[i] = rx[i]
  <2>. HIDE DEF n
  <2>1. rx \in Seq(Byte) /\ wire \in Seq(Byte)
    BY DEF BytesOK
  <2>2. b = Read(rx, wire, n) /\ r = Left(wire, n)
    BY DEF Read, Left
  <2>. HIDE DEF b, r
  <2>. QED  BY <1>2, <2>1, <2>2, Moved
<1>. HIDE DEF n, b, r
<1>5. CASE bad \/ Complete(b)
  <2>1. wire' = r /\ rx' = <<>>
    BY <1>3, <1>5
  <2>. QED  BY <1>4, <2>1 DEF BytesOK
<1>6. CASE ~bad /\ ~Complete(b)
  <2>1. rx' = b
    BY <1>3, <1>6
  <2>2. (Len(b) # 6 \/ HeaderOk(b)) /\ (Len(b) >= 6 => Len(b) # 6 + b[6])
    BY <1>6 DEF Complete, HeaderSize
  <2>3. ASSUME Len(b) >= 6
        PROVE  b[6] <= 64 /\ Len(b) < 6 + b[6]
    <3>1. b[6] \in Nat
      <4>1. 6 \in 1..Len(b)
        BY <1>2, <1>4, <2>3
      <4>2. b[6] \in Byte
        BY <1>4, <4>1, ElementOfSeq
      <4>. QED  BY <4>2, ByteNat
    <3>2. CASE Len(rx) < 6
      <4>1. Len(b) = 6
        BY <1>2, <1>4, <2>3, <3>2
      <4>2. b[6] <= 64
        BY <2>2, <4>1 DEF HeaderOk, PayloadMax
      <4>. QED  BY <2>2, <3>1, <4>1, <4>2
    <3>3. CASE Len(rx) >= 6
      <4>1. 6 \in 1..Len(rx)
        BY <1>2, <3>3
      <4>2. b[6] = rx[6]
        BY <1>4, <4>1
      <4>3. rx[6] <= 64
        BY <3>3 DEF BytesOK
      <4>4. Len(b) <= 6 + b[6]
        BY <1>2, <1>4, <3>3, <4>2
      <4>. QED  BY <1>2, <1>4, <2>2, <2>3, <3>1, <4>2, <4>3, <4>4
    <3>. QED  BY <1>2, <3>2, <3>3
  <2>. QED  BY <1>3, <1>4, <2>1, <2>3 DEF BytesOK
<1>. QED  BY <1>5, <1>6

LEMMA PutsBytes ==
    ASSUME BytesOK, NEW f \in Frame, FrameValid(f), Puts(f)
    PROVE  BytesOK'
<1>1. Serialize(f) \in Seq(Byte)
  BY WireBytes
<1>2. wire' = wire \o Serialize(f) /\ rx' = rx
  BY DEF Puts, Put
<1>3. wire \o Serialize(f) \in Seq(Byte)
  BY <1>1, Cat DEF BytesOK
<1>. QED  BY <1>2, <1>3 DEF BytesOK

LEMMA BytesStep ==
    ASSUME BytesOK, [Next]_vars
    PROVE  BytesOK'
<1>1. CASE PutsMessage
  BY <1>1, PutsBytes DEF PutsMessage, FrameFor
<1>2. CASE PutsOther
  BY <1>2, PutsBytes DEF PutsOther
<1>3. CASE \E k \in Chunk : Recv(k)
  BY <1>3, RecvBytes
<1>4. CASE Deadline
  BY <1>4 DEF Deadline, BytesOK
<1>5. CASE UNCHANGED vars
  BY <1>5 DEF vars, BytesOK
<1>. QED  BY <1>1, <1>2, <1>3, <1>4, <1>5, Steps

LEMMA GroundsStep ==
    ASSUME Grounds, [Next]_vars
    PROVE  Grounds'
<1>1. ASSUME NEW f, Puts(f)
      PROVE  /\ role' = role /\ far' = far /\ alive' = alive /\ cut' = cut /\ dropped' = dropped
             /\ puts' \in Nat /\ puts' <= MaxMessages
  BY <1>1, LinkConstants DEF Puts, Put, MayPut, Grounds
<1>2. CASE PutsMessage
  <2>1. PICK m \in Message, f \in Frame :
            Puts(f) /\ sent' = IF MeantForMe(m) THEN Append(sent, m) ELSE sent
    BY <1>2 DEF PutsMessage
  <2>2. sent' \in Seq(Argument)
    <3>1. m \in Argument
      BY LinkConstants
    <3>. QED  BY <2>1, <3>1, AppendProperties DEF Grounds
  <2>. QED  BY <1>1, <2>1, <2>2 DEF Grounds
<1>3. CASE PutsOther
  <2>1. PICK f \in Frame : Puts(f) /\ sent' = sent
    BY <1>3 DEF PutsOther
  <2>. QED  BY <1>1, <2>1 DEF Grounds
<1>4. ASSUME NEW k \in Chunk, Recv(k)
      PROVE  Grounds'
  <2>1. UNCHANGED <<role, far, dropped, puts, sent, cut>> /\ alive' \in BOOLEAN
    BY <1>4 DEF Recv
  <2>. QED  BY <2>1 DEF Grounds
<1>5. CASE Deadline
  <2>1. UNCHANGED <<role, far, alive, dropped, puts, sent>> /\ cut' \in BOOLEAN
    BY <1>5 DEF Deadline
  <2>. QED  BY <2>1 DEF Grounds
<1>6. CASE UNCHANGED vars
  BY <1>6 DEF vars, Grounds
<1>. QED  BY <1>2, <1>3, <1>4, <1>5, <1>6, Steps

LEMMA Start == Init => BytesOK /\ Grounds
<1>. SUFFICES ASSUME Init
              PROVE  BytesOK /\ Grounds
  OBVIOUS
<1>1. BytesOK
  BY DEF Init, BytesOK
<1>2. puts \in Nat /\ puts <= MaxMessages
  BY LinkConstants DEF Init
<1>3. sent \in Seq(Argument)
  BY DEF Init
<1>. QED  BY <1>1, <1>2, <1>3 DEF Init, Grounds

\* Whatever the nodes are asked to encode, whatever other devices send and wherever
\* the deadlines fall: only bytes are on the way, the buffer of the carrier's recv
\* never holds a whole frame, and so never more than HeaderSize + PayloadMax bytes.
THEOREM LinkTyped == Spec => []LinkTypeOK
<1>1. Init => BytesOK /\ Grounds
  BY Start
<1>2. BytesOK /\ Grounds /\ [Next]_vars => BytesOK' /\ Grounds'
  BY BytesStep, GroundsStep
<1>3. BytesOK /\ Grounds => LinkTypeOK
  <2>. SUFFICES ASSUME BytesOK, Grounds
                PROVE  LinkTypeOK
    OBVIOUS
  <2>1. ASSUME NEW q \in {wire, rx}, NEW i \in 1..Len(q)
        PROVE  q[i] \in 0..255
    <3>1. q \in Seq(Byte)
      BY DEF BytesOK
    <3>2. q[i] \in Byte
      BY <3>1, ElementOfSeq
    <3>. QED  BY <3>2 DEF Byte
  <2>2. Len(rx) < HeaderSize + PayloadMax
    <3>1. Len(rx) \in Nat /\ HeaderSize + PayloadMax = 70
      BY LenProperties DEF BytesOK, HeaderSize, PayloadMax
    <3>2. CASE Len(rx) < 6
      BY <3>1, <3>2
    <3>3. CASE Len(rx) >= 6
      <4>1. rx[6] <= 64 /\ Len(rx) < 6 + rx[6]
        BY <3>3 DEF BytesOK
      <4>2. rx[6] \in Nat
        <5>1. 6 \in 1..Len(rx)
          BY <3>1, <3>3
        <5>2. rx[6] \in Byte
          BY <5>1, ElementOfSeq DEF BytesOK
        <5>. QED  BY <5>2, ByteNat
      <4>. QED  BY <3>1, <4>1, <4>2
    <3>. QED  BY <3>1, <3>2, <3>3
  <2>3. puts \in 0..MaxMessages
    BY LinkConstants DEF Grounds
  <2>. QED  BY <2>1, <2>2, <2>3 DEF LinkTypeOK, Grounds
<1>. QED  BY <1>1, <1>2, <1>3, PTL DEF Spec

\* The hub disconnects no peer for a frame that one of the encoders made: whatever
\* fbsec_co_fd_usdo.c encodes is what cb_on_peer_readable decodes.
THEOREM PeersStay == Spec => []PeersKept
<1>1. Init => Grounds
  BY Start
<1>2. Grounds /\ [Next]_vars => Grounds'
  BY GroundsStep
<1>3. Grounds => PeersKept
  BY DEF Grounds, PeersKept
<1>. QED  BY <1>1, <1>2, <1>3, PTL DEF Spec

-----------------------------------------------------------------------------
(* The stream: a row of frames, as long as no deadline has cut one.         *)

\* What passes the receiver's filter.
ToMe(f) == Decodes(f) /\ Passes(f, Decode(f))

FrameSize(f) == 6 + Len(f.payload)

\* Frame i of g ends at byte pos[i] of all that was ever put on the stream.
Row(n, g, pos) ==
    /\ n \in Nat /\ g \in [1..n -> Frame] /\ pos \in [0..n -> Nat]
    /\ \A i \in 1..n : FrameValid(g[i]) /\ pos[i] = pos[i - 1] + FrameSize(g[i])
    /\ \A i, j \in 0..n : i <= j => pos[i] <= pos[j]

\* After frame a, s is what is left.
Rest(s, a, n, g, pos) ==
    /\ Len(s) = pos[n] - pos[a]
    /\ \A i \in (a + 1)..n : \A j \in 1..FrameSize(g[i]) :
           s[(pos[i - 1] - pos[a]) + j] = Serialize(g[i])[j]

\* Of what was sent, cnt[i] messages are in the first i frames.
Tally(n, g, cnt) ==
    /\ cnt \in [0..n -> Nat] /\ cnt[n] = Len(sent)
    /\ \A i \in 1..n : IF ToMe(g[i]) THEN cnt[i] = cnt[i - 1] + 1 /\ cnt[i] <= Len(sent)
                                          /\ sent[cnt[i]] = Decode(g[i])
                       ELSE cnt[i] = cnt[i - 1]

Stream(n, a, g, pos, cnt) ==
    /\ Row(n, g, pos) /\ a \in 0..n
    /\ Rest(rx \o wire, a, n, g, pos)
    /\ rx # <<>> => a < n /\ Len(rx) < FrameSize(g[a + 1])
    /\ Tally(n, g, cnt) /\ cnt[a] = Len(got)

InStep ==
    /\ alive
    /\ got \in Seq(Argument) /\ Len(got) <= Len(sent)
    /\ \A i \in 1..Len(got) : got[i] = sent[i]
    /\ \E n, a, g, pos, cnt : Stream(n, a, g, pos, cnt)

LEMMA SizeOf ==
    ASSUME NEW f \in Frame, FrameValid(f)
    PROVE  /\ FrameSize(f) \in Nat /\ FrameSize(f) >= 6 /\ Serialize(f) \in Seq(Byte)
           /\ Len(Serialize(f)) = FrameSize(f) /\ Len(f.payload) \in Nat
<1>1. /\ Serialize(f) \in Seq(Byte) /\ Len(Serialize(f)) = 6 + Len(f.payload)
      /\ Len(f.payload) \in Nat
  BY WireBytes
<1>. QED  BY <1>1 DEF FrameSize

\* A row with one more frame.
MoreFrames(n, g, f) == [i \in 1..(n + 1) |-> IF i = n + 1 THEN f ELSE g[i]]
MoreBytes(n, pos, k) == [i \in 0..(n + 1) |-> IF i = n + 1 THEN pos[n] + k ELSE pos[i]]

LEMMA RowGrows ==
    ASSUME NEW n, NEW g, NEW pos, Row(n, g, pos), NEW f \in Frame, FrameValid(f)
    PROVE  Row(n + 1, MoreFrames(n, g, f), MoreBytes(n, pos, FrameSize(f)))
<1>. DEFINE h == MoreFrames(n, g, f)
            q == MoreBytes(n, pos, FrameSize(f))
<1>1. n \in Nat /\ g \in [1..n -> Frame] /\ pos \in [0..n -> Nat]
  BY DEF Row
<1>2. FrameSize(f) \in Nat
  BY SizeOf
<1>3. /\ h \in [1..(n + 1) -> Frame] /\ h[n + 1] = f /\ \A i \in 1..n : h[i] = g[i]
  BY <1>1 DEF MoreFrames
<1>4. pos[n] + FrameSize(f) \in Nat
  BY <1>1, <1>2
<1>5. /\ q \in [0..(n + 1) -> Nat] /\ q[n + 1] = pos[n] + FrameSize(f) /\ \A i \in 0..n : q[i] = pos[i]
  BY <1>1, <1>4 DEF MoreBytes
<1>. HIDE DEF h, q
<1>6. ASSUME NEW i \in 1..(n + 1)
      PROVE  FrameValid(h[i]) /\ q[i] = q[i - 1] + FrameSize(h[i])
  <2>1. CASE i = n + 1
    <3>1. i - 1 = n /\ n \in 0..n
      BY <1>1, <2>1
    <3>. QED  BY <1>3, <1>5, <2>1, <3>1
  <2>2. CASE i # n + 1
    <3>1. i \in 1..n /\ i \in 0..n /\ i - 1 \in 0..n
      BY <1>1, <2>2
    <3>2. FrameValid(g[i]) /\ pos[i] = pos[i - 1] + FrameSize(g[i])
      BY <3>1 DEF Row
    <3>. QED  BY <1>3, <1>5, <3>1, <3>2
  <2>. QED  BY <2>1, <2>2
<1>7. ASSUME NEW i \in 0..(n + 1), NEW j \in 0..(n + 1), i <= j
      PROVE  q[i] <= q[j]
  <2>1. \A x \in 0..n : pos[x] \in Nat /\ pos[x] <= pos[n]
    <3>1. n \in 0..n
      BY <1>1
    <3>. QED  BY <1>1, <3>1 DEF Row
  <2>2. CASE j # n + 1
    <3>1. i \in 0..n /\ j \in 0..n
      BY <1>1, <1>7, <2>2
    <3>. QED  BY <1>5, <1>7, <3>1 DEF Row
  <2>3. CASE j = n + 1 /\ i # n + 1
    <3>1. i \in 0..n
      BY <1>1, <2>3
    <3>2. q[i] \in Nat /\ q[i] <= pos[n] /\ pos[n] \in Nat
      BY <1>1, <1>5, <2>1, <3>1
    <3>. QED  BY <1>2, <1>5, <2>3, <3>2
  <2>4. CASE j = n + 1 /\ i = n + 1
    BY <1>4, <1>5, <2>4
  <2>. QED  BY <2>2, <2>3, <2>4
<1>8. n + 1 \in Nat
  BY <1>1
<1>9. Row(n + 1, h, q)
  BY <1>3, <1>5, <1>6, <1>7, <1>8 DEF Row
<1>. QED  BY <1>9 DEF h, q

\* Frame i lies within what is left.
LEMMA Within ==
    ASSUME NEW n, NEW g, NEW pos, Row(n, g, pos), NEW a \in 0..n, NEW i \in (a + 1)..n,
           NEW j \in 1..FrameSize(g[i])
    PROVE  /\ g[i] \in Frame /\ FrameValid(g[i])
           /\ pos[a] \in Nat /\ pos[n] \in Nat /\ pos[i - 1] \in Nat /\ FrameSize(g[i]) \in Nat
           /\ pos[a] <= pos[i - 1] /\ pos[i] = pos[i - 1] + FrameSize(g[i]) /\ pos[i] <= pos[n]
           /\ (pos[i - 1] - pos[a]) + j \in 1..(pos[n] - pos[a])
<1>1. n \in Nat /\ g \in [1..n -> Frame] /\ pos \in [0..n -> Nat]
  BY DEF Row
<1>2. i \in 1..n /\ i \in 0..n /\ i - 1 \in 0..n /\ n \in 0..n /\ a <= i - 1 /\ i <= n
  BY <1>1
<1>3. g[i] \in Frame /\ FrameValid(g[i]) /\ pos[i] = pos[i - 1] + FrameSize(g[i])
  BY <1>1, <1>2 DEF Row
<1>4. pos[a] <= pos[i - 1] /\ pos[i] <= pos[n]
  BY <1>2 DEF Row
<1>5. pos[a] \in Nat /\ pos[n] \in Nat /\ pos[i - 1] \in Nat /\ pos[i] \in Nat
  BY <1>1, <1>2
<1>6. FrameSize(g[i]) \in Nat
  BY <1>3, SizeOf
<1>. DEFINE u == pos[i - 1]
            v == FrameSize(g[i])
            w == pos[i]
            y == pos[a]
            z == pos[n]
<1>. HIDE DEF u, v, w, y, z
<1>7. (u - y) + j \in 1..(z - y)
  <2>1. u \in Nat /\ v \in Nat /\ w = u + v /\ y \in Nat /\ z \in Nat /\ y <= u /\ w <= z
    BY <1>3, <1>4, <1>5, <1>6 DEF u, v, w, y, z
  <2>2. j \in 1..v
    BY DEF v
  <2>. QED  BY <2>1, <2>2
<1>. QED  BY <1>3, <1>4, <1>5, <1>6, <1>7 DEF u, y, z

\* A frame put behind what is left.
LEMMA RestGrows ==
    ASSUME NEW n, NEW g, NEW pos, Row(n, g, pos), NEW a \in 0..n, NEW s \in Seq(Byte),
           Rest(s, a, n, g, pos), NEW f \in Frame, FrameValid(f)
    PROVE  Rest(s \o Serialize(f), a, n + 1, MoreFrames(n, g, f), MoreBytes(n, pos, FrameSize(f)))
<1>. DEFINE h == MoreFrames(n, g, f)
            q == MoreBytes(n, pos, FrameSize(f))
            b == Serialize(f)
            t == s \o b
<1>1. n \in Nat /\ g \in [1..n -> Frame] /\ pos \in [0..n -> Nat]
  BY DEF Row
<1>2. FrameSize(f) \in Nat /\ b \in Seq(Byte) /\ Len(b) = FrameSize(f)
  BY SizeOf
<1>3. h[n + 1] = f /\ \A i \in 1..n : h[i] = g[i]
  BY <1>1 DEF MoreFrames
<1>4. q[n + 1] = pos[n] + FrameSize(f) /\ \A i \in 0..n : q[i] = pos[i]
  BY <1>1 DEF MoreBytes
<1>. HIDE DEF h, q, b
<1>5. /\ Len(t) = Len(s) + Len(b) /\ Len(s) \in Nat
      /\ \A i \in 1..Len(s) : t[i] = s[i]
      /\ \A i \in 1..Len(b) : t[Len(s) + i] = b[i]
  BY <1>2, Cat
<1>. HIDE DEF t
<1>6. Len(s) = pos[n] - pos[a]
  BY DEF Rest
<1>7. q[a] = pos[a] /\ pos[a] \in Nat /\ pos[n] \in Nat
  BY <1>1, <1>4
<1>8. Len(t) = q[n + 1] - q[a]
  BY <1>2, <1>4, <1>5, <1>6, <1>7
<1>9. ASSUME NEW i \in (a + 1)..(n + 1), NEW j \in 1..FrameSize(h[i])
      PROVE  t[(q[i - 1] - q[a]) + j] = Serialize(h[i])[j]
  <2>1. CASE i = n + 1
    <3>1. i - 1 = n /\ n \in 0..n
      BY <1>1, <2>1
    <3>2. q[i - 1] = pos[n] /\ h[i] = f
      BY <1>3, <1>4, <2>1, <3>1
    <3>3. (q[i - 1] - q[a]) + j = Len(s) + j
      BY <1>6, <1>7, <3>2
    <3>4. j \in 1..Len(b)
      BY <1>2, <3>2
    <3>. QED  BY <1>5, <3>2, <3>3, <3>4 DEF b
  <2>2. CASE i # n + 1
    <3>1. i \in 1..n /\ i \in (a + 1)..n /\ i - 1 \in 0..n
      BY <1>1, <2>2
    <3>2. q[i - 1] = pos[i - 1] /\ h[i] = g[i]
      BY <1>3, <1>4, <3>1
    <3>3. j \in 1..FrameSize(g[i])
      BY <3>2
    <3>4. (pos[i - 1] - pos[a]) + j \in 1..Len(s)
      BY <1>6, <3>1, <3>3, Within
    <3>5. s[(pos[i - 1] - pos[a]) + j] = Serialize(g[i])[j]
      BY <3>1, <3>3 DEF Rest
    <3>. QED  BY <1>5, <1>7, <3>2, <3>4, <3>5
  <2>. QED  BY <2>1, <2>2
<1>10. Rest(t, a, n + 1, h, q)
  BY <1>8, <1>9 DEF Rest
<1>. QED  BY <1>10 DEF t, b, h, q

\* The first frame of what is left, if anything is.
LEMMA FirstFrame ==
    ASSUME NEW n, NEW g, NEW pos, Row(n, g, pos), NEW a \in 0..n, NEW s \in Seq(Byte),
           Rest(s, a, n, g, pos), s # <<>>
    PROVE  /\ a < n /\ g[a + 1] \in Frame /\ FrameValid(g[a + 1])
           /\ FrameSize(g[a + 1]) <= Len(s)
           /\ \A j \in 1..FrameSize(g[a + 1]) : s[j] = Serialize(g[a + 1])[j]
<1>1. n \in Nat /\ g \in [1..n -> Frame] /\ pos \in [0..n -> Nat]
  BY DEF Row
<1>2. Len(s) \in Nat /\ Len(s) # 0
  BY EmptySeq
<1>3. Len(s) = pos[n] - pos[a] /\ pos[a] \in Nat /\ pos[n] \in Nat
  BY <1>1 DEF Rest
<1>4. a # n
  BY <1>2, <1>3
<1>5. a < n
  BY <1>1, <1>4
<1>6. a + 1 \in (a + 1)..n /\ (a + 1) - 1 = a /\ a + 1 \in 1..n
  BY <1>1, <1>5
<1>7. g[a + 1] \in Frame /\ FrameValid(g[a + 1])
  BY <1>1, <1>6 DEF Row
<1>8. FrameSize(g[a + 1]) \in Nat /\ FrameSize(g[a + 1]) >= 6
  BY <1>7, SizeOf
<1>9. 1 \in 1..FrameSize(g[a + 1])
  BY <1>8
<1>10. pos[a + 1] = pos[a] + FrameSize(g[a + 1]) /\ pos[a + 1] <= pos[n]
  BY <1>6, <1>9, Within
<1>11. FrameSize(g[a + 1]) <= Len(s)
  BY <1>3, <1>8, <1>10
<1>12. ASSUME NEW j \in 1..FrameSize(g[a + 1])
       PROVE  s[j] = Serialize(g[a + 1])[j]
  <2>1. s[(pos[(a + 1) - 1] - pos[a]) + j] = Serialize(g[a + 1])[j]
    BY <1>6 DEF Rest
  <2>2. (pos[(a + 1) - 1] - pos[a]) + j = j
    BY <1>3, <1>6, <1>8
  <2>. QED  BY <2>1, <2>2
<1>. QED  BY <1>5, <1>7, <1>11, <1>12

\* The first frame is taken away.
LEMMA RestShrinks ==
    ASSUME NEW n, NEW g, NEW pos, Row(n, g, pos), NEW a \in 0..n, a < n,
           NEW x \in Seq(Byte), NEW y \in Seq(Byte), Rest(x \o y, a, n, g, pos),
           Len(x) = FrameSize(g[a + 1])
    PROVE  Rest(y, a + 1, n, g, pos)
<1>. DEFINE s == x \o y
<1>1. n \in Nat /\ g \in [1..n -> Frame] /\ pos \in [0..n -> Nat]
  BY DEF Row
<1>2. /\ Len(s) = Len(x) + Len(y) /\ Len(x) \in Nat /\ Len(y) \in Nat
      /\ \A i \in 1..Len(y) : s[Len(x) + i] = y[i]
  BY Cat
<1>3. a + 1 \in 1..n /\ a + 1 \in 0..n /\ (a + 1) - 1 = a
  BY <1>1
<1>4. pos[a + 1] = pos[a] + Len(x)
  BY <1>3 DEF Row
<1>5. pos[a] \in Nat /\ pos[n] \in Nat /\ pos[a + 1] \in Nat
  BY <1>1, <1>3
<1>6. Len(s) = pos[n] - pos[a]
  BY DEF Rest
<1>. HIDE DEF s
<1>7. Len(y) = pos[n] - pos[a + 1]
  BY <1>2, <1>4, <1>5, <1>6
<1>8. ASSUME NEW i \in ((a + 1) + 1)..n, NEW j \in 1..FrameSize(g[i])
      PROVE  y[(pos[i - 1] - pos[a + 1]) + j] = Serialize(g[i])[j]
  <2>1. i \in (a + 1)..n
    BY <1>1
  <2>2. (pos[i - 1] - pos[a + 1]) + j \in 1..Len(y) /\ pos[i - 1] \in Nat
    BY <1>3, <1>7, Within
  <2>3. Len(x) + ((pos[i - 1] - pos[a + 1]) + j) = (pos[i - 1] - pos[a]) + j
    <3>. DEFINE k == Len(x)
                u == pos[i - 1]
                v == pos[a]
                w == pos[a + 1]
    <3>1. j \in Int
      OBVIOUS
    <3>2. k \in Int /\ u \in Int /\ v \in Int /\ w = v + k
      BY <1>2, <1>4, <1>5, <2>2
    <3>. HIDE DEF k, u, v, w
    <3>3. k + ((u - w) + j) = (u - v) + j
      BY <3>1, <3>2
    <3>. QED  BY <3>3 DEF k, u, v, w
  <2>4. s[(pos[i - 1] - pos[a]) + j] = Serialize(g[i])[j]
    BY <2>1 DEF Rest, s
  <2>. QED  BY <1>2, <2>2, <2>3, <2>4
<1>. QED  BY <1>7, <1>8 DEF Rest

\* The tally, as long as nothing is sent, and with one more frame.
LEMMA SameFilter ==
    ASSUME role' = role, NEW f
    PROVE  ToMe(f)' <=> ToMe(f)
BY DEF ToMe, Passes

LEMMA TallyStays ==
    ASSUME NEW n, NEW g, NEW cnt, Tally(n, g, cnt), role' = role, sent' = sent
    PROVE  Tally(n, g, cnt)'
<1>1. \A i \in 1..n : ToMe(g[i])' <=> ToMe(g[i])
  BY SameFilter
<1>. QED  BY <1>1 DEF Tally

MoreCounts(n, cnt, k) == [i \in 0..(n + 1) |-> IF i = n + 1 THEN k ELSE cnt[i]]

\* A frame behind the row that passes the filter is the message that is sent with it.
LEMMA TallyGrows ==
    ASSUME NEW n, NEW g, NEW pos, Row(n, g, pos), NEW cnt, Tally(n, g, cnt), role' = role,
           sent \in Seq(Argument), NEW f \in Frame, NEW m,
           IF ToMe(f) THEN m \in Argument /\ sent' = Append(sent, m) /\ Decode(f) = m
           ELSE sent' = sent,
           NEW k, k = Len(sent')
    PROVE  Tally(n + 1, MoreFrames(n, g, f), MoreCounts(n, cnt, k))'
<1>. DEFINE h == MoreFrames(n, g, f)
            c == MoreCounts(n, cnt, k)
<1>1. n \in Nat /\ g \in [1..n -> Frame] /\ cnt \in [0..n -> Nat] /\ cnt[n] = Len(sent)
  BY DEF Row, Tally
<1>2. /\ sent' \in Seq(Argument) /\ Len(sent) \in Nat /\ Len(sent') \in Nat
      /\ Len(sent) <= Len(sent') /\ \A i \in 1..Len(sent) : sent'[i] = sent[i]
      /\ IF ToMe(f) THEN Len(sent') = Len(sent) + 1 /\ sent'[Len(sent')] = Decode(f)
         ELSE Len(sent') = Len(sent)
  <2>1. Len(sent) \in Nat
    BY LenProperties
  <2>2. CASE ToMe(f)
    <3>1. m \in Argument /\ sent' = Append(sent, m) /\ Decode(f) = m
      BY <2>2
    <3>2. /\ sent' \in Seq(Argument) /\ Len(sent') = Len(sent) + 1
          /\ \A i \in 1..Len(sent) : sent'[i] = sent[i]
          /\ sent'[Len(sent) + 1] = m
      BY <3>1, AppendProperties
    <3>. QED  BY <2>1, <2>2, <3>1, <3>2
  <2>3. CASE ~ToMe(f)
    BY <2>1, <2>3
  <2>. QED  BY <2>2, <2>3
<1>3. h[n + 1] = f /\ \A i \in 1..n : h[i] = g[i]
  BY <1>1 DEF MoreFrames
<1>4. /\ c \in [0..(n + 1) -> Nat] /\ c[n + 1] = Len(sent') /\ \A i \in 0..n : c[i] = cnt[i]
  BY <1>1, <1>2 DEF MoreCounts
<1>. HIDE DEF h, c
<1>5. ASSUME NEW i \in 1..(n + 1)
      PROVE  IF ToMe(h[i])
             THEN c[i] = c[i - 1] + 1 /\ c[i] <= Len(sent') /\ sent'[c[i]] = Decode(h[i])
             ELSE c[i] = c[i - 1]
  <2>1. CASE i = n + 1
    <3>1. i - 1 = n /\ n \in 0..n
      BY <1>1, <2>1
    <3>2. c[i] = Len(sent') /\ c[i - 1] = Len(sent) /\ h[i] = f
      BY <1>1, <1>3, <1>4, <2>1, <3>1
    <3>. QED  BY <1>2, <3>2
  <2>2. CASE i # n + 1
    <3>1. i \in 1..n /\ i \in 0..n /\ i - 1 \in 0..n
      BY <1>1, <2>2
    <3>2. c[i] = cnt[i] /\ c[i - 1] = cnt[i - 1] /\ h[i] = g[i]
      BY <1>3, <1>4, <3>1
    <3>3. CASE ToMe(g[i])
      <4>1. cnt[i] = cnt[i - 1] + 1 /\ cnt[i] <= Len(sent) /\ sent[cnt[i]] = Decode(g[i])
        BY <3>1, <3>3 DEF Tally
      <4>2. cnt[i - 1] \in Nat
        BY <1>1, <3>1
      <4>3. cnt[i] \in 1..Len(sent) /\ cnt[i] <= Len(sent')
        BY <1>2, <4>1, <4>2
      <4>. QED  BY <1>2, <3>2, <3>3, <4>1, <4>3
    <3>4. CASE ~ToMe(g[i])
      BY <3>1, <3>2, <3>4 DEF Tally
    <3>. QED  BY <3>3, <3>4
  <2>. QED  BY <2>1, <2>2
<1>6. \A i \in 1..(n + 1) : ToMe(h[i])' <=> ToMe(h[i])
  BY SameFilter
<1>7. Tally(n + 1, h, c)'
  BY <1>4, <1>5, <1>6 DEF Tally
<1>. QED  BY <1>7 DEF h, c

\* The receiver's filter lets through what is meant for it.
LEMMA MeantPasses ==
    ASSUME NEW m \in Argument, Encodes(m), NEW f, FrameFor(f, m)
    PROVE  Decode(f) = m /\ (ToMe(f) <=> MeantForMe(m))
<1>1. Decodes(f) /\ Decode(f) = m
  BY FrameDecodes, FrameDecoded
<1>2. m.src \in NodeId
  BY Sizes
<1>3. Kind(f.id) = IF m.cmd \in RequestCmd THEN "REQUEST" ELSE "RESPONSE"
  BY <1>2, IdFacts DEF FrameFor
<1>4. Kind(f.id) = "REQUEST" <=> m.cmd \in RequestCmd
  BY <1>3
<1>5. Kind(f.id) = "RESPONSE" <=> m.cmd \notin RequestCmd
  BY <1>3
<1>. QED  BY <1>1, <1>4, <1>5 DEF ToMe, Passes, MeantForMe

\* A frame is put on the stream.
LEMMA PutsInStep ==
    ASSUME InStep, BytesOK, Grounds, NEW f \in Frame, FrameValid(f), Puts(f), NEW m,
           IF ToMe(f) THEN m \in Argument /\ sent' = Append(sent, m) /\ Decode(f) = m
           ELSE sent' = sent
    PROVE  InStep'
<1>. DEFINE b == Serialize(f)
            s == rx \o wire
<1>1. /\ wire' = wire \o b /\ rx' = rx /\ got' = got /\ alive' = alive /\ role' = role
  BY DEF Puts, Put
<1>2. PICK n, a, g, pos, cnt : Stream(n, a, g, pos, cnt)
  BY DEF InStep
<1>3. /\ Row(n, g, pos) /\ a \in 0..n /\ Rest(s, a, n, g, pos) /\ Tally(n, g, cnt)
      /\ cnt[a] = Len(got) /\ (rx # <<>> => a < n /\ Len(rx) < FrameSize(g[a + 1]))
  BY <1>2 DEF Stream
<1>4. b \in Seq(Byte) /\ rx \in Seq(Byte) /\ wire \in Seq(Byte)
  BY SizeOf DEF BytesOK
<1>. HIDE DEF b
<1>5. s \in Seq(Byte) /\ rx \o (wire \o b) = s \o b
  BY <1>4, Cat, CatAssoc
<1>. HIDE DEF s
<1>6. PICK k : k = Len(sent')
  OBVIOUS
<1>. DEFINE h == MoreFrames(n, g, f)
            q == MoreBytes(n, pos, FrameSize(f))
            c == MoreCounts(n, cnt, k)
<1>7. n \in Nat /\ n + 1 \in Nat /\ a \in 0..(n + 1)
  BY <1>3 DEF Row
<1>8. Row(n + 1, h, q) /\ Rest(s \o b, a, n + 1, h, q)
  BY <1>3, <1>5, RowGrows, RestGrows DEF b
<1>9. sent \in Seq(Argument)
  BY DEF Grounds
<1>10. Tally(n + 1, h, c)'
  BY <1>1, <1>3, <1>6, <1>9, TallyGrows
<1>11. c[a] = cnt[a]
  BY <1>3, <1>7 DEF MoreCounts
<1>12. rx # <<>> => a < n + 1 /\ Len(rx) < FrameSize(h[a + 1])
  <2>. SUFFICES ASSUME rx # <<>>
                PROVE  a < n + 1 /\ Len(rx) < FrameSize(h[a + 1])
    OBVIOUS
  <2>1. a < n /\ Len(rx) < FrameSize(g[a + 1])
    BY <1>3
  <2>2. a + 1 \in 1..(n + 1) /\ a + 1 # n + 1 /\ a < n + 1
    BY <1>3, <1>7, <2>1
  <2>3. h[a + 1] = g[a + 1]
    BY <2>2 DEF MoreFrames
  <2>. QED  BY <2>1, <2>2, <2>3
<1>. HIDE DEF h, q, c
<1>13. Rest(rx \o wire, a, n + 1, h, q)'
  <2>1. Rest((rx \o wire)', a, n + 1, h, q)
    BY <1>1, <1>5, <1>8
  <2>. QED  BY <2>1 DEF Rest
<1>14. Row(n + 1, h, q)'
  BY <1>8 DEF Row
<1>15. Stream(n + 1, a, h, q, c)'
  BY <1>1, <1>3, <1>7, <1>10, <1>11, <1>12, <1>13, <1>14 DEF Stream
<1>16. got \in Seq(Argument) /\ Len(got) <= Len(sent) /\ \A i \in 1..Len(got) : got[i] = sent[i]
  BY DEF InStep
<1>17. /\ Len(sent) \in Nat /\ Len(sent') \in Nat /\ Len(sent) <= Len(sent')
       /\ \A i \in 1..Len(sent) : sent'[i] = sent[i]
  <2>1. Len(sent) \in Nat
    BY <1>9, LenProperties
  <2>2. CASE ToMe(f)
    <3>1. m \in Argument /\ sent' = Append(sent, m)
      BY <2>2
    <3>2. Len(sent') = Len(sent) + 1 /\ \A i \in 1..Len(sent) : sent'[i] = sent[i]
      BY <1>9, <3>1, AppendProperties
    <3>. QED  BY <2>1, <3>2
  <2>3. CASE ~ToMe(f)
    BY <2>1, <2>3
  <2>. QED  BY <2>2, <2>3
<1>18. Len(got) \in Nat /\ Len(got) <= Len(sent') /\ \A i \in 1..Len(got) : got[i] = sent'[i]
  <2>1. Len(got) \in Nat
    BY <1>16, LenProperties
  <2>. QED  BY <1>16, <1>17, <2>1
<1>19. alive
  BY DEF InStep
<1>. QED  BY <1>1, <1>15, <1>16, <1>18, <1>19 DEF InStep

\* What a recv makes of the first frame f of the stream s: x was read before, b is
\* what has been read now.  It never sees a malformed header, and the whole frame
\* exactly when it has as many bytes as f.
LEMMA ReadsFrame ==
    ASSUME NEW f \in Frame, FrameValid(f), NEW s, NEW x \in Seq(Byte), NEW b \in Seq(Byte),
           \A i \in 1..Len(b) : s[i] = b[i], \A i \in 1..Len(x) : s[i] = x[i],
           \A j \in 1..FrameSize(f) : s[j] = Serialize(f)[j],
           Len(x) < 6 => Len(b) <= 6, Len(x) >= 6 => Len(b) <= 6 + x[6]
    PROVE  /\ Len(b) \in Nat /\ Len(b) <= FrameSize(f)
           /\ Len(b) = 6 => HeaderOk(b)
           /\ Complete(b) <=> Len(b) = FrameSize(f)
           /\ Complete(b) => FrameOf(b) = f
<1>. DEFINE t == Serialize(f)
<1>1. Len(x) \in Nat /\ Len(b) \in Nat
  BY LenProperties
<1>2. /\ FrameSize(f) \in Nat /\ FrameSize(f) >= 6 /\ t \in Seq(Byte) /\ Len(t) = FrameSize(f)
      /\ Len(f.payload) \in Nat /\ FrameSize(f) = 6 + Len(f.payload) /\ t[6] = Len(f.payload)
  BY SizeOf, WireBytes DEF FrameSize
<1>3. \A j \in 1..FrameSize(f) : s[j] = t[j]
  OBVIOUS
<1>. HIDE DEF t
<1>4. Len(b) <= FrameSize(f)
  <2>1. CASE Len(x) < 6
    BY <1>1, <1>2, <2>1
  <2>2. CASE Len(x) >= 6
    <3>1. 6 \in 1..Len(x) /\ 6 \in 1..FrameSize(f)
      BY <1>1, <1>2, <2>2
    <3>2. x[6] = Len(f.payload)
      BY <1>2, <1>3, <3>1
    <3>. QED  BY <1>2, <2>2, <3>2
  <2>. QED  BY <1>1, <2>1, <2>2
<1>5. \A i \in 1..Len(b) : b[i] = t[i]
  <2>1. \A i \in 1..Len(b) : i \in 1..FrameSize(f)
    BY <1>1, <1>2, <1>4
  <2>. QED  BY <1>3, <2>1
<1>6. ASSUME Len(b) >= 6
      PROVE  HeaderOk(b) /\ b[6] = Len(f.payload)
  <2>1. \A i \in 1..6 : i \in 1..Len(b)
    BY <1>1, <1>6
  <2>2. \A i \in 1..6 : b[i] = Serialize(f)[i]
    BY <1>5, <2>1 DEF t
  <2>. QED  BY <2>2, WireHeader
<1>7. Complete(b) <=> Len(b) = FrameSize(f)
  <2>1. Complete(b) <=> Len(b) >= 6 /\ Len(b) = 6 + b[6]
    BY DEF Complete, HeaderSize
  <2>2. CASE Len(b) >= 6
    BY <1>2, <1>6, <2>1, <2>2
  <2>3. CASE Len(b) < 6
    <3>1. ~(Len(b) >= 6) /\ Len(b) # FrameSize(f)
      BY <1>1, <1>2, <2>3
    <3>. QED  BY <2>1, <3>1
  <2>. QED  BY <1>1, <2>2, <2>3
<1>8. ASSUME Complete(b)
      PROVE  FrameOf(b) = f
  <2>1. Len(b) = Len(t)
    BY <1>2, <1>7, <1>8
  <2>2. b = t
    BY <1>2, <1>5, <2>1, SeqEqual
  <2>. QED  BY <2>2, WireFrame DEF t
<1>9. Len(b) = 6 => HeaderOk(b)
  BY <1>1, <1>6
<1>. QED  BY <1>1, <1>4, <1>7, <1>8, <1>9

\* The messages of a Recv: none, or the next one of those sent.
Hears ==
    \/ got' = got
    \/ Len(got) < Len(sent) /\ got' = Append(got, sent[Len(got) + 1])

LEMMA RecvInStep ==
    ASSUME InStep, BytesOK, Grounds, NEW k \in Chunk, Recv(k)
    PROVE  InStep' /\ Hears
<1>1. PICK n, a, g, pos, cnt : Stream(n, a, g, pos, cnt)
  BY DEF InStep
<1>. DEFINE s == rx \o wire
            f == g[a + 1]
<1>2. /\ Row(n, g, pos) /\ a \in 0..n /\ Rest(s, a, n, g, pos) /\ Tally(n, g, cnt)
      /\ cnt[a] = Len(got) /\ (rx # <<>> => a < n /\ Len(rx) < FrameSize(f))
  BY <1>1 DEF Stream
<1>3. rx \in Seq(Byte) /\ wire \in Seq(Byte) /\ wire # <<>>
  BY DEF BytesOK, Recv
<1>4. s \in Seq(Byte) /\ s # <<>>
  <2>1. s \in Seq(Byte) /\ Len(s) = Len(rx) + Len(wire) /\ Len(rx) \in Nat
    BY <1>3, Cat
  <2>2. Len(wire) \in Nat \ {0}
    BY <1>3, EmptySeq
  <2>3. Len(s) # 0
    BY <2>1, <2>2
  <2>. QED  BY <2>1, <2>3
<1>5. /\ a < n /\ f \in Frame /\ FrameValid(f)
      /\ \A j \in 1..FrameSize(f) : s[j] = Serialize(f)[j]
  <2>. HIDE DEF s
  <2>1. /\ a < n /\ g[a + 1] \in Frame /\ FrameValid(g[a + 1])
        /\ \A j \in 1..FrameSize(g[a + 1]) : s[j] = Serialize(g[a + 1])[j]
    BY <1>2, <1>4, FirstFrame
  <2>. QED  BY <2>1
<1>6. FrameSize(f) \in Nat /\ FrameSize(f) >= 6
  BY <1>5, SizeOf
<1>7. Len(rx) < FrameSize(f)
  <2>1. CASE rx # <<>>
    BY <1>2, <2>1
  <2>2. CASE rx = <<>>
    BY <1>6, <2>2
  <2>. QED  BY <2>1, <2>2
<1>8. PICK z : z = Min({k, Missing, Len(wire)})
  OBVIOUS
<1>9. PICK b : b = rx \o SubSeq(wire, 1, z)
  OBVIOUS
<1>10. PICK r : r = SubSeq(wire, z + 1, Len(wire))
  OBVIOUS
<1>. DEFINE bad == Len(b) = HeaderSize /\ ~HeaderOk(b)
<1>11. /\ wire' = r
       /\ rx' = IF bad \/ Complete(b) THEN <<>> ELSE b
       /\ alive' = ~(bad /\ role = "server")
       /\ IF ~bad /\ Complete(b) THEN Arrived(FrameOf(b)) ELSE UNCHANGED got
       /\ UNCHANGED <<role, far, dropped, puts, sent, cut>>
  BY <1>8, <1>9, <1>10 DEF Recv
<1>. HIDE DEF f
<1>12. /\ b \in Seq(Byte) /\ r \in Seq(Byte) /\ b \o r = s
       /\ Len(b) \in Nat /\ Len(b) <= FrameSize(f)
       /\ Len(b) = 6 => HeaderOk(b)
       /\ Complete(b) <=> Len(b) = FrameSize(f)
       /\ Complete(b) => FrameOf(b) = f
  <2>1. k \in Nat
    BY LinkConstants
  <2>2. /\ z \in Nat /\ z <= Len(wire) /\ Len(rx) \in Nat
        /\ Len(rx) < 6 => Len(rx) + z <= 6
        /\ Len(rx) >= 6 => Len(rx) + z <= 6 + rx[6]
    BY <1>8, <2>1, Asked
  <2>3. b \in Seq(Byte) /\ r \in Seq(Byte) /\ Len(b) = Len(rx) + z /\ b \o r = rx \o wire
    <3>1. b = Read(rx, wire, z) /\ r = Left(wire, z)
      BY <1>9, <1>10 DEF Read, Left
    <3>. QED  BY <1>3, <2>2, <3>1, Moved
  <2>4. (\A i \in 1..Len(b) : (b \o r)[i] = b[i]) /\ (\A i \in 1..Len(rx) : s[i] = rx[i])
    BY <1>3, <2>3, Cat
  <2>5. b \o r = s /\ \A i \in 1..Len(b) : s[i] = b[i]
    BY <2>3, <2>4
  <2>. HIDE DEF s, bad
  <2>6. (Len(rx) < 6 => Len(b) <= 6) /\ (Len(rx) >= 6 => Len(b) <= 6 + rx[6])
    BY <2>2, <2>3
  <2>7. /\ Len(b) \in Nat /\ Len(b) <= FrameSize(f)
        /\ Len(b) = 6 => HeaderOk(b)
        /\ Complete(b) <=> Len(b) = FrameSize(f)
        /\ Complete(b) => FrameOf(b) = f
    BY <1>3, <1>5, <2>3, <2>4, <2>5, <2>6, ReadsFrame
  <2>. QED  BY <2>3, <2>5, <2>7
<1>13. ~bad
  BY <1>12 DEF HeaderSize
<1>14. /\ wire' = r /\ alive' = TRUE /\ role' = role /\ sent' = sent
       /\ rx' = IF Complete(b) THEN <<>> ELSE b
       /\ IF Complete(b) THEN Arrived(FrameOf(b)) ELSE got' = got
  BY <1>11, <1>13
<1>15. Tally(n, g, cnt)' /\ Row(n, g, pos)'
  BY <1>2, <1>14, TallyStays DEF Row
<1>16. /\ got \in Seq(Argument) /\ Len(got) <= Len(sent) /\ \A i \in 1..Len(got) : got[i] = sent[i]
       /\ sent \in Seq(Argument)
  BY DEF InStep, Grounds
<1>17. Len(got) \in Nat /\ Len(sent) \in Nat
  BY <1>16, LenProperties
<1>. HIDE DEF s, bad
<1>18. CASE ~Complete(b)
  <2>1. wire' = r /\ rx' = b /\ got' = got
    BY <1>14, <1>18
  <2>2. Len(b) < FrameSize(f)
    BY <1>6, <1>12, <1>18
  <2>3. Rest(rx \o wire, a, n, g, pos)'
    <3>1. Rest((rx \o wire)', a, n, g, pos)
      BY <1>2, <1>12, <2>1
    <3>. QED  BY <3>1 DEF Rest
  <2>4. Stream(n, a, g, pos, cnt)'
    BY <1>2, <1>5, <1>15, <2>1, <2>2, <2>3 DEF Stream, f
  <2>. QED  BY <1>14, <1>16, <2>1, <2>4 DEF InStep, Hears
<1>19. CASE Complete(b)
  <2>1. wire' = r /\ rx' = <<>> /\ Arrived(f)
    BY <1>12, <1>14, <1>19
  <2>2. n \in Nat /\ a + 1 \in 0..n /\ a + 1 \in 1..n /\ (a + 1) - 1 = a
    BY <1>2, <1>5 DEF Row
  <2>3. Rest(r, a + 1, n, g, pos)
    BY <1>2, <1>5, <1>12, <1>19, RestShrinks DEF f
  <2>4. Rest(rx \o wire, a + 1, n, g, pos)'
    <3>1. <<>> \o r = r
      BY <1>12, ConcatEmptySeq
    <3>2. Rest((rx \o wire)', a + 1, n, g, pos)
      BY <2>1, <2>3, <3>1
    <3>. QED  BY <3>2 DEF Rest
  <2>5. IF ToMe(f) THEN cnt[a + 1] = Len(got) + 1 /\ cnt[a + 1] <= Len(sent)
                        /\ sent[cnt[a + 1]] = Decode(f)
        ELSE cnt[a + 1] = Len(got)
    <3>1. IF ToMe(g[a + 1])
          THEN cnt[a + 1] = cnt[(a + 1) - 1] + 1 /\ cnt[a + 1] <= Len(sent)
               /\ sent[cnt[a + 1]] = Decode(g[a + 1])
          ELSE cnt[a + 1] = cnt[(a + 1) - 1]
      BY <1>2, <2>2 DEF Tally
    <3>. QED  BY <1>2, <2>2, <3>1 DEF f
  <2>6. got' = IF ToMe(f) THEN Append(got, Decode(f)) ELSE got
    BY <2>1 DEF Arrived, ToMe
  <2>7. CASE ToMe(f)
    <3>1. /\ cnt[a + 1] = Len(got) + 1 /\ Len(got) + 1 <= Len(sent)
          /\ Decode(f) = sent[Len(got) + 1] /\ got' = Append(got, Decode(f))
      BY <2>5, <2>6, <2>7
    <3>2. Len(got) + 1 \in 1..Len(sent)
      BY <1>17, <3>1
    <3>3. Decode(f) \in Argument
      BY <1>16, <3>1, <3>2, ElementOfSeq
    <3>4. /\ got' \in Seq(Argument) /\ Len(got') = Len(got) + 1
          /\ \A i \in 1..Len(got) : got'[i] = got[i]
          /\ got'[Len(got) + 1] = Decode(f)
      BY <1>16, <3>1, <3>3, AppendProperties
    <3>5. \A i \in 1..Len(got') : got'[i] = sent[i]
      BY <1>16, <1>17, <3>1, <3>4
    <3>6. Stream(n, a + 1, g, pos, cnt)'
      BY <1>15, <2>1, <2>2, <2>4, <3>1, <3>4 DEF Stream
    <3>7. Hears
      BY <1>17, <3>1 DEF Hears
    <3>8. Len(got') <= Len(sent)
      BY <3>1, <3>4
    <3>. QED  BY <1>14, <3>4, <3>5, <3>6, <3>7, <3>8 DEF InStep
  <2>8. CASE ~ToMe(f)
    <3>1. cnt[a + 1] = Len(got) /\ got' = got
      BY <2>5, <2>6, <2>8
    <3>2. Stream(n, a + 1, g, pos, cnt)'
      BY <1>15, <2>1, <2>2, <2>4, <3>1 DEF Stream
    <3>. QED  BY <1>14, <1>16, <3>1, <3>2 DEF InStep, Hears
  <2>. QED  BY <2>7, <2>8
<1>. QED  BY <1>18, <1>19

LEMMA StreamStep ==
    ASSUME InStep, BytesOK, Grounds, [Next]_vars, ~cut'
    PROVE  InStep'
<1>1. CASE PutsMessage
  <2>1. PICK m \in Message, f \in Frame :
            /\ Encodes(m) /\ FrameFor(f, m) /\ Puts(f)
            /\ sent' = IF MeantForMe(m) THEN Append(sent, m) ELSE sent
    BY <1>1 DEF PutsMessage
  <2>2. m \in Argument
    BY LinkConstants
  <2>3. Decode(f) = m /\ (ToMe(f) <=> MeantForMe(m))
    BY <2>1, <2>2, MeantPasses
  <2>4. IF ToMe(f) THEN m \in Argument /\ sent' = Append(sent, m) /\ Decode(f) = m
        ELSE sent' = sent
    BY <2>1, <2>2, <2>3
  <2>5. FrameValid(f)
    BY <2>1 DEF FrameFor
  <2>. QED  BY <2>1, <2>4, <2>5, PutsInStep
<1>2. CASE PutsOther
  <2>1. PICK f \in Frame : FrameValid(f) /\ ~Decodes(f) /\ Puts(f) /\ sent' = sent
    BY <1>2 DEF PutsOther
  <2>2. ~ToMe(f)
    BY <2>1 DEF ToMe
  <2>3. PICK m : m = Decode(f)
    OBVIOUS
  <2>4. IF ToMe(f) THEN m \in Argument /\ sent' = Append(sent, m) /\ Decode(f) = m
        ELSE sent' = sent
    BY <2>1, <2>2
  <2>. QED  BY <2>1, <2>4, PutsInStep
<1>3. CASE \E k \in Chunk : Recv(k)
  BY <1>3, RecvInStep
<1>4. ASSUME UNCHANGED <<role, wire, rx, alive, sent, got>>
      PROVE  InStep'
  <2>1. PICK n, a, g, pos, cnt : Stream(n, a, g, pos, cnt)
    BY DEF InStep
  <2>2. Tally(n, g, cnt)'
    BY <1>4, <2>1, TallyStays DEF Stream
  <2>3. Row(n, g, pos)' /\ Rest(rx \o wire, a, n, g, pos)'
    BY <1>4, <2>1 DEF Stream, Row, Rest
  <2>4. Stream(n, a, g, pos, cnt)'
    BY <1>4, <2>1, <2>2, <2>3 DEF Stream
  <2>. QED  BY <1>4, <2>4 DEF InStep
<1>5. CASE Deadline
  <2>1. rx' = <<>> /\ (cut' <=> cut \/ rx # <<>>) /\ UNCHANGED <<role, wire, alive, sent, got>>
    BY <1>5 DEF Deadline
  <2>2. rx' = rx
    BY <2>1
  <2>. QED  BY <1>4, <2>1, <2>2
<1>6. CASE UNCHANGED vars
  BY <1>4, <1>6 DEF vars
<1>. QED  BY <1>1, <1>2, <1>3, <1>5, <1>6, Steps

\* No step mends a cut stream.
LEMMA CutStays == ASSUME Grounds, [Next]_vars PROVE cut => cut'
<1>1. CASE PutsMessage
  BY <1>1 DEF PutsMessage, Puts
<1>2. CASE PutsOther
  BY <1>2 DEF PutsOther, Puts
<1>3. CASE \E k \in Chunk : Recv(k)
  BY <1>3 DEF Recv
<1>4. CASE Deadline
  BY <1>4 DEF Deadline
<1>5. CASE UNCHANGED vars
  BY <1>5 DEF vars
<1>. QED  BY <1>1, <1>2, <1>3, <1>4, <1>5, Steps

LinkInv == BytesOK /\ Grounds /\ (~cut => InStep)

LEMMA LinkInit == Init => LinkInv
<1>. SUFFICES ASSUME Init
              PROVE  InStep
  BY Start DEF LinkInv
<1>1. /\ rx = <<>> /\ wire = <<>> /\ sent = <<>> /\ got = <<>> /\ alive
  BY DEF Init
<1>2. PICK g : g = [i \in 1..0 |-> NewFrame(0, FALSE)]
  OBVIOUS
<1>3. PICK z : z = [i \in 0..0 |-> 0]
  OBVIOUS
<1>4. z \in [0..0 -> Nat] /\ z[0] = 0 /\ \A i, j \in 0..0 : z[i] <= z[j]
  BY <1>3
<1>5. g \in [1..0 -> Frame] /\ \A i \in 1..0 : FALSE
  BY <1>2
<1>6. Row(0, g, z)
  BY <1>4, <1>5 DEF Row
<1>7. rx \o wire = <<>>
  BY <1>1
<1>8. Rest(rx \o wire, 0, 0, g, z)
  BY <1>4, <1>7 DEF Rest
<1>9. Tally(0, g, z)
  BY <1>1, <1>4, <1>5 DEF Tally
<1>10. Stream(0, 0, g, z, z)
  BY <1>1, <1>4, <1>6, <1>8, <1>9 DEF Stream
<1>. QED  BY <1>1, <1>10 DEF InStep

LEMMA LinkStep == LinkInv /\ [Next]_vars => LinkInv'
<1>. SUFFICES ASSUME LinkInv, [Next]_vars
              PROVE  LinkInv'
  OBVIOUS
<1>1. BytesOK' /\ Grounds'
  BY BytesStep, GroundsStep DEF LinkInv
<1>2. ASSUME ~cut'
      PROVE  InStep'
  <2>1. ~cut
    BY <1>2, CutStays DEF LinkInv
  <2>. QED  BY <1>2, <2>1, StreamStep DEF LinkInv
<1>. QED  BY <1>1, <1>2 DEF LinkInv

\* As long as no deadline falls into a message the receiver reads no malformed
\* header, in whatever pieces the stream arrives and whatever frames are on it: the
\* server's loop goes on.
THEOREM ReceiverInStep == Spec => []StaysInStep
<1>1. LinkInv => StaysInStep
  BY DEF LinkInv, InStep, StaysInStep
<1>. QED  BY <1>1, LinkInit, LinkStep, PTL DEF Spec

-----------------------------------------------------------------------------
(* The channel. *)

\* What is left of s after its first k elements.
Waiting(s, k) == SubSeq(s, k + 1, Len(s))

LEMMA WaitingIs ==
    ASSUME NEW s \in Seq(Argument), NEW k \in Nat, k <= Len(s)
    PROVE  /\ Waiting(s, k) \in Seq(Argument) /\ Len(Waiting(s, k)) = Len(s) - k
           /\ \A i \in 1..(Len(s) - k) : Waiting(s, k)[i] = s[k + i]
<1>. DEFINE q == Waiting(s, k)
<1>1. Len(s) \in Nat
  BY LenProperties
<1>2. \A i \in (k + 1)..Len(s) : s[i] \in Argument
  BY <1>1, ElementOfSeq
<1>3. k + 1 \in Int /\ Len(s) \in Int
  BY <1>1
<1>4. /\ q \in Seq(Argument)
      /\ Len(q) = IF k + 1 <= Len(s) THEN Len(s) - (k + 1) + 1 ELSE 0
      /\ \A i \in 1..(Len(s) - (k + 1) + 1) : q[i] = s[(k + 1) + i - 1]
  BY <1>2, <1>3, SubSeqProperties DEF Waiting
<1>. HIDE DEF q
<1>5. Len(q) = Len(s) - k
  BY <1>1, <1>4
<1>6. ASSUME NEW i \in 1..(Len(s) - k)
      PROVE  q[i] = s[k + i]
  <2>1. i \in 1..(Len(s) - (k + 1) + 1) /\ (k + 1) + i - 1 = k + i
    BY <1>1
  <2>. QED  BY <1>4, <2>1
<1>. QED  BY <1>4, <1>5, <1>6 DEF q

LEMMA WaitingGrows ==
    ASSUME NEW s \in Seq(Argument), NEW k \in Nat, k <= Len(s), NEW m \in Argument
    PROVE  Waiting(Append(s, m), k) = Append(Waiting(s, k), m)
<1>. DEFINE t == Append(s, m)
            q == Waiting(s, k)
            u == Waiting(t, k)
            v == Append(q, m)
<1>1. Len(s) \in Nat
  BY LenProperties
<1>2. /\ t \in Seq(Argument) /\ Len(t) = Len(s) + 1 /\ t[Len(s) + 1] = m
      /\ \A i \in 1..Len(s) : t[i] = s[i]
  BY AppendProperties
<1>3. /\ q \in Seq(Argument) /\ Len(q) = Len(s) - k
      /\ \A i \in 1..(Len(s) - k) : q[i] = s[k + i]
  BY WaitingIs
<1>. HIDE DEF t, q
<1>4. k <= Len(t)
  BY <1>1, <1>2
<1>5. /\ u \in Seq(Argument) /\ Len(u) = Len(t) - k
      /\ \A i \in 1..(Len(t) - k) : u[i] = t[k + i]
  BY <1>2, <1>4, WaitingIs
<1>6. /\ v \in Seq(Argument) /\ Len(v) = Len(q) + 1 /\ v[Len(q) + 1] = m
      /\ \A i \in 1..Len(q) : v[i] = q[i]
  BY <1>3, AppendProperties
<1>. HIDE DEF u, v
<1>7. Len(u) = Len(v)
  BY <1>1, <1>2, <1>3, <1>5, <1>6
<1>8. ASSUME NEW i \in 1..Len(u)
      PROVE  u[i] = v[i]
  <2>1. i \in 1..(Len(t) - k) /\ Len(u) = (Len(s) - k) + 1
    BY <1>1, <1>2, <1>5
  <2>2. CASE i = Len(q) + 1
    <3>1. k + i = Len(s) + 1
      BY <1>1, <1>3, <2>2
    <3>. QED  BY <1>2, <1>5, <1>6, <2>1, <2>2, <3>1
  <2>3. CASE i # Len(q) + 1
    <3>0. i \in Nat /\ 1 <= i /\ i <= (Len(s) - k) + 1 /\ i # (Len(s) - k) + 1
      BY <1>1, <1>3, <2>1, <2>3
    <3>1. i \in 1..Len(q) /\ i \in 1..(Len(s) - k) /\ k + i \in 1..Len(s)
      BY <1>1, <1>3, <3>0
    <3>. QED  BY <1>2, <1>3, <1>5, <1>6, <2>1, <3>1
  <2>. QED  BY <2>2, <2>3
<1>9. u = v
  BY <1>5, <1>6, <1>7, <1>8, SeqEqual
<1>. QED  BY <1>9 DEF u, v, t, q

LEMMA WaitingShrinks ==
    ASSUME NEW s \in Seq(Argument), NEW k \in Nat, k < Len(s)
    PROVE  /\ Waiting(s, k) # <<>> /\ Head(Waiting(s, k)) = s[k + 1]
           /\ Tail(Waiting(s, k)) = Waiting(s, k + 1)
<1>1. Len(s) \in Nat
  BY LenProperties
<1>2. k + 1 \in 1..Len(s) /\ Len(s) \in (k + 1)..Len(s) /\ k <= Len(s) /\ Len(s) - k # 0
  BY <1>1
<1>3. Len(Waiting(s, k)) = Len(s) - k
  BY <1>2, WaitingIs
<1>4. Waiting(s, k) # <<>>
  BY <1>2, <1>3
<1>5. /\ Head(SubSeq(s, k + 1, Len(s))) = s[k + 1]
      /\ Tail(SubSeq(s, k + 1, Len(s))) = SubSeq(s, (k + 1) + 1, Len(s))
  BY <1>2, HeadTailOfSubSeq
<1>. QED  BY <1>4, <1>5 DEF Waiting

\* A step of the link is a step of the channel, or none.
LEMMA ChannelStep ==
    ASSUME LinkInv, [Next]_vars
    PROVE  [Chan!Next]_(Chan!vars)
<1>. DEFINE queue == SubSeq(sent, Len(got) + 1, Len(sent))
<1>1. cut => cut'
  BY CutStays DEF LinkInv
<1>2. CASE cut
  BY <1>1, <1>2 DEF Chan!Next, Chan!Chaos
<1>3. CASE ~cut
  <2>1. InStep /\ BytesOK /\ Grounds
    BY <1>3 DEF LinkInv
  <2>2. /\ sent \in Seq(Argument) /\ got \in Seq(Argument) /\ Len(got) <= Len(sent)
        /\ Len(got) \in Nat
    BY <2>1, LenProperties DEF InStep, Grounds
  <2>3. queue = Waiting(sent, Len(got)) /\ queue' = Waiting(sent', Len(got'))
    BY DEF Waiting
  <2>. HIDE DEF queue
  <2>4. ASSUME UNCHANGED <<sent, got, cut>>
        PROVE  UNCHANGED Chan!vars
    BY <2>4 DEF Chan!vars
  <2>5. CASE PutsMessage
    <3>1. PICK m \in Message, f \in Frame :
              Puts(f) /\ sent' = IF MeantForMe(m) THEN Append(sent, m) ELSE sent
      BY <2>5 DEF PutsMessage
    <3>2. got' = got /\ cut' = cut
      BY <3>1 DEF Puts
    <3>3. CASE ~MeantForMe(m)
      BY <2>4, <3>1, <3>2, <3>3
    <3>4. CASE MeantForMe(m)
      <4>1. sent' = Append(sent, m) /\ m \in Argument
        BY <3>1, <3>4, LinkConstants
      <4>2. queue' = Append(queue, m)
        BY <2>2, <2>3, <3>2, <4>1, WaitingGrows
      <4>3. Chan!Put(m)
        BY <3>2, <4>2 DEF Chan!Put, queue
      <4>. QED  BY <1>3, <4>3 DEF Chan!Next
    <3>. QED  BY <3>3, <3>4
  <2>6. CASE PutsOther
    BY <2>4, <2>6 DEF PutsOther, Puts
  <2>7. ASSUME NEW k \in Chunk, Recv(k)
        PROVE  [Chan!Next]_(Chan!vars)
    <3>1. sent' = sent /\ cut' = cut
      BY <2>7 DEF Recv
    <3>2. Hears
      BY <2>1, <2>7, RecvInStep
    <3>3. CASE got' = got
      BY <2>4, <3>1, <3>3
    <3>4. CASE Len(got) < Len(sent) /\ got' = Append(got, sent[Len(got) + 1])
      <4>1. queue # <<>> /\ Head(queue) = sent[Len(got) + 1]
            /\ Tail(queue) = Waiting(sent, Len(got) + 1)
        BY <2>2, <2>3, <3>4, WaitingShrinks
      <4>2. Len(got') = Len(got) + 1
        <5>1. Len(got) + 1 \in 1..Len(sent)
          BY <2>2, <3>4, LenProperties
        <5>2. sent[Len(got) + 1] \in Argument
          BY <2>2, <5>1, ElementOfSeq
        <5>. QED  BY <2>2, <3>4, <5>2, AppendProperties
      <4>3. queue' = Tail(queue) /\ got' = Append(got, Head(queue))
        BY <2>3, <3>1, <3>4, <4>1, <4>2
      <4>4. Chan!Take
        BY <3>1, <4>1, <4>3 DEF Chan!Take, queue
      <4>. QED  BY <1>3, <4>4 DEF Chan!Next
    <3>. QED  BY <3>2, <3>3, <3>4 DEF Hears
  <2>8. CASE Deadline
    <3>1. sent' = sent /\ got' = got /\ cut' \in BOOLEAN
      BY <2>8 DEF Deadline
    <3>2. CASE ~cut'
      <4>1. cut' = cut
        BY <1>3, <2>1, <3>1, <3>2 DEF Grounds
      <4>. QED  BY <2>4, <3>1, <4>1
    <3>3. CASE cut'
      <4>1. cut' = TRUE
        BY <3>1, <3>3
      <4>2. Chan!Break
        BY <3>1, <4>1 DEF Chan!Break
      <4>. QED  BY <1>3, <4>2 DEF Chan!Next
    <3>. QED  BY <3>2, <3>3
  <2>9. CASE UNCHANGED vars
    BY <2>4, <2>9 DEF vars
  <2>. QED  BY <2>5, <2>6, <2>7, <2>8, <2>9, Steps
<1>. QED  BY <1>2, <1>3

\* The link implements the channel: until a deadline cuts a message, the messages
\* meant for the receiver reach it whole, unchanged and in order, and no other does,
\* whatever sizes the pieces have, and through the padding of the bridge.
THEOREM LinkIsChannel == Spec => ChannelKept
<1>1. Init => Chan!Init
  <2>. SUFFICES ASSUME Init
                PROVE  Chan!Init
    OBVIOUS
  <2>1. sent = <<>> /\ got = <<>> /\ cut = FALSE
    BY DEF Init
  <2>2. SubSeq(sent, Len(got) + 1, Len(sent)) = <<>>
    BY <2>1
  <2>. QED  BY <2>1, <2>2 DEF Chan!Init
<1>2. LinkInv /\ [Next]_vars => [Chan!Next]_(Chan!vars)
  BY ChannelStep
<1>. QED  BY <1>1, <1>2, LinkInit, LinkStep, PTL DEF Spec, ChannelKept, Chan!Spec

=============================================================================
