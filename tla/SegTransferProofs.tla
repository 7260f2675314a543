-------------------------- MODULE SegTransferProofs --------------------------
(***************************************************************************)
(* Machine-checked facts about segmented transfers, for every number of    *)
(* clients, every length of bodies and of queues, and every range of the   *)
(* session number.                                                         *)
(***************************************************************************)
EXTENDS SegTransfer, SequenceTheorems, TLAPS

Blocks == [cli : Client, x : Content, i : Nat]
Command == {"DL_REQ", "DL_INIT", "DL_SEG", "DL_END", "UL_REQ", "UL_SEG", "DL_RESP", "DL_INIT_RESP",
            "DL_SEG_RESP", "DL_END_RESP", "UL_RESP", "UL_INIT_RESP", "UL_SEG_RESP", "UL_END_RESP",
            "ABORT"}
Message == [cmd : Command, session : Nat, counter : Nat, total : Nat, data : Seq(Blocks)]
Phase == {"idle", "dl_req", "dl_init", "dl_seg", "dl_end", "ul_req", "ul_seg"}
Sending == {"dl_req", "dl_init", "dl_seg", "dl_end"}

SegTypeOK ==
    /\ segdl \in [active : BOOLEAN, src : Client \cup {None}, session : Nat, counter : Nat,
                  total : Nat, buf : Seq(Blocks)]
    /\ segul \in [active : BOOLEAN, dst : Client \cup {None}, session : Nat, counter : Nat,
                  body : Seq(Blocks)]
    /\ segul.active => segul.counter < Len(segul.body)
    /\ pc \in [Client -> Phase]
    /\ sess \in [Client -> Nat]
    /\ x \in [Client -> Content \cup {None}]
    /\ buf \in [Client -> Seq(Blocks)]
    /\ total \in [Client -> Nat]
    /\ up \in [Client -> Seq(Message)]
    /\ down \in [Client -> Seq(Message)]
    /\ ans \in [Client -> Content \cup {None}]
    /\ cut \in [Client -> BOOLEAN]
    /\ DOMAIN done = Client

\* The server's download slot is that of client c, in its session s.
HoldsDl(c, s) == segdl.active /\ segdl.src = c /\ segdl.session = s
HoldsUl(c, s) == segul.active /\ segul.dst = c /\ segul.session = s

\* What the download slot has collected is a beginning of the body y of c.
Collects(c, y) ==
    /\ segdl.total = Size[y]
    /\ segdl.counter = Len(segdl.buf)
    /\ \A i \in 1..Len(segdl.buf) : segdl.buf[i] = Block(c, y, i)

\* A request in transit, late or not: a whole body, or a block that continues
\* what the slot has collected if the slot is still that transfer's.
WellSent(c, m) ==
    /\ m.cmd = "DL_REQ" => m.data \in Bodies(c)
    /\ m.cmd \in {"DL_SEG", "DL_END"} =>
          \E y \in Content :
             /\ m.data = <<Block(c, y, m.counter + 1)>>
             /\ m.cmd = "DL_END" => m.counter + 1 = Size[y]
             /\ HoldsDl(c, m.session) => Collects(c, y)

\* How far client c is.
Local(c) ==
   /\ pc[c] \in Sending => x[c] \in Content /\ Size[x[c]] <= BodyMax
   /\ pc[c] \in {"idle", "dl_req", "dl_init", "ul_req"} => buf[c] = <<>>
   /\ pc[c] = "dl_seg" => Len(buf[c]) + 1 < Size[x[c]]
   /\ pc[c] = "dl_end" => Len(buf[c]) + 1 = Size[x[c]]
   /\ pc[c] \in {"dl_seg", "dl_end"} /\ HoldsDl(c, sess[c]) => Collects(c, x[c])
   /\ pc[c] = "ul_seg" =>
         /\ ans[c] \in Content /\ total[c] = Size[ans[c]]
         /\ \A i \in 1..Len(buf[c]) : buf[c][i] = Block(c, ans[c], i)
         /\ HoldsUl(c, sess[c]) => segul.body = Body(c, ans[c])

\* The request m that client c awaits the answer of.
Asks(c, m) ==
    /\ pc[c] = "dl_req" => m.cmd = "DL_REQ" /\ m.data = Body(c, x[c])
    /\ pc[c] = "dl_init" => m.cmd = "DL_INIT" /\ m.total = Size[x[c]]
    /\ pc[c] \in {"dl_seg", "dl_end"} =>
          /\ m.cmd = IF pc[c] = "dl_seg" THEN "DL_SEG" ELSE "DL_END"
          /\ m.counter = Len(buf[c]) /\ m.data = <<Block(c, x[c], Len(buf[c]) + 1)>>
          /\ ~cut[c] => HoldsDl(c, sess[c]) /\ Len(segdl.buf) = Len(buf[c])
    /\ pc[c] = "ul_req" => m.cmd = "UL_REQ"
    /\ pc[c] = "ul_seg" =>
          /\ m.cmd = "UL_SEG" /\ m.counter = Len(buf[c])
          /\ ~cut[c] => HoldsUl(c, sess[c]) /\ segul.counter = Len(buf[c])

\* The answer m to it.
Answers(c, m) ==
    \/ m.cmd = "ABORT"
    \/ /\ pc[c] = "dl_req" /\ m.cmd = "DL_RESP"
       /\ done[c] = Body(c, x[c]) /\ ans[c] \in Content /\ m.data = Body(c, ans[c])
    \/ pc[c] = "ul_req" /\ m.cmd = "UL_RESP" /\ ans[c] \in Content /\ m.data = Body(c, ans[c])
    \/ /\ pc[c] \in Reading /\ m.cmd = "UL_INIT_RESP"
       /\ ans[c] \in Content /\ m.total = Size[ans[c]]
       /\ HoldsUl(c, sess[c]) => segul.body = Body(c, ans[c])
       /\ ~cut[c] => HoldsUl(c, sess[c]) /\ segul.counter = 0
    \/ /\ pc[c] = "dl_init" /\ m.cmd = "DL_INIT_RESP"
       /\ HoldsDl(c, sess[c]) => Collects(c, x[c])
       /\ ~cut[c] => HoldsDl(c, sess[c]) /\ Len(segdl.buf) = 0
    \/ /\ pc[c] = "dl_seg" /\ m.cmd = "DL_SEG_RESP"
       /\ ~cut[c] => HoldsDl(c, sess[c]) /\ Len(segdl.buf) = Len(buf[c]) + 1
    \/ pc[c] = "dl_end" /\ m.cmd = "DL_END_RESP" /\ done[c] = Body(c, x[c])
    \/ /\ pc[c] = "ul_seg" /\ m.cmd \in {"UL_SEG_RESP", "UL_END_RESP"}
       /\ m.data = <<Block(c, ans[c], Len(buf[c]) + 1)>>
       /\ m.cmd = "UL_SEG_RESP" /\ ~cut[c] =>
             HoldsUl(c, sess[c]) /\ segul.counter = Len(buf[c]) + 1

\* The frames in transit: one per session number on the way up, that of the
\* transfer in progress behind all late ones, and an answer to it behind all.
Turn(c) ==
    /\ \A i, j \in 1..Len(up[c]) : up[c][i].session = up[c][j].session => i = j
    /\ \A i \in 1..Len(up[c]) : WellSent(c, up[c][i])
    /\ pc[c] # "idle" =>
       /\ \A i \in 1..Len(up[c]) : up[c][i].session = sess[c] => i = Len(up[c]) /\ Asks(c, up[c][i])
       /\ \A i \in 1..Len(down[c]) : down[c][i].session = sess[c] =>
             i = Len(down[c]) /\ up[c] = <<>> /\ Answers(c, down[c][i])
       /\ pc[c] \in {"dl_seg", "dl_end", "ul_seg"} =>
             \A i \in 1..Len(up[c]) : up[c][i].session = sess[c]

SegInv == \A c \in Client : Local(c) /\ Turn(c)

-----------------------------------------------------------------------------
(* Queues and bodies. *)

LEMMA Queue ==
    ASSUME NEW S, NEW q \in Seq(S)
    PROVE  /\ Len(q) \in Nat /\ DOMAIN q = 1..Len(q) /\ \A i \in 1..Len(q) : q[i] \in S
           /\ q = <<>> <=> Len(q) = 0
           /\ q # <<>> =>
                 /\ Head(q) = q[1] /\ Head(q) \in S /\ Tail(q) \in Seq(S) /\ Len(Tail(q)) = Len(q) - 1
                 /\ \A i \in 1..Len(Tail(q)) : Tail(q)[i] = q[i + 1]
           /\ \A m \in S :
                 /\ Append(q, m) \in Seq(S) /\ Len(Append(q, m)) = Len(q) + 1
                 /\ Append(q, m)[Len(q) + 1] = m
                 /\ \A i \in 1..Len(q) : Append(q, m)[i] = q[i]
<1>1. /\ Len(q) \in Nat /\ DOMAIN q = 1..Len(q) /\ \A i \in 1..Len(q) : q[i] \in S
      /\ q = <<>> <=> Len(q) = 0
  BY LenProperties, EmptySeq
<1>2. ASSUME q # <<>>
      PROVE  /\ Head(q) = q[1] /\ Head(q) \in S /\ Tail(q) \in Seq(S) /\ Len(Tail(q)) = Len(q) - 1
             /\ \A i \in 1..Len(Tail(q)) : Tail(q)[i] = q[i + 1]
  BY <1>1, <1>2, HeadTailProperties
<1>3. ASSUME NEW m \in S
      PROVE  /\ Append(q, m) \in Seq(S) /\ Len(Append(q, m)) = Len(q) + 1
             /\ Append(q, m)[Len(q) + 1] = m
             /\ \A i \in 1..Len(q) : Append(q, m)[i] = q[i]
  BY <1>1, AppendProperties
<1>. QED  BY <1>1, <1>2, <1>3

LEMMA BodyType ==
    ASSUME NEW c \in Client, NEW y \in Content
    PROVE  /\ Size[y] \in Nat /\ Size[y] >= 1
           /\ Body(c, y) \in Seq(Blocks) /\ Len(Body(c, y)) = Size[y]
           /\ \A i \in 1..Size[y] : Body(c, y)[i] = Block(c, y, i)
           /\ \A i \in Nat : Block(c, y, i) \in Blocks /\ <<Block(c, y, i)>> \in Seq(Blocks)
<1>1. Size[y] \in Nat /\ Size[y] >= 1
  BY SegConstants
<1>2. \A i \in Nat : Block(c, y, i) \in Blocks
  BY DEF Block, Blocks
<1>3. \A i \in Nat : <<Block(c, y, i)>> \in Seq(Blocks)
  BY <1>2
<1>4. Body(c, y) \in [1..Size[y] -> Blocks]
  BY <1>1, <1>2 DEF Body
<1>5. Body(c, y) \in Seq(Blocks) /\ Len(Body(c, y)) = Size[y]
  BY <1>1, <1>4, SeqDef, LenProperties
<1>. QED  BY <1>1, <1>2, <1>3, <1>5 DEF Body

\* A sequence that has the blocks of a body in their places is that body.
LEMMA WholeBody ==
    ASSUME NEW c \in Client, NEW y \in Content, NEW q \in Seq(Blocks),
           Len(q) + 1 = Size[y], \A i \in 1..Len(q) : q[i] = Block(c, y, i)
    PROVE  q \o <<Block(c, y, Len(q) + 1)>> = Body(c, y)
<1>1. Len(q) \in Nat /\ Size[y] \in Nat
  BY BodyType
<1>2. <<Block(c, y, Len(q) + 1)>> \in Seq(Blocks) /\ Len(<<Block(c, y, Len(q) + 1)>>) = 1
  BY <1>1, BodyType
<1>. DEFINE r == q \o <<Block(c, y, Len(q) + 1)>>
<1>3. r \in Seq(Blocks) /\ Len(r) = Size[y] /\ \A i \in 1..Size[y] : r[i] = Block(c, y, i)
  <2>1. r \in Seq(Blocks) /\ Len(r) = Len(q) + 1
    BY <1>1, <1>2, ConcatProperties
  <2>2. \A i \in 1..Len(q) : r[i] = q[i]
    BY <1>1, <1>2, ConcatProperties
  <2>3. r[Len(q) + 1] = Block(c, y, Len(q) + 1)
    BY <1>1, <1>2, ConcatProperties
  <2>. QED  BY <1>1, <2>1, <2>2, <2>3
<1>. HIDE DEF r
<1>4. Body(c, y) \in Seq(Blocks) /\ Len(Body(c, y)) = Size[y]
      /\ \A i \in 1..Size[y] : Body(c, y)[i] = Block(c, y, i)
  BY BodyType
<1>5. r = Body(c, y)
  BY <1>3, <1>4, SeqEqual
<1>. QED  BY <1>5 DEF r

\* Taking one more block in its place.
LEMMA OneMore ==
    ASSUME NEW c \in Client, NEW y \in Content, NEW q \in Seq(Blocks),
           \A i \in 1..Len(q) : q[i] = Block(c, y, i)
    PROVE  LET r == q \o <<Block(c, y, Len(q) + 1)>> IN
           /\ r \in Seq(Blocks) /\ Len(r) = Len(q) + 1
           /\ \A i \in 1..Len(r) : r[i] = Block(c, y, i)
<1>1. Len(q) \in Nat
  OBVIOUS
<1>2. <<Block(c, y, Len(q) + 1)>> \in Seq(Blocks) /\ Len(<<Block(c, y, Len(q) + 1)>>) = 1
  BY <1>1, BodyType
<1>. DEFINE r == q \o <<Block(c, y, Len(q) + 1)>>
<1>3. r \in Seq(Blocks) /\ Len(r) = Len(q) + 1
  BY <1>1, <1>2, ConcatProperties
<1>4. (\A i \in 1..Len(q) : r[i] = q[i]) /\ r[Len(q) + 1] = Block(c, y, Len(q) + 1)
  BY <1>1, <1>2, ConcatProperties
<1>. QED  BY <1>1, <1>3, <1>4

-----------------------------------------------------------------------------
(* What a step leaves to show. *)

\* Nothing of client d moves.
Still(d) ==
    /\ pc'[d] = pc[d] /\ sess'[d] = sess[d] /\ x'[d] = x[d] /\ buf'[d] = buf[d] /\ total'[d] = total[d]
    /\ up'[d] = up[d] /\ down'[d] = down[d] /\ done'[d] = done[d] /\ ans'[d] = ans[d]

\* The slots do not become those of d, and leave d only if its transfer is cut.
Apart(d) ==
    /\ cut[d] => cut'[d] \/ pc[d] = "idle"
    /\ \/ segdl' = segdl
       \/ /\ ~(segdl'.active /\ segdl'.src = d)
          /\ pc[d] = "idle" \/ cut'[d] \/ ~(segdl.active /\ segdl.src = d)
    /\ \/ segul' = segul
       \/ /\ ~(segul'.active /\ segul'.dst = d)
          /\ pc[d] = "idle" \/ cut'[d] \/ ~(segul.active /\ segul.dst = d)

\* A step of the server or of another client.
LEMMA OtherKept ==
    ASSUME NEW d \in Client, Local(d), Turn(d), Still(d), Apart(d)
    PROVE  Local(d)' /\ Turn(d)'
<1>1. \A s : HoldsDl(d, s)' => HoldsDl(d, s) /\ segdl' = segdl
  BY DEF HoldsDl, Apart
<1>2. \A s : HoldsUl(d, s)' => HoldsUl(d, s) /\ segul' = segul
  BY DEF HoldsUl, Apart
<1>3. \A s : HoldsDl(d, s) /\ pc[d] # "idle" /\ ~cut'[d] => HoldsDl(d, s)' /\ segdl' = segdl
  BY DEF HoldsDl, Apart
<1>4. \A s : HoldsUl(d, s) /\ pc[d] # "idle" /\ ~cut'[d] => HoldsUl(d, s)' /\ segul' = segul
  BY DEF HoldsUl, Apart
<1>5. cut[d] => cut'[d] \/ pc[d] = "idle"
  BY DEF Apart
<1>6. segdl' = segdl => \A y : Collects(d, y)' = Collects(d, y)
  BY DEF Collects
<1>7. \A m : WellSent(d, m) => WellSent(d, m)'
  BY <1>1, <1>6 DEF WellSent
<1>8. \A m : Asks(d, m) => Asks(d, m)'
  BY <1>3, <1>4, <1>5 DEF Asks, Still
<1>9. ASSUME NEW m, Answers(d, m), pc[d] # "idle"
      PROVE  Answers(d, m)'
  BY <1>1, <1>2, <1>3, <1>4, <1>5, <1>6, <1>9 DEF Answers, Still
<1>10. Local(d)'
  BY <1>1, <1>2, <1>6 DEF Local, Still
<1>. QED  BY <1>7, <1>8, <1>9, <1>10 DEF Turn, Still

\* The oldest request of c and what it may be.
LEMMA Oldest ==
    ASSUME SegTypeOK, NEW c \in Client, Turn(c), up[c] # <<>>
    PROVE  /\ Request(c) \in Message /\ Request(c) = up[c][1] /\ WellSent(c, Request(c))
           /\ pc[c] # "idle" /\ Request(c).session = sess[c] => Asks(c, Request(c)) /\ Len(up[c]) = 1
           /\ pc[c] \in {"dl_seg", "dl_end", "ul_seg"} => Request(c).session = sess[c]
<1>1. up[c] \in Seq(Message)
  BY DEF SegTypeOK
<1>2. Request(c) \in Message /\ Request(c) = up[c][1] /\ 1 \in 1..Len(up[c])
  BY <1>1, Queue DEF Request
<1>. QED  BY <1>2 DEF Turn

\* The server takes the oldest request of c and answers r.
LEMMA Served ==
    ASSUME SegTypeOK, NEW c \in Client, Local(c), Turn(c), Frames(c), NEW r \in Message, Answer(c, r),
           r.session = Request(c).session, UNCHANGED client,
           segdl' = segdl \/ ~segdl'.active \/ segdl'.session = Request(c).session,
           pc[c] # "idle" /\ Request(c).session = sess[c] => Answers(c, r)' /\ Local(c)'
    PROVE  Local(c)' /\ Turn(c)'
<1>1. up[c] \in Seq(Message) /\ up[c] # <<>> /\ down[c] \in Seq(Message)
  BY DEF SegTypeOK, Frames
<1>2. up'[c] = Tail(up[c]) /\ down'[c] = Append(down[c], r)
  BY DEF Answer, SegTypeOK
<1>3. /\ Len(up[c]) \in Nat /\ Len(up[c]) >= 1 /\ Len(up'[c]) = Len(up[c]) - 1
      /\ \A i \in 1..Len(up'[c]) : up'[c][i] = up[c][i + 1] /\ i + 1 \in 1..Len(up[c])
      /\ Request(c) = up[c][1] /\ 1 \in 1..Len(up[c]) /\ up'[c] \in Seq(Message)
  BY <1>1, <1>2, Queue DEF Request
<1>4. /\ Len(down[c]) \in Nat /\ Len(down'[c]) = Len(down[c]) + 1 /\ down'[c][Len(down'[c])] = r
      /\ \A i \in 1..Len(down[c]) : down'[c][i] = down[c][i]
  BY <1>1, <1>2, Queue
<1>5. pc'[c] = pc[c] /\ sess'[c] = sess[c] /\ buf'[c] = buf[c] /\ x'[c] = x[c] /\ total'[c] = total[c]
  BY DEF client
<1>6. /\ \A i, j \in 1..Len(up[c]) : up[c][i].session = up[c][j].session => i = j
      /\ \A i \in 1..Len(up[c]) : WellSent(c, up[c][i])
  BY DEF Turn
<1>7. \A i, j \in 1..Len(up'[c]) : up'[c][i].session = up'[c][j].session => i = j
  <2>. SUFFICES ASSUME NEW i \in 1..Len(up'[c]), NEW j \in 1..Len(up'[c]),
                       up'[c][i].session = up'[c][j].session
                PROVE  i = j
    OBVIOUS
  <2>1. i + 1 = j + 1
    BY <1>3, <1>6
  <2>. QED  BY <2>1
<1>8. \A i \in 1..Len(up'[c]) : WellSent(c, up[c][i])'
  <2>1. ASSUME NEW m, WellSent(c, m), m.session # Request(c).session
        PROVE  WellSent(c, m)'
    <3>1. HoldsDl(c, m.session)' => HoldsDl(c, m.session) /\ segdl' = segdl
      BY <2>1 DEF HoldsDl
    <3>2. segdl' = segdl => \A y : Collects(c, y)' = Collects(c, y)
      BY DEF Collects
    <3>. QED  BY <2>1, <3>1, <3>2 DEF WellSent
  <2>2. \A i \in 1..Len(up'[c]) : WellSent(c, up'[c][i]) /\ up'[c][i].session # Request(c).session
    <3>. SUFFICES ASSUME NEW i \in 1..Len(up'[c])
                  PROVE  WellSent(c, up'[c][i]) /\ up'[c][i].session # Request(c).session
      OBVIOUS
    <3>1. i + 1 # 1 /\ i + 1 \in 1..Len(up[c]) /\ up'[c][i] = up[c][i + 1] /\ 1 \in 1..Len(up[c])
      BY <1>3
    <3>. QED  BY <1>3, <1>6, <3>1
  <2>. QED  BY <2>1, <2>2
<1>9. pc[c] # "idle" => \A i \in 1..Len(down[c]) : down[c][i].session # sess[c]
  BY <1>1 DEF Turn
<1>10. CASE pc[c] # "idle" /\ Request(c).session = sess[c]
  <2>1. Len(up'[c]) = 0 /\ up'[c] = <<>>
    <3>1. Len(up[c]) = 1
      BY <1>1, <1>10, Oldest
    <3>. QED  BY <1>3, <3>1, EmptySeq
  <2>2. \A i \in 1..Len(down'[c]) : down'[c][i].session = sess[c] =>
             i = Len(down'[c]) /\ Answers(c, r)' /\ down'[c][i] = r
    BY <1>4, <1>9, <1>10
  <2>3. \A i \in 1..Len(down'[c]) : down'[c][i].session = sess[c] =>
             i = Len(down'[c]) /\ Answers(c, down[c][i])'
    BY <2>2 DEF Answers
  <2>4. \A i \in 1..Len(up'[c]) : FALSE
    BY <2>1
  <2>. QED  BY <1>5, <1>10, <2>1, <2>3, <2>4 DEF Turn
<1>11. CASE ~(pc[c] # "idle" /\ Request(c).session = sess[c])
  <2>1. pc[c] \notin {"dl_seg", "dl_end", "ul_seg"}
    BY <1>1, <1>11, Oldest
  <2>2. Local(c)'
    BY <1>5, <2>1 DEF Local
  <2>3. \A m : Asks(c, m) => Asks(c, m)'
    BY <1>5, <2>1 DEF Asks
  <2>4. pc[c] # "idle" => \A i \in 1..Len(up'[c]) : up'[c][i].session = sess[c] =>
                             i = Len(up'[c]) /\ Asks(c, up[c][i])'
    <3>. SUFFICES ASSUME pc[c] # "idle", NEW i \in 1..Len(up'[c]), up'[c][i].session = sess[c]
                  PROVE  i = Len(up'[c]) /\ Asks(c, up[c][i])'
      OBVIOUS
    <3>1. i + 1 \in 1..Len(up[c]) /\ up'[c][i] = up[c][i + 1]
      BY <1>3
    <3>2. i + 1 = Len(up[c]) /\ Asks(c, up[c][i + 1])
      BY <3>1 DEF Turn
    <3>3. Asks(c, up'[c][i])
      BY <3>1, <3>2
    <3>. QED  BY <1>3, <2>3, <3>2, <3>3
  <2>5. pc[c] # "idle" => \A i \in 1..Len(down'[c]) : down'[c][i].session # sess[c]
    BY <1>4, <1>9, <1>11
  <2>. QED  BY <1>5, <1>7, <1>8, <2>1, <2>2, <2>4, <2>5 DEF Turn
<1>. QED  BY <1>10, <1>11

-----------------------------------------------------------------------------
(* The steps of a client. *)

LEMMA FrameType ==
    ASSUME NEW cmd \in Command, NEW s \in Nat, NEW k \in Nat, NEW n \in Nat, NEW data \in Seq(Blocks)
    PROVE  /\ Frame(cmd, s, k, n, data) \in Message
           /\ Frame(cmd, s, k, n, data).cmd = cmd /\ Frame(cmd, s, k, n, data).session = s
           /\ Frame(cmd, s, k, n, data).counter = k /\ Frame(cmd, s, k, n, data).total = n
           /\ Frame(cmd, s, k, n, data).data = data
BY DEF Frame, Message

\* A frame without data.
LEMMA EmptyFrame ==
    ASSUME NEW cmd \in Command, NEW s \in Nat, NEW k \in Nat, NEW n \in Nat
    PROVE  /\ Frame(cmd, s, k, n, <<>>) \in Message
           /\ Frame(cmd, s, k, n, <<>>).cmd = cmd /\ Frame(cmd, s, k, n, <<>>).session = s
           /\ Frame(cmd, s, k, n, <<>>).counter = k /\ Frame(cmd, s, k, n, <<>>).total = n
<1>1. <<>> \in Seq(Blocks)
  OBVIOUS
<1>. QED  BY <1>1 DEF Frame, Message

\* The answer that client c takes.
LEMMA Replied ==
    ASSUME SegTypeOK, NEW c \in Client, Turn(c), HasReply(c)
    PROVE  /\ Reply(c) \in Message /\ Reply(c).session = sess[c] /\ Answers(c, Reply(c))
           /\ up[c] = <<>> /\ Tail(down[c]) = <<>> /\ Tail(down[c]) \in Seq(Message)
<1>1. down[c] \in Seq(Message) /\ down[c] # <<>> /\ pc[c] # "idle" /\ Reply(c).session = sess[c]
  BY DEF SegTypeOK, HasReply, Reply
<1>2. /\ Reply(c) \in Message /\ Reply(c) = down[c][1] /\ 1 \in 1..Len(down[c]) /\ Len(down[c]) \in Nat
      /\ Tail(down[c]) \in Seq(Message) /\ Len(Tail(down[c])) = Len(down[c]) - 1
  BY <1>1, Queue DEF Reply
<1>3. 1 = Len(down[c]) /\ up[c] = <<>> /\ Answers(c, Reply(c))
  BY <1>1, <1>2 DEF Turn
<1>4. Tail(down[c]) = <<>>
  BY <1>2, <1>3, Queue
<1>. QED  BY <1>1, <1>2, <1>3, <1>4

\* A request that starts a transfer, under a session number of no frame in transit.
LEMMA FirstSent ==
    ASSUME SegTypeOK, NEW c \in Client, Turn(c), NEW m \in Message, NoLapped(c, m.session),
           up'[c] = Append(up[c], m), down'[c] = down[c], UNCHANGED segdl, WellSent(c, m),
           pc'[c] \in {"dl_req", "dl_init", "ul_req"}, sess'[c] = m.session, Asks(c, m)'
    PROVE  Turn(c)'
<1>1. up[c] \in Seq(Message) /\ down[c] \in Seq(Message)
  BY DEF SegTypeOK
<1>2. /\ Len(up[c]) \in Nat /\ Len(up'[c]) = Len(up[c]) + 1 /\ up'[c][Len(up'[c])] = m
      /\ \A i \in 1..Len(up[c]) : up'[c][i] = up[c][i]
  BY <1>1, Queue
<1>3. /\ \A i \in 1..Len(up[c]) : up[c][i].session # m.session
      /\ \A i \in 1..Len(down[c]) : down[c][i].session # m.session
  BY DEF NoLapped
<1>4. /\ \A i, j \in 1..Len(up[c]) : up[c][i].session = up[c][j].session => i = j
      /\ \A i \in 1..Len(up[c]) : WellSent(c, up[c][i])
  BY DEF Turn
<1>5. \A i \in 1..Len(up'[c]) : i = Len(up'[c]) \/ i \in 1..Len(up[c])
  BY <1>2
<1>6. \A i, j \in 1..Len(up'[c]) : up'[c][i].session = up'[c][j].session => i = j
  BY <1>2, <1>3, <1>4, <1>5
<1>7. \A n : WellSent(c, n) => WellSent(c, n)'
  BY DEF WellSent, HoldsDl, Collects
<1>8. \A i \in 1..Len(up'[c]) : WellSent(c, up'[c][i])
  BY <1>2, <1>4, <1>5
<1>9. \A i \in 1..Len(up'[c]) : up'[c][i].session = m.session => i = Len(up'[c]) /\ up'[c][i] = m
  BY <1>2, <1>3, <1>5
<1>. QED  BY <1>3, <1>6, <1>7, <1>8, <1>9 DEF Turn

\* A request that goes on with one.
LEMMA NextSent ==
    ASSUME SegTypeOK, NEW c \in Client, Turn(c), HasReply(c), NEW m \in Message, m.session = sess[c],
           up'[c] = Append(up[c], m), down'[c] = Tail(down[c]), UNCHANGED segdl, WellSent(c, m),
           sess'[c] = sess[c], Asks(c, m)'
    PROVE  Turn(c)'
<1>1. up[c] = <<>> /\ down'[c] = <<>>
  BY Replied
<1>2. Len(up'[c]) = 1 /\ up'[c][1] = m
  <2>1. up[c] \in Seq(Message) /\ Len(up[c]) = 0
    BY <1>1 DEF SegTypeOK
  <2>. QED  BY <2>1, Queue
<1>3. WellSent(c, m)'
  BY DEF WellSent, HoldsDl, Collects
<1>4. Len(down'[c]) = 0
  BY <1>1, EmptySeq
<1>5. \A i \in 1..Len(up'[c]) : i = 1
  <2>1. \A i \in 1..1 : i = 1
    OBVIOUS
  <2>. QED  BY <1>2, <2>1, Zenon
<1>6. \A i \in 1..Len(down'[c]) : FALSE
  <2>1. \A i \in 1..0 : FALSE
    OBVIOUS
  <2>. QED  BY <1>4, <2>1, Zenon
<1>. QED  BY <1>2, <1>3, <1>5, <1>6 DEF Turn

LEMMA StartWriteStep ==
    ASSUME SegTypeOK, NEW c \in Client, Local(c), Turn(c), NEW y \in Content, StartWrite(c, y)
    PROVE  SegTypeOK' /\ Local(c)' /\ Turn(c)'
<1>1. PICK s : s = NextSession(sess[c])
  OBVIOUS
<1>2. s \in Nat
  BY <1>1, SegConstants DEF NextSession, SegTypeOK
<1>3. PICK m, p : /\ m = IF y \in Long THEN Frame("DL_INIT", s, 0, Size[y], <<>>)
                                       ELSE Frame("DL_REQ", s, 0, 0, Body(c, y))
                  /\ p = IF y \in Long THEN "dl_init" ELSE "dl_req"
  OBVIOUS
<1>4. /\ m \in Message /\ m.session = s
      /\ y \in Long => m.cmd = "DL_INIT" /\ m.total = Size[y]
      /\ y \notin Long => m.cmd = "DL_REQ" /\ m.data = Body(c, y)
  <2>1. "DL_INIT" \in Command /\ "DL_REQ" \in Command /\ 0 \in Nat
    BY DEF Command
  <2>2. CASE y \in Long
    <3>1. Size[y] \in Nat
      BY BodyType
    <3>. QED  BY <1>2, <1>3, <2>1, <2>2, <3>1, EmptyFrame
  <2>3. CASE y \notin Long
    BY <1>2, <1>3, <2>1, <2>3, FrameType, BodyType
  <2>. QED  BY <2>2, <2>3
<1>5. /\ up' = [up EXCEPT ![c] = Append(@, m)] /\ pc' = [pc EXCEPT ![c] = p]
      /\ sess' = [sess EXCEPT ![c] = s] /\ x' = [x EXCEPT ![c] = y]
      /\ UNCHANGED <<server, buf, total, down, done, ans, cut>> /\ NoLapped(c, s)
      /\ pc[c] = "idle" /\ Size[y] <= BodyMax
  BY <1>1, <1>3 DEF StartWrite, Send, Await
<1>6. SegTypeOK'
  <2>1. p \in Phase
    BY <1>3 DEF Phase
  <2>2. Append(up[c], m) \in Seq(Message)
    BY <1>4 DEF SegTypeOK
  <2>. QED  BY <1>2, <1>5, <2>1, <2>2 DEF SegTypeOK, server
<1>7. /\ pc'[c] = p /\ sess'[c] = s /\ x'[c] = y /\ buf'[c] = buf[c] /\ UNCHANGED <<segdl, segul>>
      /\ up'[c] = Append(up[c], m) /\ down'[c] = down[c]
  BY <1>5 DEF SegTypeOK, server
<1>8. Local(c)'
  BY <1>3, <1>5, <1>7 DEF Local, Sending
<1>9. WellSent(c, m)
  BY <1>4 DEF WellSent, Bodies
<1>10. Asks(c, m)'
  BY <1>3, <1>4, <1>7 DEF Asks
<1>11. p \in {"dl_req", "dl_init", "ul_req"}
  BY <1>3
<1>12. Turn(c)'
  BY <1>4, <1>5, <1>7, <1>9, <1>10, <1>11, FirstSent
<1>. QED  BY <1>6, <1>8, <1>12

LEMMA StartReadStep ==
    ASSUME SegTypeOK, NEW c \in Client, Local(c), Turn(c), StartRead(c)
    PROVE  SegTypeOK' /\ Local(c)' /\ Turn(c)'
<1>1. PICK s : s = NextSession(sess[c])
  OBVIOUS
<1>2. s \in Nat
  BY <1>1, SegConstants DEF NextSession, SegTypeOK
<1>3. PICK m : m = Frame("UL_REQ", s, 0, 0, <<>>)
  OBVIOUS
<1>4. m \in Message /\ m.session = s /\ m.cmd = "UL_REQ"
  <2>1. "UL_REQ" \in Command /\ 0 \in Nat
    BY DEF Command
  <2>. QED  BY <1>2, <1>3, <2>1, EmptyFrame
<1>5. /\ up' = [up EXCEPT ![c] = Append(@, m)] /\ pc' = [pc EXCEPT ![c] = "ul_req"]
      /\ sess' = [sess EXCEPT ![c] = s]
      /\ UNCHANGED <<server, x, buf, total, down, done, ans, cut>> /\ NoLapped(c, s) /\ pc[c] = "idle"
  BY <1>1, <1>3 DEF StartRead, Send, Await
<1>6. SegTypeOK'
  <2>1. "ul_req" \in Phase
    BY DEF Phase
  <2>2. Append(up[c], m) \in Seq(Message)
    BY <1>4 DEF SegTypeOK
  <2>. QED  BY <1>2, <1>5, <2>1, <2>2 DEF SegTypeOK, server
<1>7. /\ pc'[c] = "ul_req" /\ sess'[c] = s /\ buf'[c] = buf[c] /\ UNCHANGED <<segdl, segul>>
      /\ up'[c] = Append(up[c], m) /\ down'[c] = down[c]
  BY <1>5 DEF SegTypeOK, server
<1>8. Local(c)'
  BY <1>5, <1>7 DEF Local, Sending
<1>9. WellSent(c, m)
  BY <1>4 DEF WellSent
<1>10. Asks(c, m)'
  BY <1>4, <1>7 DEF Asks
<1>11. Turn(c)'
  BY <1>4, <1>5, <1>7, <1>9, <1>10, FirstSent
<1>. QED  BY <1>6, <1>8, <1>11

LEMMA NextSegmentStep ==
    ASSUME SegTypeOK, NEW c \in Client, Local(c), Turn(c), NextSegment(c)
    PROVE  SegTypeOK' /\ Local(c)' /\ Turn(c)'
<1>1. HasReply(c) /\ pc[c] \in {"dl_init", "dl_seg"} /\ Acceptable(c)
  BY DEF NextSegment
<1>2. PICK y : y = x[c]
  OBVIOUS
<1>3. y \in Content /\ Size[y] <= BodyMax /\ Size[y] \in Nat /\ Size[y] >= 1
  BY <1>1, <1>2, BodyType DEF Local, Sending
<1>4. PICK sent : sent = IF pc[c] = "dl_seg"
                         THEN Append(buf[c], Body(c, y)[Len(buf[c]) + 1]) ELSE <<>>
  OBVIOUS
<1>5. PICK n : n = Len(sent)
  OBVIOUS
<1>6. /\ sent \in Seq(Blocks) /\ n \in Nat /\ n < Size[y]
      /\ pc[c] = "dl_seg" => n = Len(buf[c]) + 1
      /\ pc[c] = "dl_init" => n = 0
  <2>1. CASE pc[c] = "dl_seg"
    <3>1. buf[c] \in Seq(Blocks) /\ Len(buf[c]) \in Nat /\ Len(buf[c]) + 1 < Size[y]
      BY <1>2, <2>1 DEF SegTypeOK, Local
    <3>2. Body(c, y)[Len(buf[c]) + 1] \in Blocks
      BY <1>3, <3>1, BodyType
    <3>. QED  BY <1>3, <1>4, <1>5, <2>1, <3>1, <3>2, Queue
  <2>2. CASE pc[c] = "dl_init"
    <3>1. sent = <<>> /\ <<>> \in Seq(Blocks)
      BY <1>4, <2>2
    <3>. QED  BY <1>3, <1>5, <2>2, <3>1
  <2>. QED  BY <1>1, <2>1, <2>2
<1>7. PICK p, m : /\ p = IF Size[y] - n = 1 THEN "dl_end" ELSE "dl_seg"
                  /\ m = Frame(IF Size[y] - n = 1 THEN "DL_END" ELSE "DL_SEG", sess[c], n, 0,
                               <<Body(c, y)[n + 1]>>)
  OBVIOUS
<1>8. Body(c, y)[n + 1] = Block(c, y, n + 1) /\ <<Block(c, y, n + 1)>> \in Seq(Blocks)
  BY <1>3, <1>6, BodyType
<1>9. /\ m \in Message /\ m.session = sess[c] /\ m.counter = n /\ m.data = <<Block(c, y, n + 1)>>
      /\ m.cmd = IF p = "dl_seg" THEN "DL_SEG" ELSE "DL_END"
  <2>1. {"DL_END", "DL_SEG"} \subseteq Command /\ 0 \in Nat /\ sess[c] \in Nat
    BY DEF Command, SegTypeOK
  <2>2. PICK cmd, data : /\ cmd = IF Size[y] - n = 1 THEN "DL_END" ELSE "DL_SEG"
                         /\ data = <<Block(c, y, n + 1)>>
    OBVIOUS
  <2>3. m = Frame(cmd, sess[c], n, 0, data) /\ cmd \in Command /\ data \in Seq(Blocks)
    BY <1>7, <1>8, <2>1, <2>2
  <2>4. cmd = IF p = "dl_seg" THEN "DL_SEG" ELSE "DL_END"
    BY <1>7, <2>2
  <2>5. /\ m \in Message /\ m.session = sess[c] /\ m.counter = n /\ m.data = data /\ m.cmd = cmd
    BY <1>6, <2>1, <2>3 DEF Frame, Message
  <2>. QED  BY <2>2, <2>4, <2>5
<1>10. /\ down' = [down EXCEPT ![c] = Tail(@)] /\ buf' = [buf EXCEPT ![c] = sent]
       /\ up' = [up EXCEPT ![c] = Append(@, m)] /\ pc' = [pc EXCEPT ![c] = p]
       /\ UNCHANGED <<server, sess, x, total, done, ans, cut>>
  BY <1>2, <1>4, <1>5, <1>7 DEF NextSegment, Consume, Send, Await
<1>11. /\ Answers(c, Reply(c)) /\ Tail(down[c]) \in Seq(Message)
  BY <1>1, Replied
<1>12. /\ pc'[c] = p /\ sess'[c] = sess[c] /\ x'[c] = y /\ buf'[c] = sent /\ UNCHANGED <<segdl, segul>>
       /\ up'[c] = Append(up[c], m) /\ down'[c] = Tail(down[c]) /\ cut'[c] = cut[c]
  BY <1>2, <1>10 DEF SegTypeOK, server
<1>13. /\ HoldsDl(c, sess[c]) => Collects(c, y)
       /\ ~cut[c] => HoldsDl(c, sess[c]) /\ Len(segdl.buf) = n
  <2>1. CASE pc[c] = "dl_init"
    <3>1. Reply(c).cmd = "DL_INIT_RESP"
      BY <1>1, <2>1 DEF Acceptable
    <3>. QED  BY <1>2, <1>6, <1>11, <2>1, <3>1 DEF Answers
  <2>2. CASE pc[c] = "dl_seg"
    <3>1. Reply(c).cmd = "DL_SEG_RESP"
      BY <1>1, <2>2 DEF Acceptable
    <3>. QED  BY <1>2, <1>6, <1>11, <2>2, <3>1 DEF Answers, Local
  <2>. QED  BY <1>1, <2>1, <2>2
<1>14. p \in {"dl_seg", "dl_end"}
  BY <1>7
<1>15. SegTypeOK'
  <2>1. p \in Phase
    BY <1>14 DEF Phase
  <2>2. Append(up[c], m) \in Seq(Message)
    BY <1>9 DEF SegTypeOK
  <2>. QED  BY <1>6, <1>10, <1>11, <2>1, <2>2 DEF SegTypeOK, server
<1>16. (HoldsDl(c, sess[c]) => Collects(c, x[c]))' /\ (~cut[c] => HoldsDl(c, sess[c]) /\ Len(segdl.buf) = n)'
  BY <1>12, <1>13 DEF HoldsDl, Collects
<1>17. Local(c)'
  <2>1. p = "dl_seg" => n + 1 < Size[y]
    BY <1>3, <1>6, <1>7
  <2>2. p = "dl_end" => n + 1 = Size[y]
    BY <1>3, <1>6, <1>7
  <2>. QED  BY <1>3, <1>5, <1>12, <1>14, <1>16, <2>1, <2>2 DEF Local
<1>18. WellSent(c, m)
  <2>1. m.cmd = "DL_END" => n + 1 = Size[y]
    BY <1>3, <1>6, <1>7, <1>9
  <2>. QED  BY <1>3, <1>9, <1>13, <2>1 DEF WellSent
<1>19. Asks(c, m)'
  BY <1>5, <1>9, <1>12, <1>14, <1>16 DEF Asks
<1>20. Turn(c)'
  BY <1>1, <1>9, <1>12, <1>18, <1>19, NextSent
<1>. QED  BY <1>15, <1>17, <1>20

LEMMA PullSegmentStep ==
    ASSUME SegTypeOK, NEW c \in Client, Local(c), Turn(c), PullSegment(c)
    PROVE  SegTypeOK' /\ Local(c)' /\ Turn(c)'
<1>1. HasReply(c) /\ pc[c] \in {"ul_req", "dl_req", "ul_seg"} /\ Acceptable(c)
  BY DEF PullSegment, Reading
<1>2. PICK r : r = Reply(c)
  OBVIOUS
<1>3. /\ Answers(c, r) /\ r \in Message /\ up[c] = <<>> /\ Tail(down[c]) \in Seq(Message)
  BY <1>1, <1>2, Replied
<1>4. PICK got : got = IF pc[c] = "ul_seg" THEN buf[c] \o r.data ELSE <<>>
  OBVIOUS
<1>5. /\ pc[c] = "ul_seg" => r.cmd = "UL_SEG_RESP"
      /\ pc[c] # "ul_seg" => r.cmd = "UL_INIT_RESP"
  <2>1. r.cmd \in {"UL_INIT_RESP", "UL_SEG_RESP"}
    BY <1>2 DEF PullSegment
  <2>. QED  BY <1>1, <1>2, <2>1 DEF Acceptable
<1>6. PICK t : t = IF pc[c] = "ul_seg" THEN total[c] ELSE r.total
  OBVIOUS
<1>7. /\ got \in Seq(Blocks) /\ Len(got) \in Nat /\ ans[c] \in Content /\ t = Size[ans[c]] /\ t \in Nat
      /\ \A i \in 1..Len(got) : got[i] = Block(c, ans[c], i)
      /\ HoldsUl(c, sess[c]) => segul.body = Body(c, ans[c])
      /\ ~cut[c] => HoldsUl(c, sess[c]) /\ segul.counter = Len(got)
  <2>1. CASE pc[c] = "ul_seg"
    <3>1. /\ buf[c] \in Seq(Blocks) /\ ans[c] \in Content /\ t = Size[ans[c]]
          /\ \A i \in 1..Len(buf[c]) : buf[c][i] = Block(c, ans[c], i)
          /\ HoldsUl(c, sess[c]) => segul.body = Body(c, ans[c])
      BY <1>6, <2>1 DEF SegTypeOK, Local
    <3>2. /\ r.data = <<Block(c, ans[c], Len(buf[c]) + 1)>>
          /\ ~cut[c] => HoldsUl(c, sess[c]) /\ segul.counter = Len(buf[c]) + 1
      BY <1>3, <1>5, <2>1 DEF Answers
    <3>3. got = buf[c] \o <<Block(c, ans[c], Len(buf[c]) + 1)>>
      BY <1>4, <2>1, <3>2
    <3>4. /\ got \in Seq(Blocks) /\ Len(got) = Len(buf[c]) + 1
          /\ \A i \in 1..Len(got) : got[i] = Block(c, ans[c], i)
      BY <3>1, <3>3, OneMore
    <3>. QED  BY <3>1, <3>2, <3>4, BodyType
  <2>2. CASE pc[c] # "ul_seg"
    <3>1. /\ ans[c] \in Content /\ r.total = Size[ans[c]]
          /\ HoldsUl(c, sess[c]) => segul.body = Body(c, ans[c])
          /\ ~cut[c] => HoldsUl(c, sess[c]) /\ segul.counter = 0
      BY <1>1, <1>3, <1>5, <2>2 DEF Answers
    <3>2. got = <<>> /\ got \in Seq(Blocks) /\ Len(got) = 0
      BY <1>4, <2>2, EmptySeq
    <3>3. \A i \in 1..Len(got) : got[i] = Block(c, ans[c], i)
      BY <3>2
    <3>. QED  BY <1>6, <2>2, <3>1, <3>2, <3>3, BodyType
  <2>. QED  BY <2>1, <2>2
<1>8. PICK m : m = Frame("UL_SEG", sess[c], Len(got), 0, <<>>)
  OBVIOUS
<1>9. m \in Message /\ m.session = sess[c] /\ m.cmd = "UL_SEG" /\ m.counter = Len(got)
  <2>1. "UL_SEG" \in Command /\ 0 \in Nat /\ sess[c] \in Nat
    BY DEF Command, SegTypeOK
  <2>. QED  BY <1>7, <1>8, <2>1, EmptyFrame
<1>10. /\ down' = [down EXCEPT ![c] = Tail(@)] /\ buf' = [buf EXCEPT ![c] = got]
       /\ up' = [up EXCEPT ![c] = Append(@, m)] /\ pc' = [pc EXCEPT ![c] = "ul_seg"]
       /\ x' = [x EXCEPT ![c] = None] /\ UNCHANGED <<server, sess, done, ans, cut>>
  BY <1>2, <1>4, <1>8 DEF PullSegment, Consume, Send, Await
<1>11. total' = [total EXCEPT ![c] = t]
  <2>1. CASE pc[c] = "ul_seg"
    BY <1>2, <1>5, <1>6, <2>1 DEF PullSegment, SegTypeOK
  <2>2. CASE pc[c] # "ul_seg"
    BY <1>2, <1>5, <1>6, <2>2 DEF PullSegment
  <2>. QED  BY <2>1, <2>2
<1>12. /\ pc'[c] = "ul_seg" /\ sess'[c] = sess[c] /\ buf'[c] = got /\ total'[c] = t /\ ans'[c] = ans[c]
       /\ up'[c] = Append(up[c], m) /\ down'[c] = Tail(down[c]) /\ cut'[c] = cut[c]
       /\ UNCHANGED <<segdl, segul>>
  BY <1>10, <1>11 DEF SegTypeOK, server
<1>13. SegTypeOK'
  <2>1. "ul_seg" \in Phase
    BY DEF Phase
  <2>2. Append(up[c], m) \in Seq(Message)
    BY <1>9 DEF SegTypeOK
  <2>. QED  BY <1>3, <1>7, <1>10, <1>11, <2>1, <2>2 DEF SegTypeOK, server
<1>14. Local(c)'
  BY <1>7, <1>12 DEF Local, Sending, HoldsUl
<1>15. WellSent(c, m)
  BY <1>9 DEF WellSent
<1>16. Asks(c, m)'
  BY <1>7, <1>9, <1>12 DEF Asks, HoldsUl
<1>17. Turn(c)'
  BY <1>1, <1>9, <1>12, <1>15, <1>16, NextSent
<1>. QED  BY <1>13, <1>14, <1>17

\* A transfer ends, well or not.
LEMMA FinishStep ==
    ASSUME SegTypeOK, NEW c \in Client, Turn(c), Finish(c), UNCHANGED <<server, up>>,
           NEW q \in Seq(Message), down' = [down EXCEPT ![c] = q]
    PROVE  SegTypeOK' /\ Local(c)' /\ Turn(c)'
<1>1. SegTypeOK'
  <2>1. "idle" \in Phase /\ <<>> \in Seq(Blocks)
    BY DEF Phase
  <2>. QED  BY <2>1 DEF SegTypeOK, Finish, server
<1>2. pc'[c] = "idle" /\ buf'[c] = <<>> /\ up' = up /\ segdl' = segdl
  BY DEF SegTypeOK, Finish, server
<1>3. \A m : WellSent(c, m) => WellSent(c, m)'
  BY <1>2 DEF WellSent, HoldsDl, Collects
<1>. QED  BY <1>1, <1>2, <1>3 DEF Local, Turn, Sending

LEMMA DropStaleStep ==
    ASSUME SegTypeOK, NEW c \in Client, Local(c), Turn(c), DropStale(c)
    PROVE  SegTypeOK' /\ Local(c)' /\ Turn(c)'
<1>1. /\ down[c] \in Seq(Message) /\ down[c] # <<>> /\ down' = [down EXCEPT ![c] = Tail(@)]
      /\ UNCHANGED <<segdl, segul, pc, sess, x, buf, total, up, done, ans, cut>>
  BY DEF SegTypeOK, DropStale, Consume, server, client
<1>2. /\ Tail(down[c]) \in Seq(Message) /\ Len(down[c]) \in Nat /\ down'[c] = Tail(down[c])
      /\ Len(down'[c]) = Len(down[c]) - 1
      /\ \A i \in 1..Len(down'[c]) : down'[c][i] = down[c][i + 1] /\ i + 1 \in 1..Len(down[c])
  <2>1. down'[c] = Tail(down[c])
    BY <1>1 DEF SegTypeOK
  <2>2. /\ Tail(down[c]) \in Seq(Message) /\ Len(down[c]) \in Nat
        /\ Len(Tail(down[c])) = Len(down[c]) - 1
        /\ \A i \in 1..Len(Tail(down[c])) : Tail(down[c])[i] = down[c][i + 1]
    BY <1>1, Queue
  <2>. QED  BY <2>1, <2>2
<1>3. SegTypeOK'
  BY <1>1, <1>2 DEF SegTypeOK
<1>4. Local(c)'
  BY <1>1 DEF Local, HoldsDl, HoldsUl, Collects
<1>5. \A m : /\ WellSent(c, m)' = WellSent(c, m) /\ Asks(c, m)' = Asks(c, m)
             /\ Answers(c, m)' = Answers(c, m)
  BY <1>1 DEF WellSent, Asks, Answers, HoldsDl, HoldsUl, Collects
<1>6. pc[c] # "idle" => \A i \in 1..Len(down'[c]) : down'[c][i].session = sess[c] =>
             i = Len(down'[c]) /\ up[c] = <<>> /\ Answers(c, down'[c][i])
  <2>. SUFFICES ASSUME pc[c] # "idle", NEW i \in 1..Len(down'[c]), down'[c][i].session = sess[c]
                PROVE  i = Len(down'[c]) /\ up[c] = <<>> /\ Answers(c, down'[c][i])
    OBVIOUS
  <2>1. i + 1 \in 1..Len(down[c]) /\ down'[c][i] = down[c][i + 1]
    BY <1>2
  <2>2. i + 1 = Len(down[c]) /\ up[c] = <<>> /\ Answers(c, down[c][i + 1])
    BY <2>1 DEF Turn
  <2>. QED  BY <1>2, <2>1, <2>2
<1>. QED  BY <1>1, <1>3, <1>4, <1>5, <1>6 DEF Turn

LEMMA LoseStep ==
    ASSUME SegTypeOK, NEW c \in Client, Local(c), Turn(c), Lose(c)
    PROVE  SegTypeOK' /\ Local(c)' /\ Turn(c)'
<1>1. /\ up[c] \in Seq(Message) /\ up[c] # <<>> /\ up' = [up EXCEPT ![c] = Tail(@)]
      /\ UNCHANGED <<segdl, segul, pc, sess, x, buf, total, down, done, ans, cut>>
  BY DEF SegTypeOK, Lose, server, client
<1>2. /\ Tail(up[c]) \in Seq(Message) /\ Len(up[c]) \in Nat
      /\ Len(up'[c]) = Len(up[c]) - 1
      /\ \A i \in 1..Len(up'[c]) : up'[c][i] = up[c][i + 1] /\ i + 1 \in 1..Len(up[c])
  <2>1. up'[c] = Tail(up[c])
    BY <1>1 DEF SegTypeOK
  <2>2. /\ Tail(up[c]) \in Seq(Message) /\ Len(up[c]) \in Nat
        /\ Len(Tail(up[c])) = Len(up[c]) - 1
        /\ \A i \in 1..Len(Tail(up[c])) : Tail(up[c])[i] = up[c][i + 1]
    BY <1>1, Queue
  <2>. QED  BY <2>1, <2>2
<1>3. SegTypeOK'
  BY <1>1, <1>2 DEF SegTypeOK
<1>4. Local(c)'
  BY <1>1 DEF Local, HoldsDl, HoldsUl, Collects
<1>5. \A m : WellSent(c, m)' = WellSent(c, m) /\ Asks(c, m)' = Asks(c, m)
  BY <1>1 DEF WellSent, Asks, HoldsDl, HoldsUl, Collects
<1>6. \A i, j \in 1..Len(up'[c]) : up'[c][i].session = up'[c][j].session => i = j
  <2>. SUFFICES ASSUME NEW i \in 1..Len(up'[c]), NEW j \in 1..Len(up'[c]),
                       up'[c][i].session = up'[c][j].session
                PROVE  i = j
    OBVIOUS
  <2>1. \A k, l \in 1..Len(up[c]) : up[c][k].session = up[c][l].session => k = l
    BY DEF Turn
  <2>2. /\ i + 1 \in 1..Len(up[c]) /\ j + 1 \in 1..Len(up[c])
        /\ up[c][i + 1].session = up[c][j + 1].session
    BY <1>2
  <2>3. i + 1 = j + 1
    BY <2>1, <2>2
  <2>. QED  BY <2>3
<1>7. ASSUME NEW i \in 1..Len(up'[c])
      PROVE  /\ WellSent(c, up'[c][i])
             /\ pc[c] # "idle" /\ up'[c][i].session = sess[c] => i = Len(up'[c]) /\ Asks(c, up'[c][i])
             /\ pc[c] \in {"dl_seg", "dl_end", "ul_seg"} => up'[c][i].session = sess[c]
  <2>1. i + 1 \in 1..Len(up[c]) /\ up'[c][i] = up[c][i + 1]
    BY <1>2, <1>7
  <2>2. /\ WellSent(c, up[c][i + 1])
        /\ pc[c] # "idle" /\ up[c][i + 1].session = sess[c] => i + 1 = Len(up[c]) /\ Asks(c, up[c][i + 1])
        /\ pc[c] \in {"dl_seg", "dl_end", "ul_seg"} => up[c][i + 1].session = sess[c]
    BY <2>1 DEF Turn
  <2>. QED  BY <1>2, <1>7, <2>1, <2>2
<1>8. pc[c] # "idle" => \A i \in 1..Len(down[c]) : down[c][i].session # sess[c]
  BY <1>1 DEF Turn
<1>. QED  BY <1>1, <1>3, <1>4, <1>5, <1>6, <1>7, <1>8 DEF Turn

\* What a client does leaves the other clients and the slots alone.
LEMMA ClientApart ==
    ASSUME SegTypeOK, NEW c \in Client, ClientStep(c) \/ Lose(c), NEW d \in Client \ {c}
    PROVE  Still(d) /\ Apart(d)
<1>. USE DEF Still, Apart, SegTypeOK, server, client
<1>1. CASE \E y \in Content : StartWrite(c, y)
  BY <1>1 DEF StartWrite, Send, Await
<1>2. CASE StartRead(c)
  BY <1>2 DEF StartRead, Send, Await
<1>3. CASE NextSegment(c)
  BY <1>3 DEF NextSegment, Consume, Send, Await
<1>4. CASE PullSegment(c)
  BY <1>4 DEF PullSegment, Consume, Send, Await
<1>5. CASE Complete(c)
  BY <1>5 DEF Complete, Consume, Finish
<1>6. CASE Fail(c)
  BY <1>6 DEF Fail, Consume, Finish
<1>7. CASE Timeout(c)
  BY <1>7 DEF Timeout, Finish
<1>8. CASE DropStale(c)
  BY <1>8 DEF DropStale, Consume
<1>9. CASE Lose(c)
  BY <1>9 DEF Lose
<1>. QED  BY <1>1, <1>2, <1>3, <1>4, <1>5, <1>6, <1>7, <1>8, <1>9 DEF ClientStep

LEMMA ClientKept ==
    ASSUME SegTypeOK, SegInv, NEW c \in Client, ClientStep(c) \/ Lose(c)
    PROVE  SegTypeOK' /\ SegInv'
<1>1. Local(c) /\ Turn(c)
  BY DEF SegInv
<1>2. down[c] \in Seq(Message) /\ down = [down EXCEPT ![c] = @]
  BY DEF SegTypeOK
<1>3. SegTypeOK' /\ Local(c)' /\ Turn(c)'
  <2>1. CASE \E y \in Content : StartWrite(c, y)
    BY <1>1, <2>1, StartWriteStep
  <2>2. CASE StartRead(c)
    BY <1>1, <2>2, StartReadStep
  <2>3. CASE NextSegment(c)
    BY <1>1, <2>3, NextSegmentStep
  <2>4. CASE PullSegment(c)
    BY <1>1, <2>4, PullSegmentStep
  <2>5. CASE Complete(c)
    <3>1. HasReply(c) /\ Finish(c) /\ UNCHANGED <<server, up>> /\ down' = [down EXCEPT ![c] = Tail(@)]
      BY <2>5 DEF Complete, Consume
    <3>. QED  BY <1>1, <3>1, Replied, FinishStep
  <2>6. CASE Fail(c)
    <3>1. HasReply(c) /\ Finish(c) /\ UNCHANGED <<server, up>> /\ down' = [down EXCEPT ![c] = Tail(@)]
      BY <2>6 DEF Fail, Consume
    <3>. QED  BY <1>1, <3>1, Replied, FinishStep
  <2>7. CASE Timeout(c)
    <3>1. Finish(c) /\ UNCHANGED <<server, up>> /\ down' = [down EXCEPT ![c] = down[c]]
      BY <1>2, <2>7 DEF Timeout
    <3>. QED  BY <1>1, <1>2, <3>1, FinishStep
  <2>8. CASE DropStale(c)
    BY <1>1, <2>8, DropStaleStep
  <2>9. CASE Lose(c)
    BY <1>1, <2>9, LoseStep
  <2>. QED  BY <2>1, <2>2, <2>3, <2>4, <2>5, <2>6, <2>7, <2>8, <2>9 DEF ClientStep
<1>4. ASSUME NEW d \in Client \ {c}
      PROVE  Local(d)' /\ Turn(d)'
  <2>1. Local(d) /\ Turn(d) /\ Still(d) /\ Apart(d)
    BY ClientApart DEF SegInv
  <2>. QED  BY <2>1, OtherKept
<1>. QED  BY <1>3, <1>4 DEF SegInv

-----------------------------------------------------------------------------
(* The steps of the server. *)

\* When server_seg_abort is not called.
LEMMA FaultFree ==
    ASSUME NEW c, NEW m
    PROVE  /\ m.cmd = "DL_INIT" => (SegFault(c, m) = "NONE" <=> ~(m.total > BodyMax))
           /\ m.cmd = "DL_SEG" =>
                 (SegFault(c, m) = "NONE" <=>
                    /\ DownloadMatches(c, m) /\ m.counter = segdl.counter
                    /\ ~(Len(segdl.buf) + Len(m.data) > segdl.total))
           /\ m.cmd = "DL_END" =>
                 (SegFault(c, m) = "NONE" <=>
                    /\ DownloadMatches(c, m)
                    /\ ~(Len(segdl.buf) + Len(m.data) > segdl.total)
                    /\ Len(segdl.buf) + Len(m.data) = segdl.total)
           /\ m.cmd = "UL_SEG" =>
                 (SegFault(c, m) = "NONE" <=> UploadMatches(c, m) /\ m.counter = segul.counter)
           /\ m.cmd \notin {"DL_INIT", "DL_SEG", "DL_END", "UL_SEG"} => SegFault(c, m) = "NONE"
BY DEF SegFault

\* The queues after an answer.
LEMMA AnswerType ==
    ASSUME SegTypeOK, NEW c \in Client, Frames(c), NEW r \in Message, Answer(c, r)
    PROVE  /\ up' \in [Client -> Seq(Message)] /\ down' \in [Client -> Seq(Message)]
           /\ \A d \in Client \ {c} : up'[d] = up[d] /\ down'[d] = down[d]
<1>1. up[c] \in Seq(Message) /\ up[c] # <<>> /\ down[c] \in Seq(Message)
  BY DEF SegTypeOK, Frames
<1>2. Tail(up[c]) \in Seq(Message) /\ Append(down[c], r) \in Seq(Message)
  BY <1>1, Queue
<1>. QED  BY <1>2 DEF Answer, SegTypeOK

\* Every client but c goes on, c has its answer.
LEMMA ServerKept ==
    ASSUME SegTypeOK, SegInv, NEW c \in Client, Frames(c), NEW r \in Message, Answer(c, r),
           r.session = Request(c).session, UNCHANGED client,
           segdl' = segdl \/ ~segdl'.active \/ segdl'.session = Request(c).session,
           pc[c] # "idle" /\ Request(c).session = sess[c] => Answers(c, r)' /\ Local(c)',
           \A d \in Client \ {c} : done'[d] = done[d] /\ ans'[d] = ans[d] /\ Apart(d)
    PROVE  SegInv'
<1>1. Local(c)' /\ Turn(c)'
  BY Served DEF SegInv
<1>2. ASSUME NEW d \in Client \ {c}
      PROVE  Local(d)' /\ Turn(d)'
  <2>1. Local(d) /\ Turn(d)
    BY DEF SegInv
  <2>2. Still(d)
    BY AnswerType DEF Still, client
  <2>. QED  BY <2>1, <2>2, OtherKept
<1>. QED  BY <1>1, <1>2 DEF SegInv

LEMMA ServerAbortStep ==
    ASSUME SegTypeOK, SegInv, NEW c \in Client, ServerAbort(c)
    PROVE  SegTypeOK' /\ SegInv'
<1>1. Frames(c) /\ Local(c) /\ Turn(c) /\ Request(c) \in Message
  <2>1. up[c] # <<>> /\ Frames(c) /\ Turn(c) /\ Local(c)
    BY DEF ServerAbort, Frames, SegInv
  <2>. QED  BY <2>1, Oldest
<1>2. PICK r : r = Frame("ABORT", Request(c).session, 0, 0, <<>>)
  OBVIOUS
<1>3. r \in Message /\ r.session = Request(c).session /\ r.cmd = "ABORT"
  <2>1. "ABORT" \in Command /\ Request(c).session \in Nat /\ 0 \in Nat
    BY <1>1 DEF Command, Message
  <2>. QED  BY <1>2, <2>1, EmptyFrame
<1>4. /\ segdl' = FreeDl /\ segul' = FreeUl /\ Answer(c, r) /\ Disturb(c)
      /\ UNCHANGED <<client, done, ans>>
  BY <1>2 DEF ServerAbort
<1>5. ~segdl'.active /\ ~segul'.active
  BY <1>4 DEF FreeDl, FreeUl
<1>6. SegTypeOK'
  <2>1. /\ FreeDl \in [active : BOOLEAN, src : Client \cup {None}, session : Nat, counter : Nat,
                       total : Nat, buf : Seq(Blocks)]
        /\ FreeUl \in [active : BOOLEAN, dst : Client \cup {None}, session : Nat, counter : Nat,
                       body : Seq(Blocks)]
    BY DEF FreeDl, FreeUl
  <2>2. up' \in [Client -> Seq(Message)] /\ down' \in [Client -> Seq(Message)]
    BY <1>1, <1>3, <1>4, AnswerType
  <2>3. cut' \in [Client -> BOOLEAN]
    BY <1>4 DEF Disturb, SegTypeOK
  <2>. QED  BY <1>4, <1>5, <2>1, <2>2, <2>3 DEF SegTypeOK, client
<1>7. Answers(c, r)'
  BY <1>3 DEF Answers
<1>8. Local(c)'
  BY <1>1, <1>4, <1>5 DEF Local, HoldsDl, HoldsUl, client
<1>9. ASSUME NEW d \in Client \ {c}
      PROVE  done'[d] = done[d] /\ ans'[d] = ans[d] /\ Apart(d)
  <2>1. cut'[d] <=> cut[d] \/ pc[d] # "idle"
    BY <1>4, Zenon DEF Disturb
  <2>. QED  BY <1>4, <1>5, <2>1 DEF Apart
<1>10. SegInv'
  BY <1>1, <1>3, <1>4, <1>5, <1>7, <1>8, <1>9, ServerKept
<1>. QED  BY <1>6, <1>10

LEMMA ServerInitiateStep ==
    ASSUME SegTypeOK, SegInv, NEW c \in Client, ServerInitiate(c)
    PROVE  SegTypeOK' /\ SegInv'
<1>1. PICK m : m = Request(c)
  OBVIOUS
<1>2. /\ Frames(c) /\ Local(c) /\ Turn(c) /\ m \in Message /\ m.cmd = "DL_INIT"
      /\ pc[c] # "idle" /\ m.session = sess[c] => Asks(c, m)
  <2>1. up[c] # <<>> /\ Frames(c) /\ Turn(c) /\ Local(c) /\ m.cmd = "DL_INIT"
    BY <1>1 DEF ServerInitiate, Frames, SegInv
  <2>. QED  BY <1>1, <2>1, Oldest
<1>3. PICK r : r = Frame("DL_INIT_RESP", m.session, 0, 0, <<>>)
  OBVIOUS
<1>4. m.session \in Nat /\ m.total \in Nat
  BY <1>2 DEF Message
<1>5. r \in Message /\ r.session = m.session /\ r.cmd = "DL_INIT_RESP"
  <2>1. "DL_INIT_RESP" \in Command /\ 0 \in Nat
    BY DEF Command
  <2>. QED  BY <1>3, <1>4, <2>1, EmptyFrame
<1>6. /\ segdl' = OpenSlot(c, m) /\ segul' = segul /\ Answer(c, r) /\ Disturb(c)
      /\ UNCHANGED <<client, done, ans>>
  BY <1>1, <1>3 DEF ServerInitiate
<1>7. /\ segdl'.active /\ segdl'.src = c /\ segdl'.session = m.session /\ segdl'.counter = 0
      /\ segdl'.total = m.total /\ segdl'.buf = <<>> /\ Len(segdl'.buf) = 0
  BY <1>6, EmptySeq DEF OpenSlot
<1>8. SegTypeOK'
  <2>1. OpenSlot(c, m) \in [active : BOOLEAN, src : Client \cup {None}, session : Nat, counter : Nat,
                            total : Nat, buf : Seq(Blocks)]
    BY <1>4 DEF OpenSlot
  <2>2. up' \in [Client -> Seq(Message)] /\ down' \in [Client -> Seq(Message)]
    BY <1>2, <1>5, <1>6, AnswerType
  <2>3. cut' \in [Client -> BOOLEAN]
    BY <1>6 DEF Disturb, SegTypeOK
  <2>. QED  BY <1>6, <2>1, <2>2, <2>3 DEF SegTypeOK, client
<1>9. ASSUME pc[c] # "idle", m.session = sess[c]
      PROVE  Answers(c, r)' /\ Local(c)'
  <2>1. pc[c] = "dl_init" /\ m.total = Size[x[c]]
    <3>1. pc[c] \in Phase
      BY DEF SegTypeOK
    <3>. QED  BY <1>2, <1>9, <3>1 DEF Asks, Phase
  <2>2. pc'[c] = "dl_init" /\ x'[c] = x[c] /\ sess'[c] = sess[c] /\ buf'[c] = buf[c]
    BY <1>6, <2>1 DEF client
  <2>3. Collects(c, x[c])'
    BY <1>7, <2>1, <2>2 DEF Collects
  <2>4. HoldsDl(c, sess[c])'
    BY <1>7, <1>9, <2>2 DEF HoldsDl
  <2>5. Answers(c, r)'
    BY <1>5, <1>7, <2>2, <2>3, <2>4 DEF Answers
  <2>6. Local(c)'
    BY <1>2, <2>1, <2>2 DEF Local, Sending
  <2>. QED  BY <2>5, <2>6
<1>10. ASSUME NEW d \in Client \ {c}
       PROVE  done'[d] = done[d] /\ ans'[d] = ans[d] /\ Apart(d)
  <2>1. cut'[d] <=> cut[d] \/ pc[d] # "idle"
    BY <1>6, Zenon DEF Disturb
  <2>. QED  BY <1>6, <1>7, <2>1 DEF Apart
<1>11. SegInv'
  BY <1>1, <1>2, <1>5, <1>6, <1>7, <1>9, <1>10, ServerKept
<1>. QED  BY <1>8, <1>11

LEMMA ServerFeedStep ==
    ASSUME SegTypeOK, SegInv, NEW c \in Client, ServerFeed(c)
    PROVE  SegTypeOK' /\ SegInv'
<1>1. PICK m : m = Request(c)
  OBVIOUS
<1>2. /\ Frames(c) /\ Local(c) /\ Turn(c) /\ m \in Message /\ m.cmd = "DL_SEG" /\ WellSent(c, m)
      /\ pc[c] # "idle" /\ m.session = sess[c] => Asks(c, m)
  <2>1. up[c] # <<>> /\ Frames(c) /\ Turn(c) /\ Local(c) /\ m.cmd = "DL_SEG"
    BY <1>1 DEF ServerFeed, Frames, SegInv
  <2>. QED  BY <1>1, <2>1, Oldest
<1>3. PICK r : r = Frame("DL_SEG_RESP", m.session, segdl.counter, 0, <<>>)
  OBVIOUS
<1>4. m.session \in Nat /\ segdl.counter \in Nat /\ segdl.buf \in Seq(Blocks)
  BY <1>2 DEF Message, SegTypeOK
<1>5. r \in Message /\ r.session = m.session /\ r.cmd = "DL_SEG_RESP"
  <2>1. "DL_SEG_RESP" \in Command /\ 0 \in Nat
    BY DEF Command
  <2>. QED  BY <1>3, <1>4, <2>1, EmptyFrame
<1>6. /\ segdl' = [segdl EXCEPT !.buf = @ \o m.data, !.counter = @ + 1] /\ segul' = segul
      /\ Answer(c, r) /\ UNCHANGED <<client, done, ans, cut>>
  BY <1>1, <1>3 DEF ServerFeed
<1>7. HoldsDl(c, m.session) /\ m.counter = segdl.counter
  <2>1. DownloadMatches(c, m) /\ m.counter = segdl.counter
    BY <1>1, <1>2, FaultFree DEF ServerFeed
  <2>. QED  BY <2>1 DEF DownloadMatches, HoldsDl
<1>8. PICK y \in Content : m.data = <<Block(c, y, m.counter + 1)>> /\ Collects(c, y)
  BY <1>2, <1>7 DEF WellSent
<1>9. PICK q : q = segdl.buf \o m.data
  OBVIOUS
<1>10. q = segdl.buf \o <<Block(c, y, Len(segdl.buf) + 1)>>
  BY <1>7, <1>8, <1>9 DEF Collects
<1>11. q \in Seq(Blocks) /\ Len(q) = Len(segdl.buf) + 1 /\ \A i \in 1..Len(q) : q[i] = Block(c, y, i)
  BY <1>4, <1>8, <1>10, OneMore DEF Collects
<1>12. /\ segdl'.active = segdl.active /\ segdl'.src = c /\ segdl'.session = m.session
       /\ segdl'.counter = segdl.counter + 1 /\ segdl'.total = segdl.total /\ segdl'.buf = q
  BY <1>6, <1>7, <1>9 DEF SegTypeOK, HoldsDl
<1>13. SegTypeOK'
  <2>1. segdl' \in [active : BOOLEAN, src : Client \cup {None}, session : Nat, counter : Nat,
                    total : Nat, buf : Seq(Blocks)]
    <3>1. segdl' = [segdl EXCEPT !.buf = q, !.counter = segdl.counter + 1]
      BY <1>6, <1>9
    <3>2. segdl.counter + 1 \in Nat
      BY <1>4
    <3>. QED  BY <1>11, <3>1, <3>2 DEF SegTypeOK
  <2>2. up' \in [Client -> Seq(Message)] /\ down' \in [Client -> Seq(Message)]
    BY <1>2, <1>5, <1>6, AnswerType
  <2>. QED  BY <1>6, <2>1, <2>2 DEF SegTypeOK, client
<1>14. ASSUME pc[c] # "idle", m.session = sess[c]
       PROVE  Answers(c, r)' /\ Local(c)'
  <2>1. /\ pc[c] = "dl_seg" /\ m.data = <<Block(c, x[c], Len(buf[c]) + 1)>>
        /\ ~cut[c] => Len(segdl.buf) = Len(buf[c])
    <3>1. pc[c] \in Phase
      BY DEF SegTypeOK
    <3>. QED  BY <1>2, <1>14, <3>1 DEF Asks, Phase
  <2>2. /\ pc'[c] = "dl_seg" /\ x'[c] = x[c] /\ sess'[c] = sess[c] /\ buf'[c] = buf[c]
        /\ cut'[c] = cut[c]
    BY <1>6, <2>1 DEF client
  <2>3. y = x[c]
    <3>1. Block(c, y, m.counter + 1) = Block(c, x[c], Len(buf[c]) + 1)
      BY <1>8, <2>1
    <3>. QED  BY <3>1 DEF Block
  <2>4. Collects(c, x[c])'
    <3>1. segdl.total = Size[y] /\ segdl.counter = Len(segdl.buf)
      BY <1>8 DEF Collects
    <3>. QED  BY <1>11, <1>12, <2>2, <2>3, <3>1 DEF Collects
  <2>5. HoldsDl(c, sess[c])'
    BY <1>7, <1>12, <1>14, <2>2 DEF HoldsDl
  <2>6. Answers(c, r)'
    BY <1>5, <1>11, <1>12, <2>1, <2>2, <2>5 DEF Answers
  <2>7. Local(c)'
    BY <1>2, <2>1, <2>2, <2>4 DEF Local, Sending
  <2>. QED  BY <2>6, <2>7
<1>15. ASSUME NEW d \in Client \ {c}
       PROVE  done'[d] = done[d] /\ ans'[d] = ans[d] /\ Apart(d)
  BY <1>6, <1>7, <1>12 DEF Apart, HoldsDl
<1>16. SegInv'
  BY <1>1, <1>2, <1>5, <1>6, <1>12, <1>14, <1>15, ServerKept
<1>. QED  BY <1>13, <1>16

\* What server_seg_download_feed dispatches at the end of a download.
LEMMA EndWhole ==
    ASSUME SegTypeOK, NEW c \in Client, NEW m, m.cmd = "DL_END", SegFault(c, m) = "NONE",
           NEW y \in Content, m.data = <<Block(c, y, Size[y])>>, Collects(c, y)
    PROVE  segdl.buf \o m.data = Body(c, y)
<1>1. segdl.buf \in Seq(Blocks) /\ Len(segdl.buf) \in Nat /\ Size[y] \in Nat
  BY BodyType DEF SegTypeOK
<1>2. Len(m.data) = 1
  OBVIOUS
<1>3. Len(segdl.buf) + Len(m.data) = Size[y]
  BY FaultFree DEF Collects
<1>4. Len(segdl.buf) + 1 = Size[y] /\ m.data = <<Block(c, y, Len(segdl.buf) + 1)>>
  BY <1>1, <1>2, <1>3
<1>. QED  BY <1>1, <1>4, WholeBody DEF Collects

\* The answer of send_reply_cb.
LEMMA ReplyType ==
    ASSUME NEW c \in Client, NEW y \in Content, NEW m \in Message
    PROVE  /\ ReplyFrame(m, c, y) \in Message /\ ReplyFrame(m, c, y).session = m.session
           /\ y \in Long => /\ ReplyFrame(m, c, y).cmd = "UL_INIT_RESP"
                           /\ ReplyFrame(m, c, y).total = Size[y]
           /\ y \notin Long /\ m.cmd = "DL_REQ" => /\ ReplyFrame(m, c, y).cmd = "DL_RESP"
                                                /\ ReplyFrame(m, c, y).data = Body(c, y)
           /\ y \notin Long /\ m.cmd = "UL_REQ" => /\ ReplyFrame(m, c, y).cmd = "UL_RESP"
                                                /\ ReplyFrame(m, c, y).data = Body(c, y)
           /\ y \notin Long /\ m.cmd = "DL_END" => ReplyFrame(m, c, y).cmd = "DL_END_RESP"
<1>1. /\ {"UL_INIT_RESP", "DL_RESP", "UL_RESP", "DL_END_RESP"} \subseteq Command /\ m.session \in Nat
      /\ Size[y] \in Nat /\ Body(c, y) \in Seq(Blocks) /\ 0 \in Nat
  BY BodyType DEF Command, Message
<1>2. <<>> \in Seq(Blocks)
  OBVIOUS
<1>3. CASE y \in Long
  <2>1. ReplyFrame(m, c, y) = Frame("UL_INIT_RESP", m.session, 0, Size[y], <<>>)
    BY <1>3 DEF ReplyFrame
  <2>. QED  BY <1>1, <1>2, <1>3, <2>1 DEF Frame, Message
<1>4. CASE y \notin Long /\ m.cmd = "DL_REQ"
  <2>1. ReplyFrame(m, c, y) = Frame("DL_RESP", m.session, 0, 0, Body(c, y))
    BY <1>4 DEF ReplyFrame
  <2>. QED  BY <1>1, <1>4, <2>1 DEF Frame, Message
<1>5. CASE y \notin Long /\ m.cmd = "UL_REQ"
  <2>1. ReplyFrame(m, c, y) = Frame("UL_RESP", m.session, 0, 0, Body(c, y))
    BY <1>5 DEF ReplyFrame
  <2>. QED  BY <1>1, <1>5, <2>1 DEF Frame, Message
<1>6. CASE y \notin Long /\ m.cmd \notin {"DL_REQ", "UL_REQ"}
  <2>1. ReplyFrame(m, c, y) = Frame("DL_END_RESP", m.session, 0, 0, <<>>)
    BY <1>6 DEF ReplyFrame
  <2>. QED  BY <1>1, <1>2, <1>6, <2>1 DEF Frame, Message
<1>. QED  BY <1>3, <1>4, <1>5, <1>6

LEMMA ServerDispatchStep ==
    ASSUME SegTypeOK, SegInv, NEW c \in Client, ServerDispatch(c)
    PROVE  SegTypeOK' /\ SegInv'
<1>1. PICK m : m = Request(c)
  OBVIOUS
<1>2. /\ Frames(c) /\ Local(c) /\ Turn(c) /\ m \in Message /\ m.cmd \in {"DL_REQ", "UL_REQ", "DL_END"}
      /\ SegFault(c, m) = "NONE"
      /\ pc[c] # "idle" /\ m.session = sess[c] => Asks(c, m)
  <2>1. /\ up[c] # <<>> /\ Frames(c) /\ Turn(c) /\ Local(c) /\ SegFault(c, m) = "NONE"
        /\ m.cmd \in {"DL_REQ", "UL_REQ", "DL_END"}
    BY <1>1 DEF ServerDispatch, Dispatches, Frames, SegInv
  <2>. QED  BY <1>1, <2>1, Oldest
<1>3. m.session \in Nat
  BY <1>2 DEF Message
<1>4. /\ segdl' = IF m.cmd = "DL_END" THEN FreeDl ELSE segdl
      /\ done' = [done EXCEPT ![c] = IF pc[c] \in Writing THEN Dispatched(m) ELSE @]
      /\ UNCHANGED <<pc, sess, x, buf, total>> /\ UNCHANGED client
  BY <1>1 DEF ServerDispatch, client
<1>5. /\ m.cmd = "DL_END" => HoldsDl(c, m.session) /\ ~segdl'.active
      /\ m.cmd # "DL_END" => segdl' = segdl
  <2>1. m.cmd = "DL_END" => DownloadMatches(c, m)
    BY <1>2, FaultFree
  <2>. QED  BY <1>4, <2>1 DEF DownloadMatches, HoldsDl, FreeDl
<1>6. ASSUME pc[c] # "idle", m.session = sess[c]
      PROVE  /\ pc[c] \in {"dl_req", "ul_req", "dl_end"}
             /\ pc[c] = "dl_req" => m.cmd = "DL_REQ" /\ done'[c] = Body(c, x[c])
             /\ pc[c] = "ul_req" => m.cmd = "UL_REQ"
             /\ pc[c] = "dl_end" => m.cmd = "DL_END" /\ done'[c] = Body(c, x[c])
  <2>1. pc[c] \in Phase /\ Asks(c, m)
    BY <1>2, <1>6 DEF SegTypeOK
  <2>2. /\ pc[c] \in {"dl_req", "ul_req", "dl_end"}
        /\ pc[c] = "dl_req" => m.cmd = "DL_REQ" /\ m.data = Body(c, x[c])
        /\ pc[c] = "ul_req" => m.cmd = "UL_REQ"
        /\ pc[c] = "dl_end" => m.cmd = "DL_END" /\ m.data = <<Block(c, x[c], Len(buf[c]) + 1)>>
    BY <1>2, <1>6, <2>1 DEF Asks, Phase
  <2>3. pc[c] \in Writing => done'[c] = Dispatched(m)
    BY <1>4 DEF SegTypeOK
  <2>4. CASE pc[c] = "dl_req"
    BY <2>2, <2>3, <2>4 DEF Writing, Dispatched
  <2>5. CASE pc[c] = "dl_end"
    <3>1. x[c] \in Content /\ Len(buf[c]) + 1 = Size[x[c]] /\ Collects(c, x[c])
      BY <1>2, <1>5, <1>6, <2>2, <2>5 DEF Local, Sending
    <3>2. m.data = <<Block(c, x[c], Size[x[c]])>>
      BY <2>2, <2>5, <3>1
    <3>3. segdl.buf \o m.data = Body(c, x[c])
      BY <1>2, <2>2, <2>5, <3>1, <3>2, EndWhole
    <3>. QED  BY <2>2, <2>3, <2>5, <3>3 DEF Writing, Dispatched
  <2>. QED  BY <2>2, <2>4, <2>5
<1>7. ASSUME pc[c] # "idle", m.session = sess[c]
      PROVE  Local(c)'
  <2>1. /\ pc'[c] = pc[c] /\ x'[c] = x[c] /\ sess'[c] = sess[c] /\ buf'[c] = buf[c]
        /\ pc[c] \in {"dl_req", "ul_req", "dl_end"}
    BY <1>4, <1>6, <1>7
  <2>2. pc[c] = "dl_end" => ~segdl'.active
    BY <1>5, <1>6, <1>7
  <2>. QED  BY <1>2, <2>1, <2>2 DEF Local, Sending, HoldsDl
<1>8. /\ segdl' \in [active : BOOLEAN, src : Client \cup {None}, session : Nat, counter : Nat,
                     total : Nat, buf : Seq(Blocks)]
      /\ DOMAIN done' = Client
  <2>1. FreeDl \in [active : BOOLEAN, src : Client \cup {None}, session : Nat, counter : Nat,
                    total : Nat, buf : Seq(Blocks)]
    BY DEF FreeDl
  <2>. QED  BY <1>4, <2>1 DEF SegTypeOK
<1>9. segdl' = segdl \/ ~segdl'.active
  BY <1>5
<1>10. \A d \in Client \ {c} :
          /\ done'[d] = done[d]
          /\ segdl' = segdl \/ (~segdl'.active /\ ~(segdl.active /\ segdl.src = d))
  BY <1>4, <1>5 DEF SegTypeOK, HoldsDl
<1>11. ASSUME NEW y \in IF m.cmd = "DL_END" THEN Content \ Long ELSE Content,
              segul' = IF y \in Long THEN Park(c, m.session, Body(c, y)) ELSE segul,
              Answer(c, ReplyFrame(m, c, y)),
              ans' = [ans EXCEPT ![c] = IF pc[c] \in Reading THEN y ELSE @],
              IF y \in Long THEN Disturb(c) ELSE UNCHANGED cut
       PROVE  SegTypeOK' /\ SegInv'
  <2>1. y \in Content /\ (m.cmd = "DL_END" => y \notin Long)
    BY <1>11
  <2>2. PICK r : r = ReplyFrame(m, c, y)
    OBVIOUS
  <2>3. /\ r \in Message /\ r.session = m.session
        /\ y \in Long => r.cmd = "UL_INIT_RESP" /\ r.total = Size[y]
        /\ y \notin Long /\ m.cmd = "DL_REQ" => r.cmd = "DL_RESP" /\ r.data = Body(c, y)
        /\ y \notin Long /\ m.cmd = "UL_REQ" => r.cmd = "UL_RESP" /\ r.data = Body(c, y)
        /\ y \notin Long /\ m.cmd = "DL_END" => r.cmd = "DL_END_RESP"
    BY <1>2, <2>1, <2>2, ReplyType
  <2>4. Answer(c, r)
    BY <1>11, <2>2
  <2>5. y \in Long => /\ segul'.active /\ segul'.dst = c /\ segul'.session = m.session
                      /\ segul'.counter = 0 /\ segul'.body = Body(c, y)
    BY <1>11 DEF Park
  <2>6. /\ segul' \in [active : BOOLEAN, dst : Client \cup {None}, session : Nat, counter : Nat,
                       body : Seq(Blocks)]
        /\ segul'.active => segul'.counter < Len(segul'.body)
    <3>1. CASE y \in Long
      <4>1. Body(c, y) \in Seq(Blocks) /\ Len(Body(c, y)) >= 1 /\ Len(Body(c, y)) \in Nat
        BY <2>1, BodyType
      <4>2. segul' = Park(c, m.session, Body(c, y))
        BY <1>11, <3>1
      <4>. QED  BY <1>3, <2>5, <3>1, <4>1, <4>2 DEF Park
    <3>2. CASE y \notin Long
      BY <1>11, <3>2 DEF SegTypeOK
    <3>. QED  BY <3>1, <3>2
  <2>7. up' \in [Client -> Seq(Message)] /\ down' \in [Client -> Seq(Message)]
    BY <1>2, <2>3, <2>4, AnswerType
  <2>8. cut' \in [Client -> BOOLEAN]
    <3>1. CASE y \in Long
      BY <1>11, <3>1 DEF SegTypeOK, Disturb
    <3>2. CASE y \notin Long
      BY <1>11, <3>2 DEF SegTypeOK
    <3>. QED  BY <3>1, <3>2
  <2>9. ans' \in [Client -> Content \cup {None}]
    BY <1>11, <2>1 DEF SegTypeOK
  <2>10. SegTypeOK'
    BY <1>4, <1>8, <2>6, <2>7, <2>8, <2>9 DEF SegTypeOK
  <2>11. ASSUME pc[c] # "idle", m.session = sess[c]
         PROVE  Answers(c, r)'
    <3>1. pc'[c] = pc[c] /\ x'[c] = x[c] /\ sess'[c] = m.session
      BY <1>4, <2>11
    <3>2. pc[c] \in Reading => ans'[c] = y
      BY <1>11 DEF SegTypeOK
    <3>3. CASE pc[c] = "dl_end"
      BY <1>6, <2>1, <2>3, <2>11, <3>1, <3>3 DEF Answers
    <3>4. CASE pc[c] \in {"dl_req", "ul_req"} /\ y \in Long
      <4>1. r.cmd = "UL_INIT_RESP" /\ r.total = Size[y] /\ ans'[c] = y /\ pc'[c] \in Reading
        BY <2>3, <3>1, <3>2, <3>4 DEF Reading
      <4>2. HoldsUl(c, sess[c])' /\ segul'.body = Body(c, y) /\ segul'.counter = 0
        BY <2>5, <3>1, <3>4 DEF HoldsUl
      <4>. QED  BY <2>1, <4>1, <4>2 DEF Answers
    <3>5. CASE pc[c] \in {"dl_req", "ul_req"} /\ y \notin Long
      <4>1. ans'[c] = y
        BY <3>2, <3>5 DEF Reading
      <4>. QED  BY <1>6, <2>1, <2>3, <2>11, <3>1, <3>5, <4>1 DEF Answers
    <3>. QED  BY <1>6, <2>11, <3>3, <3>4, <3>5
  <2>12. ASSUME NEW d \in Client \ {c}
         PROVE  done'[d] = done[d] /\ ans'[d] = ans[d] /\ Apart(d)
    <3>1. ans'[d] = ans[d]
      BY <1>11 DEF SegTypeOK
    <3>2. CASE y \in Long
      <4>1. cut'[d] <=> cut[d] \/ pc[d] # "idle"
        <5>1. Disturb(c)
          BY <1>11, <3>2
        <5>. QED  BY <5>1, Zenon DEF Disturb
      <4>. QED  BY <1>10, <2>5, <3>1, <3>2, <4>1 DEF Apart
    <3>3. CASE y \notin Long
      <4>1. segul' = segul /\ cut' = cut
        BY <1>11, <3>3
      <4>. QED  BY <1>10, <3>1, <4>1 DEF Apart
    <3>. QED  BY <3>2, <3>3
  <2>13. SegInv'
    BY <1>1, <1>2, <1>4, <1>7, <1>9, <2>3, <2>4, <2>11, <2>12, ServerKept
  <2>. QED  BY <2>10, <2>13
<1>12. ASSUME Answer(c, Frame("ABORT", m.session, 0, 0, <<>>)), UNCHANGED <<segul, ans, cut>>
       PROVE  SegTypeOK' /\ SegInv'
  <2>1. PICK r : r = Frame("ABORT", m.session, 0, 0, <<>>)
    OBVIOUS
  <2>2. r \in Message /\ r.session = m.session /\ r.cmd = "ABORT"
    <3>1. "ABORT" \in Command /\ 0 \in Nat
      BY DEF Command
    <3>. QED  BY <1>3, <2>1, <3>1, EmptyFrame
  <2>3. Answer(c, r)
    BY <1>12, <2>1
  <2>4. up' \in [Client -> Seq(Message)] /\ down' \in [Client -> Seq(Message)]
    BY <1>2, <2>2, <2>3, AnswerType
  <2>5. SegTypeOK'
    BY <1>4, <1>8, <1>12, <2>4 DEF SegTypeOK
  <2>6. Answers(c, r)'
    BY <2>2 DEF Answers
  <2>7. \A d \in Client \ {c} : done'[d] = done[d] /\ ans'[d] = ans[d] /\ Apart(d)
    BY <1>10, <1>12 DEF Apart
  <2>8. SegInv'
    BY <1>1, <1>2, <1>4, <1>7, <1>9, <2>2, <2>3, <2>6, <2>7, ServerKept
  <2>. QED  BY <2>5, <2>8
<1>. QED  BY <1>1, <1>11, <1>12 DEF ServerDispatch

LEMMA ServerServeStep ==
    ASSUME SegTypeOK, SegInv, NEW c \in Client, ServerServe(c)
    PROVE  SegTypeOK' /\ SegInv'
<1>1. PICK m : m = Request(c)
  OBVIOUS
<1>2. /\ Frames(c) /\ Local(c) /\ Turn(c) /\ m \in Message /\ m.cmd = "UL_SEG"
      /\ SegFault(c, m) = "NONE"
      /\ pc[c] # "idle" /\ m.session = sess[c] => Asks(c, m)
  <2>1. /\ up[c] # <<>> /\ Frames(c) /\ Turn(c) /\ Local(c) /\ m.cmd = "UL_SEG"
        /\ SegFault(c, m) = "NONE"
    BY <1>1 DEF ServerServe, Frames, SegInv
  <2>. QED  BY <1>1, <2>1, Oldest
<1>3. HoldsUl(c, m.session) /\ m.counter = segul.counter
  <2>1. UploadMatches(c, m) /\ m.counter = segul.counter
    BY <1>2, FaultFree
  <2>. QED  BY <2>1 DEF UploadMatches, HoldsUl
<1>4. /\ m.session \in Nat /\ segul.counter \in Nat /\ segul.body \in Seq(Blocks)
      /\ segul.counter < Len(segul.body) /\ Len(segul.body) \in Nat
  BY <1>2, <1>3 DEF Message, SegTypeOK, HoldsUl
<1>5. PICK k, b : k = segul.counter /\ b = segul.body[segul.counter + 1]
  OBVIOUS
<1>6. b \in Blocks /\ <<b>> \in Seq(Blocks) /\ k \in Nat
  <2>1. segul.counter + 1 \in 1..Len(segul.body)
    BY <1>4
  <2>2. b \in Blocks
    BY <1>4, <1>5, <2>1, Queue
  <2>. QED  BY <1>4, <1>5, <2>2
<1>7. PICK cmd, r : /\ cmd = IF Len(segul.body) - k = 1 THEN "UL_END_RESP" ELSE "UL_SEG_RESP"
                    /\ r = Frame(cmd, m.session, k, 0, <<b>>)
  OBVIOUS
<1>8. r \in Message /\ r.session = m.session /\ r.cmd = cmd /\ r.data = <<b>>
  <2>1. cmd \in Command /\ 0 \in Nat
    BY <1>7 DEF Command
  <2>. QED  BY <1>4, <1>6, <1>7, <2>1 DEF Frame, Message
<1>9. /\ segul' = IF Len(segul.body) - k = 1 THEN FreeUl ELSE [segul EXCEPT !.counter = k + 1]
      /\ segdl' = segdl /\ Answer(c, r) /\ UNCHANGED <<client, done, ans, cut>>
  BY <1>1, <1>5, <1>7 DEF ServerServe
<1>10. \/ cmd = "UL_END_RESP" /\ ~segul'.active /\ segul' = FreeUl
       \/ /\ cmd = "UL_SEG_RESP" /\ segul'.active /\ segul'.dst = c /\ segul'.session = m.session
          /\ segul'.counter = k + 1 /\ segul'.body = segul.body /\ k + 1 < Len(segul.body)
          /\ segul' = [segul EXCEPT !.counter = k + 1]
  <2>1. CASE Len(segul.body) - k = 1
    BY <1>7, <1>9, <2>1 DEF FreeUl
  <2>2. CASE Len(segul.body) - k # 1
    <3>1. k + 1 < Len(segul.body)
      BY <1>4, <1>5, <2>2
    <3>2. cmd = "UL_SEG_RESP" /\ segul' = [segul EXCEPT !.counter = k + 1]
      BY <1>7, <1>9, <2>2
    <3>. QED  BY <1>3, <3>1, <3>2 DEF SegTypeOK, HoldsUl
  <2>. QED  BY <2>1, <2>2
<1>11. SegTypeOK'
  <2>1. FreeUl \in [active : BOOLEAN, dst : Client \cup {None}, session : Nat, counter : Nat,
                    body : Seq(Blocks)]
    BY DEF FreeUl
  <2>2. k + 1 \in Nat
    BY <1>6
  <2>3. segul' \in [active : BOOLEAN, dst : Client \cup {None}, session : Nat, counter : Nat,
                    body : Seq(Blocks)]
    BY <1>10, <2>1, <2>2 DEF SegTypeOK
  <2>4. segul'.active => segul'.counter < Len(segul'.body)
    BY <1>10
  <2>5. up' \in [Client -> Seq(Message)] /\ down' \in [Client -> Seq(Message)]
    BY <1>2, <1>8, <1>9, AnswerType
  <2>. QED  BY <1>9, <2>3, <2>4, <2>5 DEF SegTypeOK, client
<1>12. ASSUME pc[c] # "idle", m.session = sess[c]
       PROVE  Answers(c, r)' /\ Local(c)'
  <2>1. pc[c] = "ul_seg" /\ m.counter = Len(buf[c])
    <3>1. pc[c] \in Phase
      BY DEF SegTypeOK
    <3>. QED  BY <1>2, <1>12, <3>1 DEF Asks, Phase
  <2>2. /\ ans[c] \in Content /\ total[c] = Size[ans[c]] /\ segul.body = Body(c, ans[c])
        /\ \A i \in 1..Len(buf[c]) : buf[c][i] = Block(c, ans[c], i)
    BY <1>2, <1>3, <1>12, <2>1 DEF Local
  <2>3. b = Block(c, ans[c], Len(buf[c]) + 1) /\ k = Len(buf[c])
    <3>1. Len(Body(c, ans[c])) = Size[ans[c]] /\ k = Len(buf[c]) /\ k + 1 \in 1..Size[ans[c]]
      BY <1>3, <1>4, <1>5, <2>1, <2>2, BodyType
    <3>. QED  BY <1>5, <2>2, <3>1, BodyType
  <2>4. /\ pc'[c] = "ul_seg" /\ sess'[c] = m.session /\ buf'[c] = buf[c] /\ total'[c] = total[c]
        /\ ans'[c] = ans[c]
    BY <1>9, <1>12, <2>1 DEF client
  <2>5. r.cmd = "UL_SEG_RESP" => HoldsUl(c, sess[c])' /\ segul'.counter = Len(buf[c]) + 1
    BY <1>8, <1>10, <2>3, <2>4 DEF HoldsUl
  <2>6. Answers(c, r)'
    BY <1>8, <1>10, <2>3, <2>4, <2>5 DEF Answers
  <2>7. HoldsUl(c, sess[c])' => segul'.body = Body(c, ans[c])
    BY <1>10, <2>2 DEF HoldsUl
  <2>8. Local(c)'
    BY <2>2, <2>4, <2>7 DEF Local, Sending
  <2>. QED  BY <2>6, <2>8
<1>13. ASSUME NEW d \in Client \ {c}
       PROVE  done'[d] = done[d] /\ ans'[d] = ans[d] /\ Apart(d)
  BY <1>3, <1>9, <1>10 DEF Apart, HoldsUl
<1>14. SegInv'
  BY <1>1, <1>2, <1>8, <1>9, <1>12, <1>13, ServerKept
<1>. QED  BY <1>11, <1>14

LEMMA ServerRestartStep ==
    ASSUME SegTypeOK, SegInv, ServerRestart
    PROVE  SegTypeOK' /\ SegInv'
<1>1. /\ segdl' = FreeDl /\ segul' = FreeUl /\ cut' = [c \in Client |-> pc[c] # "idle"]
      /\ UNCHANGED <<pc, sess, x, buf, total, up, down, done, ans>>
  BY DEF ServerRestart, client
<1>2. ~segdl'.active /\ ~segul'.active
  BY <1>1 DEF FreeDl, FreeUl
<1>3. SegTypeOK'
  <2>1. /\ FreeDl \in [active : BOOLEAN, src : Client \cup {None}, session : Nat, counter : Nat,
                       total : Nat, buf : Seq(Blocks)]
        /\ FreeUl \in [active : BOOLEAN, dst : Client \cup {None}, session : Nat, counter : Nat,
                       body : Seq(Blocks)]
    BY DEF FreeDl, FreeUl
  <2>. QED  BY <1>1, <1>2, <2>1 DEF SegTypeOK
<1>4. ASSUME NEW d \in Client
      PROVE  Local(d)' /\ Turn(d)'
  <2>1. Still(d)
    BY <1>1 DEF Still
  <2>2. cut'[d] <=> pc[d] # "idle"
    BY <1>1, Zenon
  <2>3. Apart(d)
    BY <1>2, <2>2 DEF Apart
  <2>. QED  BY <2>1, <2>3, OtherKept DEF SegInv
<1>. QED  BY <1>3, <1>4 DEF SegInv

-----------------------------------------------------------------------------
(* The theorems. *)

LEMMA SegStarts == Init => SegTypeOK /\ SegInv
<1>. SUFFICES ASSUME Init PROVE SegTypeOK /\ SegInv
  OBVIOUS
<1>1. ~segdl.active /\ ~segul.active
  BY DEF Init, FreeDl, FreeUl
<1>2. SegTypeOK
  <2>1. "idle" \in Phase /\ <<>> \in Seq(Blocks) /\ <<>> \in Seq(Message)
    BY DEF Phase
  <2>2. /\ FreeDl \in [active : BOOLEAN, src : Client \cup {None}, session : Nat, counter : Nat,
                       total : Nat, buf : Seq(Blocks)]
        /\ FreeUl \in [active : BOOLEAN, dst : Client \cup {None}, session : Nat, counter : Nat,
                       body : Seq(Blocks)]
    BY DEF FreeDl, FreeUl
  <2>. QED  BY <1>1, <2>1, <2>2 DEF Init, SegTypeOK
<1>3. ASSUME NEW c \in Client
      PROVE  Local(c) /\ Turn(c)
  <2>1. pc[c] = "idle" /\ buf[c] = <<>> /\ up[c] = <<>>
    BY DEF Init
  <2>2. Len(up[c]) = 0
    BY <2>1, EmptySeq
  <2>3. \A i \in 1..Len(up[c]) : FALSE
    BY <2>2
  <2>. QED  BY <2>1, <2>3 DEF Local, Turn, Sending
<1>. QED  BY <1>2, <1>3 DEF SegInv

LEMMA SegStep == SegTypeOK /\ SegInv /\ [Next]_vars => SegTypeOK' /\ SegInv'
<1>. SUFFICES ASSUME SegTypeOK, SegInv, [Next]_vars
              PROVE  SegTypeOK' /\ SegInv'
  OBVIOUS
<1>1. ASSUME NEW c \in Client, ClientStep(c) \/ Lose(c)
      PROVE  SegTypeOK' /\ SegInv'
  BY <1>1, ClientKept
<1>2. ASSUME NEW c \in Client, ServerStep(c)
      PROVE  SegTypeOK' /\ SegInv'
  BY <1>2, ServerAbortStep, ServerInitiateStep, ServerFeedStep, ServerDispatchStep, ServerServeStep
     DEF ServerStep
<1>3. CASE ServerRestart
  BY <1>3, ServerRestartStep
<1>4. CASE UNCHANGED vars
  <2>1. UNCHANGED <<segdl, segul, pc, sess, x, buf, total, up, down, done, ans, cut>>
    BY <1>4 DEF vars, server, client
  <2>2. SegTypeOK'
    BY <2>1 DEF SegTypeOK
  <2>3. ASSUME NEW d \in Client
        PROVE  Local(d)' /\ Turn(d)'
    <3>1. Still(d) /\ Apart(d)
      BY <2>1 DEF Still, Apart
    <3>. QED  BY <3>1, OtherKept DEF SegInv
  <2>. QED  BY <2>2, <2>3 DEF SegInv
<1>. QED  BY <1>1, <1>2, <1>3, <1>4 DEF Next

\* Whatever transfers are interleaved, lost, abandoned or answered late, every
\* frame in transit to run_dispatch_loop continues what the slot of its
\* session holds, and the answer round_trip waits for is the last of its queue.
THEOREM SegInvariant == Spec => [](SegTypeOK /\ SegInv)
BY SegStarts, SegStep, PTL DEF Spec

\* server_seg_download_feed and run_dispatch_loop hand to
\* fbsec_server_dispatch_request nothing but whole bodies, each block in its
\* place, of the client that is named as its sender.
THEOREM DispatchesWhole == Spec => []DispatchWhole
<1>1. ASSUME SegTypeOK, SegInv
      PROVE  DispatchWhole
  <2>. SUFFICES ASSUME NEW c \in Client, Dispatches(c), Request(c).cmd # "UL_REQ"
                PROVE  Dispatched(Request(c)) \in Bodies(c)
    BY DEF DispatchWhole
  <2>1. PICK m : m = Request(c)
    OBVIOUS
  <2>2. up[c] # <<>> /\ SegFault(c, m) = "NONE" /\ m.cmd \in {"DL_REQ", "DL_END"}
    BY <2>1 DEF Dispatches, Frames
  <2>3. WellSent(c, m)
    BY <1>1, <2>1, <2>2, Oldest DEF SegInv
  <2>4. CASE m.cmd = "DL_REQ"
    BY <2>1, <2>3, <2>4 DEF WellSent, Dispatched
  <2>5. CASE m.cmd = "DL_END"
    <3>1. HoldsDl(c, m.session)
      <4>1. DownloadMatches(c, m)
        BY <2>2, <2>5, FaultFree
      <4>. QED  BY <4>1 DEF DownloadMatches, HoldsDl
    <3>2. PICK y \in Content : m.data = <<Block(c, y, Size[y])>> /\ Collects(c, y)
      BY <2>3, <2>5, <3>1 DEF WellSent
    <3>3. segdl.buf \o m.data = Body(c, y)
      BY <1>1, <2>2, <2>5, <3>2, EndWhole
    <3>. QED  BY <2>1, <2>5, <3>3 DEF Dispatched, Bodies
  <2>. QED  BY <2>2, <2>4, <2>5
<1>. QED  BY <1>1, SegInvariant, PTL

\* transport_write succeeds only if the server dispatched, for this transfer,
\* exactly the body the client was sending.
THEOREM WritesAcked == Spec => []WriteAcked
<1>1. ASSUME SegTypeOK, SegInv
      PROVE  WriteAcked
  <2>. SUFFICES ASSUME NEW c \in Client, pc[c] \in Writing, HasReply(c),
                       Reply(c).cmd \in {"DL_RESP", "DL_END_RESP"}
                PROVE  done[c] = Body(c, x[c])
    BY DEF WriteAcked
  <2>1. Answers(c, Reply(c))
    BY <1>1, Replied DEF SegInv
  <2>. QED  BY <2>1 DEF Answers, Writing
<1>. QED  BY <1>1, SegInvariant, PTL

\* What transport_read and seg_upload_pull return is the whole answer the server
\* gave to this request, never with blocks of another answer or of another
\* client's.
THEOREM ReadsWhole == Spec => []ReadWhole
<1>1. ASSUME SegTypeOK, SegInv
      PROVE  ReadWhole
  <2>. SUFFICES ASSUME NEW c \in Client, pc[c] \in Reading \cup {"ul_seg"}, HasReply(c), Acceptable(c),
                       Reply(c).cmd \in {"DL_RESP", "UL_RESP", "UL_END_RESP"}
                PROVE  buf[c] \o Reply(c).data = Body(c, ans[c])
    BY DEF ReadWhole
  <2>1. PICK m : m = Reply(c)
    OBVIOUS
  <2>2. Answers(c, m) /\ Local(c) /\ buf[c] \in Seq(Blocks)
    BY <1>1, <2>1, Replied DEF SegInv, SegTypeOK
  <2>3. CASE pc[c] \in Reading
    <3>1. buf[c] = <<>> /\ ans[c] \in Content /\ m.data = Body(c, ans[c])
      BY <2>1, <2>2, <2>3 DEF Local, Answers, Reading
    <3>2. Body(c, ans[c]) \in Seq(Blocks)
      BY <3>1, BodyType
    <3>. QED  BY <2>1, <3>1, <3>2, ConcatEmptySeq
  <2>4. CASE pc[c] = "ul_seg"
    <3>1. /\ ans[c] \in Content /\ total[c] = Size[ans[c]]
          /\ \A i \in 1..Len(buf[c]) : buf[c][i] = Block(c, ans[c], i)
      BY <2>2, <2>4 DEF Local
    <3>2. m.cmd = "UL_END_RESP" /\ Len(buf[c]) + Len(m.data) = total[c]
      BY <2>1, <2>4 DEF Acceptable
    <3>3. m.data = <<Block(c, ans[c], Len(buf[c]) + 1)>>
      BY <2>2, <2>4, <3>2 DEF Answers
    <3>4. Len(buf[c]) + 1 = Size[ans[c]]
      BY <3>1, <3>2, <3>3
    <3>. QED  BY <2>1, <2>2, <3>1, <3>3, <3>4, WholeBody
  <2>. QED  BY <2>3, <2>4
<1>. QED  BY <1>1, SegInvariant, PTL

\* server_seg_abort never answers the request of a transfer in progress because
\* of what its own client did or lost before: another client took or cleared
\* the slots, or the server was restarted.
THEOREM AbortsOnlyIfCut == Spec => []NoSelfInflictedAbort
<1>1. ASSUME SegTypeOK, SegInv
      PROVE  NoSelfInflictedAbort
  <2>. SUFFICES ASSUME NEW c \in Client, Frames(c), pc[c] # "idle", Request(c).session = sess[c],
                       ~cut[c]
                PROVE  SegFault(c, Request(c)) = "NONE"
    BY DEF NoSelfInflictedAbort
  <2>1. PICK m : m = Request(c)
    OBVIOUS
  <2>2. Asks(c, m) /\ Local(c) /\ pc[c] \in Phase /\ m.session = sess[c]
    <3>1. up[c] # <<>> /\ Turn(c) /\ Local(c) /\ pc[c] \in Phase
      BY <1>1 DEF Frames, SegInv, SegTypeOK
    <3>. QED  BY <1>1, <2>1, <3>1, Oldest
  <2>3. CASE pc[c] \in {"dl_req", "ul_req"}
    <3>1. m.cmd \in {"DL_REQ", "UL_REQ"}
      BY <2>2, <2>3 DEF Asks
    <3>. QED  BY <2>1, <3>1, FaultFree
  <2>4. CASE pc[c] = "dl_init"
    <3>1. m.cmd = "DL_INIT" /\ m.total = Size[x[c]] /\ x[c] \in Content /\ Size[x[c]] <= BodyMax
      BY <2>2, <2>4 DEF Asks, Local, Sending
    <3>2. ~(m.total > BodyMax)
      BY <3>1, BodyType, SegConstants
    <3>. QED  BY <2>1, <3>1, <3>2, FaultFree
  <2>5. CASE pc[c] \in {"dl_seg", "dl_end"}
    <3>1. /\ m.cmd = IF pc[c] = "dl_seg" THEN "DL_SEG" ELSE "DL_END"
          /\ m.counter = Len(buf[c]) /\ m.data = <<Block(c, x[c], Len(buf[c]) + 1)>>
          /\ HoldsDl(c, sess[c]) /\ Len(segdl.buf) = Len(buf[c])
      BY <2>2, <2>5 DEF Asks
    <3>2. /\ x[c] \in Content /\ Collects(c, x[c])
          /\ pc[c] = "dl_seg" => Len(buf[c]) + 1 < Size[x[c]]
          /\ pc[c] = "dl_end" => Len(buf[c]) + 1 = Size[x[c]]
      BY <2>2, <2>5, <3>1 DEF Local, Sending
    <3>3. Len(m.data) = 1 /\ Len(buf[c]) \in Nat /\ Size[x[c]] \in Nat
      BY <1>1, <3>1, <3>2, BodyType DEF SegTypeOK
    <3>4. segdl.counter = Len(buf[c]) /\ segdl.total = Size[x[c]] /\ DownloadMatches(c, m)
      BY <2>2, <3>1, <3>2 DEF Collects, HoldsDl, DownloadMatches
    <3>5. /\ ~(Len(segdl.buf) + Len(m.data) > segdl.total)
          /\ pc[c] = "dl_end" => Len(segdl.buf) + Len(m.data) = segdl.total
      BY <2>5, <3>1, <3>2, <3>3, <3>4
    <3>. QED  BY <2>1, <2>5, <3>1, <3>4, <3>5, FaultFree
  <2>6. CASE pc[c] = "ul_seg"
    <3>1. m.cmd = "UL_SEG" /\ UploadMatches(c, m) /\ m.counter = segul.counter
      BY <2>2, <2>6 DEF Asks, HoldsUl, UploadMatches
    <3>. QED  BY <2>1, <3>1, FaultFree
  <2>. QED  BY <2>2, <2>3, <2>4, <2>5, <2>6 DEF Phase
<1>. QED  BY <1>1, SegInvariant, PTL

==============================================================================
