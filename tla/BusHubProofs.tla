---------------------------- MODULE BusHubProofs ----------------------------
(***************************************************************************)
(* Machine-checked facts about the hub, for every number of peers, socket  *)
(* handles and nodes, and every interleaving of the event loop with the    *)
(* Ctrl handler.                                                           *)
(***************************************************************************)
EXTENDS BusHub, WellFoundedInduction, TLAPS

Sock == Handle \cup {Invalid}
Peer == [sock : Sock, in_use : BOOLEAN, user : 0..MaxPeers]
PoolEntry == [in_use : BOOLEAN, announced : BOOLEAN, node : Node]
Message == [kind : {"USDO", "ANNOUNCE", "LOSS"}, node : Node]
MainPc == {"loop", "select", "accept", "place", "scan", "read", "relay", "drop", "finish",
           "drain", "done"}
Main == [pc : MainPc, i : 1..(MaxPeers + 1), j : 1..(MaxPeers + 1), ready : SUBSET Sock,
         sock : Sock, user : 0..MaxPeers, msg : Message, draining : BOOLEAN]
Ctrl == [pc : {"idle", "listener", "sweep", "close", "done"}, k : 1..(MaxPeers + 1), ps : Sock]

HubTypeOK ==
    /\ peers \in [Slot -> Peer]
    /\ pool \in [Slot -> PoolEntry]
    /\ listening \in BOOLEAN
    /\ shutdown \in BOOLEAN
    /\ main \in Main
    /\ main.pc \in {"place", "read", "relay", "drop", "finish"} => main.i \in Slot
    /\ ctrl \in Ctrl
    /\ ctrl.pc = "close" => ctrl.k \in Slot
    /\ open \subseteq Handle
    /\ said \subseteq Handle
    /\ views \in [Handle -> SUBSET Node]
    /\ quiet \subseteq Node

\* cb_on_peer_dropped is telling the others.
Telling == At("relay") /\ main.msg.kind = "LOSS"

\* drop_peer has freed the slot and has not closed the socket yet.
Closing == At("finish") \/ Telling

\* Nodes the hub has a peer for.
Here == {pool[peers[k].user].node : k \in {l \in Used : Announced(peers[l].user)}}

\* The two threads: no sweep before the flag and the listener, and the socket
\* the handler is about to close is in its slot or in none.
Threads ==
    /\ ~shutdown => ctrl.pc = "idle"
    /\ listening => ctrl.pc \in {"idle", "listener"}
    /\ ctrl.pc = "close" =>
          /\ ctrl.ps # Invalid
          /\ peers[ctrl.k].in_use => peers[ctrl.k].sock = ctrl.ps
          /\ \A l \in Used \ {ctrl.k} : peers[l].sock # ctrl.ps
          /\ At("place") => main.i # ctrl.k /\ main.sock # ctrl.ps

\* The table: sockets in it are open, or swept by the handler.
Table ==
    /\ StateOwned
    /\ \A k \in Used : peers[k].sock \in open \cup {Invalid}
    /\ ~shutdown => \A k \in Used : peers[k].sock # Invalid
    /\ said \subseteq open

\* What the locals of the event loop stand for, between its steps.
Locals ==
    /\ At("select") /\ ~shutdown => main.ready \subseteq open
    /\ At("place") =>
          /\ ~peers[main.i].in_use
          /\ main.sock \in open \ said
          /\ \A k \in Used : /\ peers[k].sock # main.sock
                             /\ peers[k].user = main.user => main.user = NoState
          /\ main.user # NoState => pool[main.user].in_use /\ ~pool[main.user].announced
    /\ At("read") =>
          /\ peers[main.i].in_use
          /\ peers[main.i].user = main.user
          /\ peers[main.i].sock \in {main.sock, Invalid}
          /\ \A k \in Used \ {main.i} : peers[k].sock = main.sock => main.sock = Invalid
    /\ Closing => \A k \in Used :
          /\ peers[k].sock = main.sock => main.sock = Invalid
          /\ peers[k].user = main.user => main.user = NoState

TableInv == Threads /\ Table /\ Locals

\* Every open socket is in the table or in the hands of the event loop.
Sockets ==
    \A h \in open :
        \/ \E k \in Used : peers[k].sock = h
        \/ (At("place") \/ Closing) /\ main.sock = h

\* shutdown_all: the slots behind the cursor are free.
Draining ==
    /\ main.pc \in {"drain", "done"} => main.draining
    /\ main.draining =>
          /\ shutdown
          /\ main.pc \in {"drain", "drop", "finish", "done"} \/ Telling
          /\ \A k \in Used : k >= main.i /\ (Closing => k # main.i)
    /\ At("done") => ~listening /\ main.i > MaxPeers

\* The nodes a peer believes connected are, or their loss is on its way.
Ghosts ==
    /\ NoGhost
    /\ main.msg.kind # "USDO" => At("relay")
    /\ \A h \in Handle \ open : views[h] = {}
    /\ At("place") => views[main.sock] = {}
    /\ Telling => \A k \in Used :
          k < main.j /\ peers[k].sock \in open => views[peers[k].sock] \subseteq Here \cup quiet
    /\ main.msg.kind = "ANNOUNCE" => main.msg.node \in Here \cup quiet

-----------------------------------------------------------------------------
(* Type correctness. *)

LEMMA MinInSet ==
    ASSUME NEW S \in SUBSET Nat, S # {}
    PROVE  Min(S) \in S
<1>. DEFINE R == OpToRel(<, Nat)
<1>1. \A m, n \in Nat : <<m, n>> \in R <=> m < n
  BY DEF OpToRel
<1>2. IsWellFoundedOn(R, Nat)
  BY NatLessThanWellFounded
<1>. HIDE DEF R
<1>3. \E n \in S : \A m \in S : ~(<<m, n>> \in R)
  BY <1>2, WFMin
<1>4. \E n \in S : \A m \in S : n =< m
  <2>1. PICK n \in S : \A m \in S : ~(<<m, n>> \in R)
    BY <1>3
  <2>2. ASSUME NEW m \in S
        PROVE  n =< m
    <3>1. ~(m < n)
      BY <1>1, <2>1
    <3>. QED  BY <3>1
  <2>. QED  BY <2>2
<1>. QED  BY <1>4 DEF Min

LEMMA FreeTypes ==
    /\ FreeSlots # {} => Min(FreeSlots) \in FreeSlots
    /\ FreeStates # {} => Min(FreeStates) \in FreeStates
<1>1. Slot \subseteq Nat
  BY HubConstants DEF Slot
<1>2. FreeSlots \subseteq Slot /\ FreeStates \subseteq Slot
  BY DEF FreeSlots, FreeStates
<1>. QED  BY <1>1, <1>2, MinInSet

LEMMA AnyNodeType == AnyNode \in Node
BY HubConstants DEF AnyNode

LEMMA SlotTypes ==
    /\ Slot \subseteq 1..(MaxPeers + 1)
    /\ Slot \subseteq 0..MaxPeers
    /\ 1 \in 1..(MaxPeers + 1)
    /\ NoState \in 0..MaxPeers
    /\ \A n \in Slot : n + 1 \in 1..(MaxPeers + 1)
    /\ \A n \in 1..(MaxPeers + 1) : n \notin Slot <=> n > MaxPeers
    /\ \A n \in 0..MaxPeers : n # NoState => n \in Slot
    /\ Invalid \in Sock /\ Invalid \notin Handle
BY HubConstants DEF Slot, NoState, Invalid, Sock

LEMMA FreePeerType == FreePeer \in Peer
BY SlotTypes DEF FreePeer, Peer

LEMMA UsdoType == Usdo \in Message /\ Usdo.kind = "USDO"
BY AnyNodeType DEF Usdo, Message

LEMMA CloseType ==
    ASSUME HubTypeOK, NEW h, Close(h)
    PROVE  open' \subseteq Handle /\ said' \subseteq Handle /\ views' \in [Handle -> SUBSET Node]
BY DEF HubTypeOK, Close

\* The end of a drop or of a frame.
LEMMA ReturnType ==
    ASSUME HubTypeOK, main.i \in Slot
    PROVE  /\ Return(main) \in Main
           /\ Return(main).pc = IF main.draining THEN "drain" ELSE "scan"
           /\ Return(main).i = main.i + 1
           /\ Return(main).draining = main.draining
           /\ Return(main).msg = Usdo
BY SlotTypes, UsdoType DEF HubTypeOK, Return, Main, MainPc

LEMMA LoopType == HubTypeOK /\ Loop => HubTypeOK'
<1>. SUFFICES ASSUME HubTypeOK, Loop
              PROVE  HubTypeOK'
  OBVIOUS
<1>1. {peers[k].sock : k \in {s \in Slot : peers[s].in_use}} \subseteq Sock
  BY DEF HubTypeOK, Peer
<1>2. main' \in Main /\ main'.pc \in {"drain", "select"}
  BY <1>1, SlotTypes DEF HubTypeOK, Loop, Main, MainPc
<1>. QED  BY <1>2 DEF HubTypeOK, Loop, table

LEMMA SelectType == HubTypeOK /\ Select => HubTypeOK'
<1>. SUFFICES ASSUME HubTypeOK, Select
              PROVE  HubTypeOK'
  OBVIOUS
<1>1. main' \in Main /\ main'.pc \in {"loop", "drain", "accept", "scan"}
  <2>1. ASSUME NEW p \in MainPc, NEW r \in SUBSET Sock
        PROVE  /\ [main EXCEPT !.pc = p, !.ready = r] \in Main
               /\ [main EXCEPT !.pc = p, !.ready = r].pc = p
               /\ [main EXCEPT !.pc = p, !.i = 1, !.ready = r] \in Main
               /\ [main EXCEPT !.pc = p, !.i = 1, !.ready = r].pc = p
               /\ [main EXCEPT !.pc = p, !.i = 1, !.draining = TRUE, !.ready = r] \in Main
               /\ [main EXCEPT !.pc = p, !.i = 1, !.draining = TRUE, !.ready = r].pc = p
    BY SlotTypes DEF HubTypeOK, Main
  <2>2. SUBSET (main.ready \cap open) \subseteq SUBSET Sock /\ {} \in SUBSET Sock
    BY DEF HubTypeOK, Main
  <2>3. {"loop", "drain", "accept", "scan"} \subseteq MainPc
    BY DEF MainPc
  <2>4. CASE main' = [main EXCEPT !.pc = "loop", !.ready = {}]
    BY <2>1, <2>2, <2>3, <2>4
  <2>5. CASE main' = [main EXCEPT !.pc = "drain", !.i = 1, !.draining = TRUE, !.ready = {}]
    BY <2>1, <2>2, <2>3, <2>5
  <2>6. ASSUME NEW r \in SUBSET (main.ready \cap open), NEW p \in {"accept", "scan"},
               main' = [main EXCEPT !.pc = p, !.i = 1, !.ready = r]
        PROVE  main' \in Main /\ main'.pc = p
    <3>1. p \in MainPc /\ r \in SUBSET Sock
      BY <2>2, <2>3
    <3>. QED  BY <2>1, <2>6, <3>1
  <2>. QED  BY <2>4, <2>5, <2>6 DEF Select
<1>. QED  BY <1>1 DEF HubTypeOK, Select, table

LEMMA AcceptType == HubTypeOK /\ AcceptNewPeer => HubTypeOK'
<1>. SUFFICES ASSUME HubTypeOK, AcceptNewPeer
              PROVE  HubTypeOK'
  OBVIOUS
<1>1. CASE main' = [main EXCEPT !.pc = "scan"] /\ UNCHANGED <<pool, open>>
  <2>1. main' \in Main /\ main'.pc = "scan"
    BY <1>1 DEF HubTypeOK, Main, MainPc
  <2>. QED  BY <1>1, <2>1 DEF HubTypeOK, AcceptNewPeer
<1>2. ASSUME NEW h \in Handle \ open, FreeSlots # {}, open' = open \cup {h}, NEW u,
             u = IF FreeStates = {} THEN NoState ELSE Min(FreeStates), Alloc(u),
             main' = [main EXCEPT !.pc = "place", !.i = Min(FreeSlots), !.sock = h, !.user = u]
      PROVE  HubTypeOK'
  <2>1. Min(FreeSlots) \in Slot /\ u \in 0..MaxPeers
    BY <1>2, FreeTypes, SlotTypes DEF FreeSlots, FreeStates
  <2>2. main' \in Main /\ main'.i \in Slot
    BY <1>2, <2>1, SlotTypes DEF HubTypeOK, Main, MainPc, Sock
  <2>3. pool' \in [Slot -> PoolEntry]
    BY <1>2, AnyNodeType DEF HubTypeOK, Alloc, PoolEntry
  <2>. QED  BY <1>2, <2>2, <2>3 DEF HubTypeOK, AcceptNewPeer
<1>. QED  BY <1>1, <1>2 DEF AcceptNewPeer, Reject

LEMMA PlaceType == HubTypeOK /\ Place => HubTypeOK'
<1>. SUFFICES ASSUME HubTypeOK, Place
              PROVE  HubTypeOK'
  OBVIOUS
<1>1. main' \in Main /\ main'.pc = "scan"
  BY SlotTypes DEF HubTypeOK, Place, Main, MainPc
<1>2. peers' \in [Slot -> Peer]
  <2>1. [sock |-> main.sock, in_use |-> TRUE, user |-> main.user] \in Peer
    BY DEF HubTypeOK, Main, Peer
  <2>. QED  BY <2>1 DEF HubTypeOK, Place
<1>. QED  BY <1>1, <1>2 DEF HubTypeOK, Place

LEMMA ScanType == HubTypeOK /\ Scan => HubTypeOK'
<1>. SUFFICES ASSUME HubTypeOK, Scan
              PROVE  HubTypeOK'
  OBVIOUS
<1>1. CASE main' = [main EXCEPT !.pc = "loop", !.i = 1, !.ready = {}]
  <2>1. main' \in Main /\ main'.pc = "loop"
    BY <1>1, SlotTypes DEF HubTypeOK, Main, MainPc
  <2>. QED  BY <2>1 DEF HubTypeOK, Scan, table
<1>2. CASE /\ main.i \in Slot
           /\ main' = [main EXCEPT !.pc = "read", !.sock = peers[main.i].sock,
                                   !.user = peers[main.i].user]
  <2>1. main' \in Main /\ main'.i \in Slot
    BY <1>2, SlotTypes DEF HubTypeOK, Main, MainPc, Peer
  <2>. QED  BY <2>1 DEF HubTypeOK, Scan, table
<1>3. CASE main.i \in Slot /\ main' = [main EXCEPT !.i = @ + 1]
  <2>1. main' \in Main /\ main'.pc = "scan"
    BY <1>3, SlotTypes DEF HubTypeOK, Main, Scan, At
  <2>. QED  BY <2>1 DEF HubTypeOK, Scan, table
<1>. QED  BY <1>1, <1>2, <1>3 DEF Scan

LEMMA ReadType == HubTypeOK /\ (PeerReadable \/ ReadFails) => HubTypeOK'
<1>. SUFFICES ASSUME HubTypeOK, PeerReadable \/ ReadFails
              PROVE  HubTypeOK'
  OBVIOUS
<1>1. main.i \in Slot
  BY DEF HubTypeOK, PeerReadable, ReadFails, At
<1>2. CASE main' = [main EXCEPT !.pc = "drop"] /\ UNCHANGED <<pool, said, quiet>>
  <2>1. main' \in Main /\ main'.i \in Slot
    BY <1>1, <1>2 DEF HubTypeOK, Main, MainPc
  <2>. QED  BY <1>2, <2>1 DEF HubTypeOK, PeerReadable, ReadFails, table
<1>3. ASSUME NEW m \in Message, main' = [main EXCEPT !.pc = "relay", !.j = 1, !.msg = m]
      PROVE  main' \in Main /\ main'.i \in Slot
  BY <1>1, <1>3, SlotTypes DEF HubTypeOK, Main, MainPc
<1>4. CASE /\ PeerReadable
           /\ main' = [main EXCEPT !.pc = "relay", !.j = 1, !.msg = Usdo]
           /\ UNCHANGED <<pool, said, quiet>>
  BY <1>3, <1>4, UsdoType DEF HubTypeOK, PeerReadable
<1>5. ASSUME PeerReadable, NEW n \in Node, said' = said \cup {main.sock},
             pool' = IF main.user = NoState THEN pool
                     ELSE [pool EXCEPT ![main.user].announced = TRUE, ![main.user].node = n],
             quiet' = IF main.user = NoState THEN quiet \cup {n} ELSE quiet,
             main' = [main EXCEPT !.pc = "relay", !.j = 1,
                                  !.msg = [kind |-> "ANNOUNCE", node |-> n]]
      PROVE  HubTypeOK'
  <2>1. main' \in Main /\ main'.i \in Slot
    <3>. DEFINE m == [kind |-> "ANNOUNCE", node |-> n]
    <3>1. m \in Message
      BY DEF Message
    <3>2. main' = [main EXCEPT !.pc = "relay", !.j = 1, !.msg = m]
      BY <1>5
    <3>. HIDE DEF m
    <3>. QED  BY <1>3, <3>1, <3>2
  <2>2. pool' \in [Slot -> PoolEntry]
    BY <1>5, SlotTypes DEF HubTypeOK, Main, PoolEntry
  <2>3. said' \subseteq Handle
    BY <1>5 DEF HubTypeOK, PeerReadable
  <2>. QED  BY <1>5, <2>1, <2>2, <2>3 DEF HubTypeOK, PeerReadable
<1>. QED  BY <1>2, <1>4, <1>5 DEF PeerReadable, ReadFails, table

LEMMA RelayType == HubTypeOK /\ (RelayBytes \/ RelayEnd) => HubTypeOK'
<1>. SUFFICES ASSUME HubTypeOK, RelayBytes \/ RelayEnd
              PROVE  HubTypeOK'
  OBVIOUS
<1>1. main.i \in Slot
  BY DEF HubTypeOK, RelayBytes, RelayEnd, At
<1>2. CASE RelayBytes
  <2>1. main' \in Main /\ main'.i \in Slot
    BY <1>1, <1>2, SlotTypes DEF HubTypeOK, RelayBytes, Main
  <2>2. open' \subseteq Handle /\ said' \subseteq Handle /\ views' \in [Handle -> SUBSET Node]
    <3>1. ASSUME NEW h, Deliver(h)
          PROVE  views' \in [Handle -> SUBSET Node]
      <4>1. main.msg.node \in Node
        BY DEF HubTypeOK, Main, Message
      <4>2. \A V \in SUBSET Node : V \cup {main.msg.node} \in SUBSET Node /\ V \ {main.msg.node} \in SUBSET Node
        BY <4>1
      <4>. QED  BY <3>1, <4>2 DEF HubTypeOK, Deliver
    <3>. QED  BY <1>2, <3>1, CloseType DEF RelayBytes, RelayFail, HubTypeOK
  <2>3. peers' \in [Slot -> Peer]
    BY <1>2, FreePeerType DEF HubTypeOK, RelayBytes, RelayFail
  <2>4. quiet' \subseteq Node
    <3>1. \A u \in 0..MaxPeers : u # NoState => pool[u].node \in Node
      BY SlotTypes DEF HubTypeOK, PoolEntry
    <3>2. \A k \in Slot : peers[k].user \in 0..MaxPeers
      BY DEF HubTypeOK, Peer
    <3>. QED  BY <1>2, <3>1, <3>2 DEF HubTypeOK, RelayBytes, RelayFail, Announced
  <2>. QED  BY <1>2, <2>1, <2>2, <2>3, <2>4 DEF HubTypeOK, RelayBytes
<1>3. CASE RelayEnd
  <2>1. main' \in Main /\ (main'.pc \in {"place", "read", "relay", "drop", "finish"} => main'.i \in Slot)
    BY <1>1, <1>3, ReturnType, UsdoType DEF HubTypeOK, RelayEnd, Main, MainPc
  <2>. QED  BY <1>3, <2>1 DEF HubTypeOK, RelayEnd, table
<1>. QED  BY <1>2, <1>3

LEMMA DropType == HubTypeOK /\ (DropPeer \/ FinishDrop) => HubTypeOK'
<1>. SUFFICES ASSUME HubTypeOK, DropPeer \/ FinishDrop
              PROVE  HubTypeOK'
  OBVIOUS
<1>1. main.i \in Slot
  BY DEF HubTypeOK, DropPeer, FinishDrop, At
<1>2. CASE DropPeer
  <2>1. peers' \in [Slot -> Peer]
    BY <1>1, <1>2, FreePeerType DEF HubTypeOK, DropPeer
  <2>2. CASE main' = Return(main)
    BY <1>1, <1>2, <2>1, <2>2, ReturnType DEF HubTypeOK, DropPeer
  <2>. DEFINE p == peers[main.i]
  <2>3. p.sock \in Sock /\ p.user \in 0..MaxPeers
    BY <1>1 DEF HubTypeOK, Peer
  <2>4. Announced(p.user) => pool[p.user].node \in Node
    BY <2>3, SlotTypes DEF HubTypeOK, PoolEntry, Announced
  <2>. HIDE DEF p
  <2>5. CASE /\ Announced(p.user)
             /\ main' = [main EXCEPT !.pc = "relay", !.j = 1, !.sock = p.sock, !.user = p.user,
                                     !.msg = [kind |-> "LOSS", node |-> pool[p.user].node]]
    <3>1. main' \in Main /\ main'.i \in Slot
      BY <1>1, <2>3, <2>4, <2>5, SlotTypes DEF HubTypeOK, Main, MainPc, Message
    <3>. QED  BY <1>2, <2>1, <3>1 DEF HubTypeOK, DropPeer
  <2>6. CASE main' = [main EXCEPT !.pc = "finish", !.sock = p.sock, !.user = p.user]
    <3>1. main' \in Main /\ main'.i \in Slot
      BY <1>1, <2>3, <2>6 DEF HubTypeOK, Main, MainPc
    <3>. QED  BY <1>2, <2>1, <3>1 DEF HubTypeOK, DropPeer
  <2>. QED  BY <1>2, <2>2, <2>5, <2>6 DEF DropPeer, p
<1>3. CASE FinishDrop
  <2>1. open' \subseteq Handle /\ said' \subseteq Handle /\ views' \in [Handle -> SUBSET Node]
    BY <1>3, CloseType DEF FinishDrop
  <2>2. pool' \in [Slot -> PoolEntry]
    BY <1>3 DEF FinishDrop, HubTypeOK, PoolEntry
  <2>. QED  BY <1>1, <1>3, <2>1, <2>2, ReturnType DEF HubTypeOK, FinishDrop
<1>. QED  BY <1>2, <1>3

LEMMA DrainType == HubTypeOK /\ Drain => HubTypeOK'
<1>. SUFFICES ASSUME HubTypeOK, Drain
              PROVE  HubTypeOK'
  OBVIOUS
<1>1. main' \in Main /\ (main'.pc \in {"place", "read", "relay", "drop", "finish"} => main'.i \in Slot)
  BY SlotTypes DEF HubTypeOK, Drain, Main, MainPc, At
<1>. QED  BY <1>1 DEF HubTypeOK, Drain

LEMMA CtrlType == HubTypeOK /\ (CtrlEvent \/ CtrlStep) => HubTypeOK'
<1>. SUFFICES ASSUME HubTypeOK, CtrlEvent \/ CtrlStep
              PROVE  HubTypeOK'
  OBVIOUS
<1>1. CASE CtrlEvent \/ CtrlListener
  <2>1. ctrl' \in Ctrl /\ ctrl'.pc # "close"
    BY <1>1 DEF HubTypeOK, CtrlEvent, CtrlListener, Ctrl
  <2>. QED  BY <1>1, <2>1 DEF HubTypeOK, CtrlEvent, CtrlListener
<1>2. CASE CtrlSweep
  <2>1. \A k \in Slot : peers[k].sock \in Sock
    BY DEF HubTypeOK, Peer
  <2>2. ctrl' \in Ctrl /\ (ctrl'.pc = "close" => ctrl'.k \in Slot)
    <3>1. CASE ctrl' = [ctrl EXCEPT !.pc = "done", !.k = 1]
      BY <3>1, SlotTypes DEF HubTypeOK, Ctrl
    <3>2. CASE ctrl.k \in Slot /\ ctrl' = [ctrl EXCEPT !.pc = "close", !.ps = peers[ctrl.k].sock]
      BY <2>1, <3>2 DEF HubTypeOK, Ctrl
    <3>3. CASE ctrl.k \in Slot /\ ctrl' = [ctrl EXCEPT !.k = @ + 1]
      BY <1>2, <3>3, SlotTypes DEF HubTypeOK, Ctrl, CtrlSweep
    <3>. QED  BY <1>2, <3>1, <3>2, <3>3 DEF CtrlSweep
  <2>. QED  BY <1>2, <2>2 DEF HubTypeOK, CtrlSweep, table
<1>3. CASE CtrlClose
  <2>1. ctrl' \in Ctrl /\ ctrl'.pc # "close"
    BY <1>3, SlotTypes DEF HubTypeOK, CtrlClose, Ctrl
  <2>2. peers' \in [Slot -> Peer]
    BY <1>3, SlotTypes DEF HubTypeOK, CtrlClose, Peer
  <2>. QED  BY <1>3, <2>1, <2>2, CloseType DEF HubTypeOK, CtrlClose
<1>. QED  BY <1>1, <1>2, <1>3 DEF CtrlStep

LEMMA HubTypeStep == HubTypeOK /\ [Next]_vars => HubTypeOK'
<1>1. HubTypeOK /\ UNCHANGED vars => HubTypeOK'
  BY DEF HubTypeOK, vars
<1>. QED  BY <1>1, LoopType, SelectType, AcceptType, PlaceType, ScanType, ReadType, RelayType,
             DropType, DrainType, CtrlType DEF Next, MainStep, Stopped

LEMMA HubInitType == Init => HubTypeOK
<1>. SUFFICES ASSUME Init
              PROVE  HubTypeOK
  OBVIOUS
<1>1. main \in Main /\ main.pc = "loop"
  BY SlotTypes, UsdoType DEF Init, Main, MainPc
<1>2. ctrl \in Ctrl /\ ctrl.pc = "idle"
  BY SlotTypes DEF Init, Ctrl
<1>. QED  BY <1>1, <1>2, FreePeerType, AnyNodeType DEF Init, HubTypeOK, PoolEntry

\* Both threads keep the tables and the locals of bus_common.c well formed:
\* in particular no cursor leaves the table.
THEOREM HubTypeCorrect == Spec => []HubTypeOK
<1>. QED  BY HubInitType, HubTypeStep, PTL DEF Spec

-----------------------------------------------------------------------------
(* Who owns a slot, a socket and a state of the variant. *)

\* A step of the event loop that only moves its cursor and its locals.
LEMMA CursorMoves ==
    ASSUME TableInv, UNCHANGED <<peers, pool, shutdown, open, said, ctrl>>, listening' => listening,
           main'.pc # "place"
    PROVE  Threads' /\ Table'
<1>1. Used' = Used /\ (\A u : Announced(u)' = Announced(u))
  BY DEF Used, Announced
<1>2. StateOwned'
  BY <1>1 DEF TableInv, Table, StateOwned
<1>3. Table'
  BY <1>1, <1>2 DEF TableInv, Table
<1>4. Threads'
  BY <1>1 DEF TableInv, Threads, At
<1>. QED  BY <1>3, <1>4

LEMMA LoopTable == HubTypeOK /\ TableInv /\ (Loop \/ Select \/ Drain) => TableInv'
<1>. SUFFICES ASSUME HubTypeOK, TableInv, Loop \/ Select \/ Drain
              PROVE  TableInv'
  OBVIOUS
<1>1. UNCHANGED <<peers, pool, shutdown, open, said, ctrl>> /\ (listening' => listening)
  <2>1. CASE Loop \/ Select
    <3>1. UNCHANGED <<peers, pool, shutdown, open, said, ctrl, listening>>
      BY <2>1 DEF Loop, Select, table
    <3>. QED  BY <3>1, Zenon
  <2>2. CASE Drain
    <3>1. UNCHANGED <<peers, pool, shutdown, open, said, ctrl>>
      BY <2>2 DEF Drain
    <3>2. listening' => listening
      BY <2>2, Zenon DEF Drain
    <3>. QED  BY <3>1, <3>2
  <2>. QED  BY <2>1, <2>2
<1>2. main'.pc \in {"loop", "select", "accept", "scan", "drain", "drop", "done"}
  BY DEF Loop, Select, Drain, HubTypeOK, Main, At
<1>3. main'.pc = "select" /\ ~shutdown => main'.ready \subseteq open
  <2>1. CASE Loop
    <3>1. ~shutdown => main'.ready = {peers[k].sock : k \in Used}
      BY <2>1 DEF Loop, Used, HubTypeOK, Main
    <3>. QED  BY <3>1 DEF TableInv, Table
  <2>2. CASE Select \/ Drain
    <3>1. main'.pc # "select"
      BY <2>2 DEF Select, Drain, HubTypeOK, Main, At
    <3>. QED  BY <3>1
  <2>. QED  BY <2>1, <2>2
<1>4. Locals'
  BY <1>1, <1>2, <1>3 DEF Locals, At, Closing, Telling
<1>. QED  BY <1>1, <1>2, <1>4, CursorMoves DEF TableInv

LEMMA ScanTable == HubTypeOK /\ TableInv /\ Scan => TableInv'
<1>. SUFFICES ASSUME HubTypeOK, TableInv, Scan
              PROVE  TableInv'
  OBVIOUS
<1>1. UNCHANGED <<peers, pool, shutdown, open, said, ctrl, listening>>
  BY DEF Scan, table
<1>2. CASE main'.pc \in {"loop", "scan"}
  <2>1. Locals'
    BY <1>2 DEF Locals, At, Closing, Telling
  <2>. QED  BY <1>1, <1>2, <2>1, CursorMoves DEF TableInv
<1>3. CASE /\ main.i \in Used
           /\ main' = [main EXCEPT !.pc = "read", !.sock = peers[main.i].sock,
                                   !.user = peers[main.i].user]
  <2>1. /\ main'.pc = "read" /\ main'.i = main.i
        /\ main'.sock = peers[main.i].sock /\ main'.user = peers[main.i].user
    BY <1>3 DEF HubTypeOK, Main
  <2>2. \A k \in Used \ {main.i} : peers[k].sock = peers[main.i].sock => peers[k].sock = Invalid
    BY <1>3 DEF TableInv, Table, StateOwned
  <2>3. Locals'
    BY <1>1, <1>3, <2>1, <2>2 DEF Locals, At, Closing, Telling, Used
  <2>. QED  BY <1>1, <2>1, <2>3, CursorMoves DEF TableInv
<1>4. \/ main'.pc \in {"loop", "scan"}
      \/ /\ main.i \in Used
         /\ main' = [main EXCEPT !.pc = "read", !.sock = peers[main.i].sock,
                                 !.user = peers[main.i].user]
  BY DEF Scan, Used, HubTypeOK, Main, At
<1>. QED  BY <1>2, <1>3, <1>4

LEMMA AcceptTable == HubTypeOK /\ TableInv /\ AcceptNewPeer => TableInv'
<1>. SUFFICES ASSUME HubTypeOK, TableInv, AcceptNewPeer
              PROVE  TableInv'
  OBVIOUS
<1>1. CASE main' = [main EXCEPT !.pc = "scan"] /\ UNCHANGED <<pool, open>>
  <2>1. main'.pc = "scan"
    BY <1>1 DEF HubTypeOK, Main
  <2>2. Locals'
    BY <2>1 DEF Locals, At, Closing, Telling
  <2>. QED  BY <1>1, <2>1, <2>2, CursorMoves DEF TableInv, AcceptNewPeer
<1>2. ASSUME NEW h \in Handle \ open, FreeSlots # {}, open' = open \cup {h}, NEW u, listening,
             u = IF FreeStates = {} THEN NoState ELSE Min(FreeStates), Alloc(u),
             main' = [main EXCEPT !.pc = "place", !.i = Min(FreeSlots), !.sock = h, !.user = u]
      PROVE  TableInv'
  <2>1. Min(FreeSlots) \in Slot /\ ~peers[Min(FreeSlots)].in_use
    BY <1>2, FreeTypes DEF FreeSlots
  <2>2. u # NoState => u \in Slot /\ ~pool[u].in_use
    BY <1>2, FreeTypes DEF FreeStates
  <2>3. main'.pc = "place" /\ main'.i = Min(FreeSlots) /\ main'.sock = h /\ main'.user = u
    BY <1>2 DEF HubTypeOK, Main
  <2>4. UNCHANGED <<peers, listening, shutdown, ctrl, said>>
    BY DEF AcceptNewPeer
  <2>5. Threads'
    BY <1>2, <2>4 DEF TableInv, Threads, Used
  <2>6. Used' = Used
    BY <2>4 DEF Used
  <2>7. \A k \in Used : peers[k].user # NoState =>
            peers[k].user \in Slot /\ peers[k].user # u /\ pool'[peers[k].user] = pool[peers[k].user]
    <3>1. \A k \in Used : peers[k].user # NoState => pool[peers[k].user].in_use /\ peers[k].user \in Slot
      BY SlotTypes DEF TableInv, Table, StateOwned, Used, HubTypeOK, Peer
    <3>. QED  BY <1>2, <2>2, <3>1 DEF Alloc, HubTypeOK
  <2>8. \A k \in Used : peers[k].sock # h
    BY <1>2, SlotTypes DEF TableInv, Table
  <2>9. Table'
    <3>1. StateOwned'
      BY <1>2, <2>4, <2>6, <2>7, <2>8 DEF TableInv, Table, StateOwned, Announced
    <3>. QED  BY <1>2, <2>4, <2>6, <3>1 DEF TableInv, Table
  <2>10. u # NoState => pool'[u].in_use /\ ~pool'[u].announced
    BY <1>2, <2>2 DEF Alloc, HubTypeOK
  <2>11. h \in open' \ said'
    BY <1>2, <2>4 DEF TableInv, Table
  <2>12. Locals'
    BY <2>1, <2>3, <2>4, <2>6, <2>7, <2>8, <2>10, <2>11 DEF Locals, At, Closing, Telling
  <2>. QED  BY <2>5, <2>9, <2>12 DEF TableInv
<1>. QED  BY <1>1, <1>2 DEF AcceptNewPeer, Reject

LEMMA PlaceTable == HubTypeOK /\ TableInv /\ Place => TableInv'
<1>. SUFFICES ASSUME HubTypeOK, TableInv, Place
              PROVE  TableInv'
  OBVIOUS
<1>1. UNCHANGED <<pool, listening, shutdown, ctrl, open, said>> /\ At("place")
  BY DEF Place
<1>2. main'.pc = "scan"
  BY DEF Place, HubTypeOK, Main
<1>3. main.i \in Slot /\ main.i \notin Used
  BY <1>1 DEF HubTypeOK, At, TableInv, Locals, Used
<1>4. peers'[main.i].in_use /\ peers'[main.i].sock = main.sock /\ peers'[main.i].user = main.user
  BY <1>3 DEF Place, HubTypeOK
<1>5. \A k \in Slot \ {main.i} : peers'[k] = peers[k]
  BY DEF Place, HubTypeOK
<1>6. Used' = Used \cup {main.i}
  BY <1>3, <1>4, <1>5 DEF Used
<1>7. Used \subseteq Slot
  BY DEF Used
<1>8. main.sock \in open \ said /\ main.sock # Invalid
  BY <1>1, SlotTypes DEF TableInv, Locals, HubTypeOK
<1>9. Threads'
  <2>1. CASE ctrl.pc # "close"
    BY <1>1, <2>1 DEF TableInv, Threads
  <2>2. CASE ctrl.pc = "close"
    <3>1. ctrl.k \in Slot /\ ctrl.k # main.i /\ peers'[ctrl.k] = peers[ctrl.k]
      BY <1>1, <1>5, <2>2 DEF HubTypeOK, TableInv, Threads
    <3>2. \A l \in Used' \ {ctrl.k} : peers'[l].sock # ctrl.ps
      BY <1>1, <1>4, <1>5, <1>6, <1>7, <2>2 DEF TableInv, Threads
    <3>. QED  BY <1>1, <1>2, <2>2, <3>1, <3>2 DEF TableInv, Threads, At
  <2>. QED  BY <2>1, <2>2
<1>10. StateOwned'
  <2>1. ASSUME NEW k \in Used', NEW l \in Used'
        PROVE  /\ peers'[k].sock = peers'[l].sock /\ peers'[k].sock # Invalid => k = l
               /\ peers'[k].user = peers'[l].user /\ peers'[k].user # NoState => k = l
    BY <1>1, <1>3, <1>4, <1>5, <1>6, <1>7 DEF TableInv, Table, StateOwned, Locals
  <2>2. ASSUME NEW k \in Used', peers'[k].user # NoState
        PROVE  /\ pool'[peers'[k].user].in_use
               /\ peers'[k].sock \in open' => (Announced(peers[k].user)' <=> peers'[k].sock \in said')
    BY <1>1, <1>3, <1>4, <1>5, <1>6, <1>7, <1>8, <2>2 DEF TableInv, Table, StateOwned, Locals, Announced
  <2>. QED  BY <2>1, <2>2 DEF StateOwned
<1>11. Table'
  BY <1>1, <1>3, <1>4, <1>5, <1>6, <1>7, <1>8, <1>10 DEF TableInv, Table
<1>12. Locals'
  BY <1>2 DEF Locals, At, Closing, Telling
<1>. QED  BY <1>9, <1>11, <1>12 DEF TableInv

LEMMA ReadTable == HubTypeOK /\ TableInv /\ (PeerReadable \/ ReadFails) => TableInv'
<1>. SUFFICES ASSUME HubTypeOK, TableInv, PeerReadable \/ ReadFails
              PROVE  TableInv'
  OBVIOUS
<1>1. UNCHANGED <<peers, listening, shutdown, ctrl, open>> /\ At("read")
  BY DEF PeerReadable, ReadFails, table
<1>2. CASE main' = [main EXCEPT !.pc = "drop"] /\ UNCHANGED <<pool, said>>
  <2>1. main'.pc = "drop"
    BY <1>2 DEF HubTypeOK, Main
  <2>2. Locals'
    BY <2>1 DEF Locals, At, Closing, Telling
  <2>. QED  BY <1>1, <1>2, <2>1, <2>2, CursorMoves DEF TableInv
<1>3. ASSUME NEW m, m.kind # "LOSS", main' = [main EXCEPT !.pc = "relay", !.j = 1, !.msg = m]
      PROVE  main'.pc = "relay" /\ Locals'
  <2>1. main'.pc = "relay" /\ main'.msg = m
    BY <1>3 DEF HubTypeOK, Main
  <2>. QED  BY <1>3, <2>1 DEF Locals, At, Closing, Telling
<1>4. CASE main' = [main EXCEPT !.pc = "relay", !.j = 1, !.msg = Usdo] /\ UNCHANGED <<pool, said>>
  BY <1>1, <1>3, <1>4, UsdoType, CursorMoves DEF TableInv
<1>5. ASSUME PeerReadable, NEW n \in Node, said' = said \cup {main.sock},
             pool' = IF main.user = NoState THEN pool
                     ELSE [pool EXCEPT ![main.user].announced = TRUE, ![main.user].node = n],
             main' = [main EXCEPT !.pc = "relay", !.j = 1,
                                  !.msg = [kind |-> "ANNOUNCE", node |-> n]]
      PROVE  TableInv'
  <2>1. main'.pc = "relay" /\ Locals'
    <3>. DEFINE m == [kind |-> "ANNOUNCE", node |-> n]
    <3>1. m.kind # "LOSS"
      OBVIOUS
    <3>2. main' = [main EXCEPT !.pc = "relay", !.j = 1, !.msg = m]
      BY <1>5
    <3>. HIDE DEF m
    <3>. QED  BY <1>3, <3>1, <3>2
  <2>2. Used' = Used /\ main.i \in Used /\ main.sock \in open /\ main.sock # Invalid
    BY <1>1, <1>5, SlotTypes DEF Used, PeerReadable, HubTypeOK, TableInv, Locals, At
  <2>3. Threads'
    BY <1>1, <2>1, <2>2 DEF TableInv, Threads, At
  <2>4. peers[main.i].user = main.user /\ peers[main.i].sock \in {main.sock, Invalid}
    BY <1>1 DEF TableInv, Locals
  <2>5. \A k \in Used : peers[k].user # NoState => peers[k].user \in Slot /\ pool[peers[k].user].in_use
    BY SlotTypes DEF TableInv, Table, StateOwned, Used, HubTypeOK, Peer
  <2>6. ASSUME NEW k \in Used, peers[k].user # NoState
        PROVE  /\ pool'[peers[k].user].in_use
               /\ peers[k].sock \in open => (Announced(peers[k].user)' <=> peers[k].sock \in said')
    <3>1. CASE k = main.i
      <4>1. pool'[main.user].in_use /\ pool'[main.user].announced
        BY <1>5, <2>4, <2>5, <2>6, <3>1 DEF HubTypeOK, PoolEntry
      <4>2. peers[k].sock \in open => peers[k].sock = main.sock
        BY <2>4, <3>1, SlotTypes DEF HubTypeOK
      <4>. QED  BY <1>1, <1>5, <2>4, <2>6, <3>1, <4>1, <4>2 DEF Announced
    <3>2. CASE k # main.i
      <4>1. peers[k].user # main.user /\ peers[k].sock # main.sock
        BY <1>1, <2>2, <2>4, <2>6, <3>2 DEF TableInv, Table, StateOwned, Locals
      <4>2. pool'[peers[k].user] = pool[peers[k].user]
        BY <1>5, <2>5, <2>6, <4>1 DEF HubTypeOK
      <4>. QED  BY <1>1, <1>5, <2>6, <4>1, <4>2 DEF TableInv, Table, StateOwned, Announced
    <3>. QED  BY <3>1, <3>2
  <2>7. StateOwned'
    BY <1>1, <2>2, <2>6 DEF TableInv, Table, StateOwned
  <2>8. Table'
    BY <1>1, <1>5, <2>2, <2>7 DEF TableInv, Table
  <2>. QED  BY <2>1, <2>3, <2>8 DEF TableInv
<1>. QED  BY <1>2, <1>4, <1>5 DEF PeerReadable, ReadFails, table

\* Slots that lose their socket, and a socket that closes, leave the others be.
LEMMA FewerPeers ==
    ASSUME HubTypeOK, TableInv, NEW h, peers' \in [Slot -> Peer],
           UNCHANGED <<listening, shutdown>>, ctrl'.pc = "close" => UNCHANGED ctrl,
           open' = open \ {h}, said' = said \ {h}, ctrl'.pc # "idle" => shutdown,
           listening => ctrl'.pc \in {"idle", "listener"},
           \A k \in Used' : k \in Used /\ peers'[k].user = peers[k].user,
           \A k \in Used' : peers'[k].sock = peers[k].sock \/ (shutdown /\ peers'[k].sock = Invalid),
           \A k \in Used' : peers'[k].sock # h \/ h = Invalid,
           \A k \in Used' : peers[k].user # NoState => pool'[peers[k].user] = pool[peers[k].user],
           ctrl'.pc = "close" => \A k \in Used' : peers'[k] = peers[k],
           main'.pc = "place" => main.pc = "place" /\ main' = main
    PROVE  Threads' /\ Table'
<1>1. Threads'
  <2>1. CASE ctrl'.pc # "close"
    BY <2>1 DEF TableInv, Threads
  <2>2. CASE ctrl'.pc = "close"
    <3>1. peers'[ctrl.k].in_use => ctrl.k \in Used'
      BY <2>2 DEF Used, HubTypeOK
    <3>. QED  BY <2>2, <3>1 DEF TableInv, Threads, Used, At
  <2>. QED  BY <2>1, <2>2
<1>2. StateOwned'
  <2>1. ASSUME NEW k \in Used', NEW l \in Used'
        PROVE  /\ peers'[k].sock = peers'[l].sock /\ peers'[k].sock # Invalid => k = l
               /\ peers'[k].user = peers'[l].user /\ peers'[k].user # NoState => k = l
    BY DEF TableInv, Table, StateOwned
  <2>2. ASSUME NEW k \in Used', peers'[k].user # NoState
        PROVE  /\ pool'[peers'[k].user].in_use
               /\ peers'[k].sock \in open' => (Announced(peers[k].user)' <=> peers'[k].sock \in said')
    <3>1. peers'[k].sock \in open' => peers'[k].sock = peers[k].sock /\ peers'[k].sock # h
      BY SlotTypes DEF HubTypeOK
    <3>. QED  BY <2>2, <3>1 DEF TableInv, Table, StateOwned, Announced
  <2>. QED  BY <2>1, <2>2 DEF StateOwned
<1>3. Table'
  <2>1. ASSUME NEW k \in Used'
        PROVE  peers'[k].sock \in open' \cup {Invalid} /\ (~shutdown' => peers'[k].sock # Invalid)
    BY DEF TableInv, Table
  <2>2. said' \subseteq open'
    BY DEF TableInv, Table
  <2>. QED  BY <1>2, <2>1, <2>2 DEF Table
<1>. QED  BY <1>1, <1>3

LEMMA RelayTable == HubTypeOK /\ TableInv /\ (RelayBytes \/ RelayEnd) => TableInv'
<1>. SUFFICES ASSUME HubTypeOK, TableInv, RelayBytes \/ RelayEnd
              PROVE  TableInv'
  OBVIOUS
<1>1. CASE RelayEnd
  <2>1. UNCHANGED <<peers, pool, shutdown, open, said, ctrl, listening>>
    BY <1>1 DEF RelayEnd, table
  <2>2. CASE main.msg.kind = "LOSS"
    <3>1. main'.pc = "finish" /\ UNCHANGED <<main.sock, main.user>>
      BY <1>1, <2>2 DEF RelayEnd, HubTypeOK, Main
    <3>2. Locals'
      BY <1>1, <2>1, <2>2, <3>1 DEF TableInv, Locals, At, Closing, Telling, RelayEnd, Used
    <3>. QED  BY <2>1, <3>1, <3>2, CursorMoves DEF TableInv
  <2>3. CASE main.msg.kind # "LOSS"
    <3>1. main.i \in Slot
      BY <1>1 DEF RelayEnd, HubTypeOK, At
    <3>2. main'.pc \in {"drain", "scan"}
      BY <1>1, <2>3, <3>1, ReturnType DEF RelayEnd
    <3>3. Locals'
      BY <3>2 DEF Locals, At, Closing, Telling
    <3>. QED  BY <2>1, <3>2, <3>3, CursorMoves DEF TableInv
  <2>. QED  BY <2>2, <2>3
<1>2. CASE RelayBytes
  <2>1. main'.pc = "relay" /\ At("relay") /\ UNCHANGED <<main.sock, main.user, main.msg>>
    BY <1>2 DEF RelayBytes, HubTypeOK, Main, At
  <2>2. UNCHANGED <<pool, listening, shutdown, ctrl>>
    BY <1>2 DEF RelayBytes
  <2>3. ASSUME \A k \in Used' : k \in Used /\ peers'[k] = peers[k]
        PROVE  Locals'
    BY <2>1, <2>3 DEF TableInv, Locals, At, Closing, Telling
  <2>4. CASE UNCHANGED <<peers, open, said>>
    <3>1. Locals'
      BY <2>3, <2>4 DEF Used
    <3>. QED  BY <2>1, <2>2, <2>4, <3>1, CursorMoves DEF TableInv
  <2>5. CASE main.j \in Slot /\ peers[main.j].in_use /\ RelayFail(main.j)
    <3>. DEFINE h == peers[main.j].sock
    <3>1. open' = open \ {h} /\ said' = said \ {h}
      BY <2>5 DEF RelayFail, Close
    <3>2. peers' \in [Slot -> Peer]
      BY <2>5, FreePeerType DEF RelayFail, HubTypeOK
    <3>3. \A k \in Used' : k \in Used /\ peers'[k] = peers[k] /\ k # main.j
      BY <2>5 DEF RelayFail, Used, FreePeer, HubTypeOK
    <3>4. \A k \in Used' : peers'[k].sock # h \/ h = Invalid
      BY <2>5, <3>3 DEF TableInv, Table, StateOwned, Used
    <3>5. (ctrl'.pc # "idle" => shutdown) /\ (listening => ctrl'.pc \in {"idle", "listener"})
      BY <2>2 DEF TableInv, Threads
    <3>6. Locals'
      BY <2>3, <3>3
    <3>. HIDE DEF h
    <3>7. Threads' /\ Table'
      BY <2>1, <2>2, <3>1, <3>2, <3>3, <3>4, <3>5, FewerPeers
    <3>. QED  BY <3>6, <3>7 DEF TableInv
  <2>. QED  BY <1>2, <2>4, <2>5 DEF RelayBytes
<1>. QED  BY <1>1, <1>2

LEMMA DropTable == HubTypeOK /\ TableInv /\ DropPeer => TableInv'
<1>. SUFFICES ASSUME HubTypeOK, TableInv, DropPeer
              PROVE  TableInv'
  OBVIOUS
<1>1. UNCHANGED <<pool, listening, shutdown, ctrl, open, said>> /\ main.i \in Slot
  BY DEF DropPeer, HubTypeOK, At
<1>2. CASE main' = Return(main) /\ UNCHANGED peers
  <2>1. main'.pc \in {"drain", "scan"}
    BY <1>1, <1>2, ReturnType
  <2>2. Locals'
    BY <2>1 DEF Locals, At, Closing, Telling
  <2>. QED  BY <1>1, <1>2, <2>1, <2>2, CursorMoves DEF TableInv
<1>3. CASE /\ peers[main.i].in_use
           /\ peers' = [peers EXCEPT ![main.i] = FreePeer]
           /\ main'.pc \in {"relay", "finish"}
           /\ main'.sock = peers[main.i].sock /\ main'.user = peers[main.i].user
  <2>1. peers' \in [Slot -> Peer]
    BY <1>3, FreePeerType DEF HubTypeOK
  <2>2. \A k \in Used' : k \in Used /\ peers'[k] = peers[k] /\ k # main.i
    BY <1>1, <1>3 DEF Used, FreePeer, HubTypeOK
  <2>3. main.i \in Used
    BY <1>1, <1>3 DEF Used
  <2>4. \A k \in Used' : /\ peers'[k].sock = main'.sock => main'.sock = Invalid
                         /\ peers'[k].user = main'.user => main'.user = NoState
    BY <1>3, <2>2, <2>3 DEF TableInv, Table, StateOwned
  <2>5. Locals'
    BY <1>3, <2>4 DEF Locals, At, Closing, Telling
  <2>6. (ctrl'.pc # "idle" => shutdown) /\ (listening => ctrl'.pc \in {"idle", "listener"})
    BY <1>1 DEF TableInv, Threads
  <2>7. open' = open \ {Invalid} /\ said' = said \ {Invalid}
    BY <1>1, SlotTypes DEF HubTypeOK
  <2>8. Threads' /\ Table'
    BY <1>1, <1>3, <2>1, <2>2, <2>6, <2>7, FewerPeers
  <2>. QED  BY <2>5, <2>8 DEF TableInv
<1>. QED  BY <1>2, <1>3 DEF DropPeer, HubTypeOK, Main

LEMMA FinishTable == HubTypeOK /\ TableInv /\ FinishDrop => TableInv'
<1>. SUFFICES ASSUME HubTypeOK, TableInv, FinishDrop
              PROVE  TableInv'
  OBVIOUS
<1>1. UNCHANGED <<peers, listening, shutdown, ctrl>> /\ main.i \in Slot /\ Closing
  BY DEF FinishDrop, HubTypeOK, At, Closing
<1>2. main'.pc \in {"drain", "scan"}
  BY <1>1, ReturnType DEF FinishDrop
<1>3. Locals'
  BY <1>2 DEF Locals, At, Closing, Telling
<1>4. Used' = Used
  BY <1>1 DEF Used
<1>5. \A k \in Used : peers[k].sock # main.sock \/ main.sock = Invalid
  BY <1>1 DEF TableInv, Locals
<1>6. \A k \in Used : peers[k].user # NoState => pool'[peers[k].user] = pool[peers[k].user]
  <2>1. \A k \in Used : peers[k].user # NoState => peers[k].user \in Slot /\ peers[k].user # main.user
    BY <1>1, SlotTypes DEF TableInv, Locals, Used, HubTypeOK, Peer
  <2>. QED  BY <2>1 DEF FinishDrop, HubTypeOK
<1>7. open' = open \ {main.sock} /\ said' = said \ {main.sock}
  BY DEF FinishDrop, Close
<1>8. (ctrl'.pc # "idle" => shutdown) /\ (listening => ctrl'.pc \in {"idle", "listener"})
  BY <1>1 DEF TableInv, Threads
<1>9. peers' \in [Slot -> Peer]
  BY <1>1 DEF HubTypeOK
<1>10. Threads' /\ Table'
  BY <1>1, <1>2, <1>4, <1>5, <1>6, <1>7, <1>8, <1>9, FewerPeers
<1>. QED  BY <1>3, <1>10 DEF TableInv

LEMMA CtrlTable == HubTypeOK /\ TableInv /\ (CtrlEvent \/ CtrlStep) => TableInv'
<1>. SUFFICES ASSUME HubTypeOK, TableInv, CtrlEvent \/ CtrlStep
              PROVE  TableInv'
  OBVIOUS
<1>1. CASE CtrlEvent \/ CtrlListener \/ CtrlSweep
  <2>1. UNCHANGED <<peers, pool, main, open, said>> /\ (shutdown => shutdown')
    BY <1>1 DEF CtrlEvent, CtrlListener, CtrlSweep, table
  <2>2. Used' = Used /\ (\A u : Announced(u)' = Announced(u))
    BY <2>1 DEF Used, Announced
  <2>3. Table'
    <3>1. StateOwned'
      BY <2>1, <2>2 DEF TableInv, Table, StateOwned
    <3>. QED  BY <2>1, <2>2, <3>1 DEF TableInv, Table
  <2>4. Locals'
    BY <2>1, <2>2 DEF TableInv, Locals, At, Closing, Telling
  <2>5. Threads'
    <3>1. CASE CtrlEvent \/ CtrlListener
      <4>1. ctrl'.pc \in {"listener", "sweep"} /\ shutdown' /\ (ctrl'.pc = "sweep" => ~listening')
        BY <3>1 DEF CtrlEvent, CtrlListener, TableInv, Threads, HubTypeOK, Ctrl
      <4>. QED  BY <4>1 DEF Threads
    <3>2. CASE CtrlSweep /\ ctrl'.pc # "close"
      <4>1. UNCHANGED <<shutdown, listening>> /\ ctrl.pc = "sweep"
        BY <3>2 DEF CtrlSweep, table
      <4>. QED  BY <3>2, <4>1 DEF TableInv, Threads
    <3>3. CASE CtrlSweep /\ ctrl'.pc = "close"
      <4>1. UNCHANGED <<shutdown, listening>> /\ ctrl.pc = "sweep"
        BY <3>3 DEF CtrlSweep, table
      <4>2. /\ ctrl.k \in Used /\ peers[ctrl.k].sock # Invalid
            /\ ctrl'.k = ctrl.k /\ ctrl'.ps = peers[ctrl.k].sock
        BY <3>3 DEF CtrlSweep, HubTypeOK, Ctrl, Used
      <4>3. \A l \in Used \ {ctrl.k} : peers[l].sock # peers[ctrl.k].sock
        BY <4>2 DEF TableInv, Table, StateOwned
      <4>4. At("place") => main.i # ctrl.k /\ main.sock # peers[ctrl.k].sock
        BY <4>2 DEF TableInv, Locals, Used
      <4>. QED  BY <2>1, <2>2, <3>3, <4>1, <4>2, <4>3, <4>4 DEF TableInv, Threads, At
    <3>. QED  BY <1>1, <3>1, <3>2, <3>3
  <2>. QED  BY <2>3, <2>4, <2>5 DEF TableInv
<1>2. CASE CtrlClose
  <2>. DEFINE c == ctrl.k
              h == ctrl.ps
  <2>1. UNCHANGED <<pool, listening, shutdown, main>> /\ ctrl.pc = "close" /\ c \in Slot
    BY <1>2 DEF CtrlClose, HubTypeOK
  <2>2. ctrl'.pc = "sweep"
    BY <1>2 DEF CtrlClose, HubTypeOK, Ctrl
  <2>3. shutdown /\ ~listening
    BY <2>1 DEF TableInv, Threads
  <2>4. open' = open \ {h} /\ said' = said \ {h}
    BY <1>2 DEF CtrlClose, Close
  <2>5. peers' \in [Slot -> Peer]
    BY <1>2, SlotTypes DEF CtrlClose, HubTypeOK, Peer
  <2>6. /\ peers'[c].sock = Invalid
        /\ \A k \in Slot : peers'[k].in_use = peers[k].in_use /\ peers'[k].user = peers[k].user
        /\ \A k \in Slot \ {c} : peers'[k] = peers[k]
    BY <1>2, <2>1 DEF CtrlClose, HubTypeOK, Peer
  <2>7. Used' = Used /\ Used \subseteq Slot
    BY <2>6 DEF Used
  <2>8. \A k \in Used : peers'[k].sock # h
    BY <2>1, <2>6, <2>7 DEF TableInv, Threads
  <2>9. Locals'
    <3>1. At("place") => main.sock \in open' \ said' /\ main.i \in Slot
      BY <2>1, <2>4 DEF TableInv, Locals, Threads, HubTypeOK, At
    <3>2. \A k \in Used : peers'[k].sock \in {peers[k].sock, Invalid} /\ peers'[k].user = peers[k].user
      BY <2>6, <2>7
    <3>3. Invalid \notin open
      BY SlotTypes DEF HubTypeOK
    <3>4. At("place") => Locals'
      BY <2>1, <2>6, <2>7, <3>1, <3>2, <3>3 DEF TableInv, Locals, At, Closing, Telling
    <3>5. At("read") => Locals'
      <4>1. At("read") => main.i \in Slot
        BY DEF HubTypeOK, At
      <4>. QED  BY <2>1, <2>6, <2>7, <3>2, <4>1 DEF TableInv, Locals, At, Closing, Telling
    <3>6. ~At("place") /\ ~At("read") => Locals'
      BY <2>1, <2>3, <2>7, <3>2 DEF TableInv, Locals, At, Closing, Telling
    <3>. QED  BY <3>4, <3>5, <3>6
  <2>10. \A k \in Used' : peers'[k].sock = peers[k].sock \/ (shutdown /\ peers'[k].sock = Invalid)
    BY <2>3, <2>6, <2>7
  <2>. HIDE DEF c, h
  <2>11. Threads' /\ Table'
    BY <2>1, <2>2, <2>3, <2>4, <2>5, <2>6, <2>7, <2>8, <2>10, FewerPeers
  <2>. QED  BY <2>9, <2>11 DEF TableInv
<1>. QED  BY <1>1, <1>2 DEF CtrlStep

LEMMA TableStep == HubTypeOK /\ TableInv /\ [Next]_vars => TableInv'
<1>1. TableInv /\ UNCHANGED vars => TableInv'
  BY DEF TableInv, Threads, Table, Locals, StateOwned, Closing, Telling, At, Used, Announced, vars
<1>. QED  BY <1>1, LoopTable, AcceptTable, PlaceTable, ScanTable, ReadTable, RelayTable,
             DropTable, FinishTable, CtrlTable DEF Next, MainStep, Stopped

LEMMA TableInit == Init => TableInv
<1>. SUFFICES ASSUME Init
              PROVE  TableInv
  OBVIOUS
<1>1. Used = {} /\ main.pc = "loop" /\ ctrl.pc = "idle" /\ said = {}
  BY DEF Init, Used, FreePeer
<1>. QED  BY <1>1 DEF TableInv, Threads, Table, Locals, StateOwned, Closing, Telling, At

\* The invariant behind the other theorems: the handler and the event loop
\* never hold the same slot or socket in a way the other does not expect.
THEOREM TableInvariant == Spec => [](HubTypeOK /\ TableInv)
<1>. QED  BY HubInitType, HubTypeStep, TableInit, TableStep, PTL DEF Spec

\* bus_common.c: in every interleaving of the event loop with the Ctrl handler
\* no two connected peers share a socket or a state of the variant, and a
\* state knows exactly whether its present connection has announced itself.
THEOREM PeersOwnTheirState == Spec => []StateOwned
<1>1. TableInv => StateOwned
  BY DEF TableInv, Table
<1>. QED  BY <1>1, TableInvariant, PTL

-----------------------------------------------------------------------------
(* Shutting down. *)

\* A step that gives up slots and moves no cursor.
LEMMA DrainQuiet ==
    ASSUME HubTypeOK, Draining, Used' \subseteq Used, shutdown => shutdown', listening' => listening,
           UNCHANGED <<main.pc, main.i, main.draining, main.msg>>
    PROVE  Draining'
BY DEF Draining, At, Closing, Telling

LEMMA DrainLoop == HubTypeOK /\ TableInv /\ Draining /\ (Loop \/ Select) => Draining'
<1>. SUFFICES ASSUME HubTypeOK, TableInv, Draining, Loop \/ Select
              PROVE  Draining'
  OBVIOUS
<1>1. ~main.draining
  BY DEF Draining, Loop, Select, At, Telling
<1>2. UNCHANGED <<peers, shutdown>> /\ Used \subseteq Slot /\ Used' = Used
  BY DEF Loop, Select, table, Used
<1>3. CASE main'.pc \in {"select", "loop", "accept", "scan"} /\ main'.draining = main.draining
  BY <1>1, <1>3 DEF Draining, At
<1>4. CASE main'.pc = "drain" /\ main'.i = 1 /\ main'.draining /\ shutdown
  <2>1. \A k \in Slot : k >= 1
    BY HubConstants DEF Slot
  <2>. QED  BY <1>2, <1>4, <2>1 DEF Draining, At, Closing, Telling
<1>5. CASE Loop
  <2>1. \/ main'.pc = "drain" /\ main'.i = 1 /\ main'.draining /\ shutdown
        \/ main'.pc = "select" /\ main'.draining = main.draining
    BY <1>5 DEF Loop, HubTypeOK, Main
  <2>. QED  BY <1>3, <1>4, <2>1
<1>6. CASE Select
  <2>1. ~(main.ready \subseteq open) => shutdown
    BY <1>6 DEF Select, TableInv, Locals
  <2>2. \/ main'.pc = "drain" /\ main'.i = 1 /\ main'.draining /\ ~(main.ready \subseteq open)
        \/ main'.pc \in {"loop", "accept", "scan"} /\ main'.draining = main.draining
    BY <1>6 DEF Select, HubTypeOK, Main
  <2>. QED  BY <1>3, <1>4, <2>1, <2>2
<1>. QED  BY <1>5, <1>6

LEMMA DrainServe ==
    HubTypeOK /\ Draining /\ (AcceptNewPeer \/ Place \/ Scan \/ PeerReadable \/ ReadFails) => Draining'
<1>. SUFFICES ASSUME HubTypeOK, Draining, AcceptNewPeer \/ Place \/ Scan \/ PeerReadable \/ ReadFails
              PROVE  Draining'
  OBVIOUS
<1>1. ~main.draining
  BY DEF Draining, AcceptNewPeer, Place, Scan, PeerReadable, ReadFails, At, Telling
<1>2. main'.pc \in {"scan", "place", "loop", "read", "drop", "relay"} /\ main'.draining = main.draining
  <2>1. CASE AcceptNewPeer \/ Place
    BY <2>1 DEF AcceptNewPeer, Place, HubTypeOK, Main, At
  <2>2. CASE Scan
    BY <2>2 DEF Scan, HubTypeOK, Main, At
  <2>3. CASE PeerReadable \/ ReadFails
    BY <2>3 DEF PeerReadable, ReadFails, HubTypeOK, Main, At
  <2>. QED  BY <2>1, <2>2, <2>3
<1>. QED  BY <1>1, <1>2 DEF Draining, At

\* drop_peer on a slot in use hands its socket and state to the event loop.
LEMMA DropTakes ==
    ASSUME HubTypeOK, DropPeer, peers[main.i].in_use
    PROVE  /\ peers' = [peers EXCEPT ![main.i] = FreePeer]
           /\ main'.i = main.i /\ main'.draining = main.draining
           /\ main'.sock = peers[main.i].sock /\ main'.user = peers[main.i].user
           /\ \/ /\ Announced(peers[main.i].user)
                 /\ main'.pc = "relay" /\ main'.j = 1
                 /\ main'.msg.kind = "LOSS" /\ main'.msg.node = pool[peers[main.i].user].node
              \/ /\ ~Announced(peers[main.i].user)
                 /\ main'.pc = "finish" /\ main'.msg = main.msg
<1>. DEFINE p == peers[main.i]
            m == [kind |-> "LOSS", node |-> pool[p.user].node]
<1>1. m.kind = "LOSS" /\ m.node = pool[p.user].node
  OBVIOUS
<1>2. /\ peers' = [peers EXCEPT ![main.i] = FreePeer]
      /\ main' = IF Announced(p.user)
                 THEN [main EXCEPT !.pc = "relay", !.j = 1, !.sock = p.sock, !.user = p.user, !.msg = m]
                 ELSE [main EXCEPT !.pc = "finish", !.sock = p.sock, !.user = p.user]
  BY DEF DropPeer
<1>. HIDE DEF p, m
<1>3. /\ main'.i = main.i /\ main'.draining = main.draining
      /\ main'.sock = p.sock /\ main'.user = p.user
      /\ \/ Announced(p.user) /\ main'.pc = "relay" /\ main'.j = 1 /\ main'.msg = m
         \/ ~Announced(p.user) /\ main'.pc = "finish" /\ main'.msg = main.msg
  BY <1>2 DEF HubTypeOK, Main
<1>. QED  BY <1>1, <1>2, <1>3 DEF p

\* The cursor moves past a slot that is free.
LEMMA DrainReturn ==
    ASSUME HubTypeOK, Draining, main.i \in Slot, Used' \subseteq Used \ {main.i}, shutdown' = shutdown,
           main' = Return(main)
    PROVE  Draining'
<1>1. /\ main'.pc = IF main.draining THEN "drain" ELSE "scan"
      /\ main'.i = main.i + 1 /\ main'.draining = main.draining
  BY ReturnType
<1>2. CASE main.draining
  <2>1. Used \subseteq Slot
    BY DEF Used
  <2>2. \A k \in Used' : k >= main.i + 1
    BY <1>2, <2>1, HubConstants DEF Draining, Slot
  <2>. QED  BY <1>1, <1>2, <2>2 DEF Draining, At, Closing, Telling
<1>3. CASE ~main.draining
  BY <1>1, <1>3 DEF Draining, At
<1>. QED  BY <1>2, <1>3

LEMMA DrainDrop ==
    HubTypeOK /\ Draining /\ (RelayBytes \/ RelayEnd \/ DropPeer \/ FinishDrop \/ Drain) => Draining'
<1>. SUFFICES ASSUME HubTypeOK, Draining, RelayBytes \/ RelayEnd \/ DropPeer \/ FinishDrop \/ Drain
              PROVE  Draining'
  OBVIOUS
<1>1. CASE RelayBytes
  <2>1. UNCHANGED <<main.pc, main.i, main.draining, main.msg, shutdown, listening>>
    BY <1>1 DEF RelayBytes, HubTypeOK, Main
  <2>2. Used' \subseteq Used
    BY <1>1 DEF RelayBytes, RelayFail, Used, HubTypeOK, FreePeer
  <2>. QED  BY <2>1, <2>2, DrainQuiet
<1>2. CASE RelayEnd
  <2>1. UNCHANGED <<peers, shutdown, listening>> /\ Used' = Used /\ main.i \in Slot /\ At("relay")
    BY <1>2 DEF RelayEnd, table, Used, HubTypeOK, At
  <2>2. CASE main.msg.kind = "LOSS"
    <3>1. main'.pc = "finish" /\ UNCHANGED <<main.i, main.draining>>
      BY <1>2, <2>2 DEF RelayEnd, HubTypeOK, Main
    <3>. QED  BY <2>1, <2>2, <3>1 DEF Draining, At, Closing, Telling
  <2>3. CASE main.msg.kind # "LOSS"
    <3>1. main' = Return(main) /\ ~main.draining
      BY <1>2, <2>1, <2>3 DEF RelayEnd, Draining, Telling, At
    <3>2. main'.pc = "scan" /\ ~main'.draining
      BY <2>1, <3>1, ReturnType
    <3>. QED  BY <3>2 DEF Draining, At
  <2>. QED  BY <2>2, <2>3
<1>3. CASE DropPeer
  <2>1. UNCHANGED <<shutdown, listening>> /\ main.i \in Slot /\ At("drop")
    BY <1>3 DEF DropPeer, HubTypeOK, At
  <2>2. CASE ~peers[main.i].in_use
    <3>1. main' = Return(main) /\ Used' \subseteq Used \ {main.i}
      BY <1>3, <2>2 DEF DropPeer, Used
    <3>. QED  BY <2>1, <3>1, DrainReturn
  <2>3. CASE peers[main.i].in_use
    <3>1. Used' \subseteq Used \ {main.i}
      BY <1>3, <2>1, <2>3 DEF DropPeer, Used, HubTypeOK, FreePeer
    <3>2. /\ main'.pc = "finish" \/ (main'.pc = "relay" /\ main'.msg.kind = "LOSS")
          /\ UNCHANGED <<main.i, main.draining>>
      BY <1>3, <2>3, DropTakes
    <3>. QED  BY <2>1, <3>1, <3>2 DEF Draining, At, Closing, Telling
  <2>. QED  BY <2>2, <2>3
<1>4. CASE FinishDrop
  <2>1. shutdown' = shutdown /\ main.i \in Slot /\ Closing /\ main' = Return(main)
    BY <1>4 DEF FinishDrop, HubTypeOK, At, Closing
  <2>2. Used' = Used
    BY <1>4 DEF FinishDrop, Used
  <2>3. CASE main.draining
    <3>1. Used' \subseteq Used \ {main.i}
      BY <2>1, <2>2, <2>3 DEF Draining
    <3>. QED  BY <2>1, <3>1, DrainReturn
  <2>4. CASE ~main.draining
    <3>1. main'.pc = "scan" /\ ~main'.draining
      BY <2>1, <2>4, ReturnType
    <3>. QED  BY <3>1 DEF Draining, At
  <2>. QED  BY <2>3, <2>4
<1>5. CASE Drain
  <2>1. UNCHANGED <<peers, shutdown>> /\ Used' = Used /\ Used \subseteq Slot /\ main.draining
    BY <1>5 DEF Drain, Used, Draining, At
  <2>2. CASE main.i \in Slot /\ peers[main.i].in_use /\ main' = [main EXCEPT !.pc = "drop"]
    <3>1. main'.pc = "drop" /\ UNCHANGED <<main.i, main.draining>>
      BY <2>2 DEF HubTypeOK, Main
    <3>. QED  BY <2>1, <3>1 DEF Draining, At, Closing, Telling
  <2>3. CASE main.i \in Slot /\ ~peers[main.i].in_use /\ main' = [main EXCEPT !.i = @ + 1]
    <3>1. main'.pc = "drain" /\ main'.i = main.i + 1 /\ UNCHANGED main.draining
      BY <1>5, <2>3 DEF HubTypeOK, Main, Drain, At
    <3>2. \A k \in Used : k >= main.i + 1
      <4>1. \A k \in Used : k >= main.i /\ k # main.i
        BY <2>1, <2>3 DEF Draining, Used
      <4>. QED  BY <2>1, <2>3, <4>1, HubConstants DEF Slot
    <3>. QED  BY <2>1, <3>1, <3>2 DEF Draining, At, Closing, Telling
  <2>4. CASE main.i > MaxPeers /\ main' = [main EXCEPT !.pc = "done"] /\ listening' = FALSE
    <3>1. main'.pc = "done" /\ UNCHANGED <<main.i, main.draining>>
      BY <2>4 DEF HubTypeOK, Main
    <3>. QED  BY <2>1, <2>4, <3>1 DEF Draining, At, Closing, Telling
  <2>. QED  BY <1>5, <2>2, <2>3, <2>4 DEF Drain
<1>. QED  BY <1>1, <1>2, <1>3, <1>4, <1>5

LEMMA DrainStep == HubTypeOK /\ TableInv /\ Draining /\ [Next]_vars => Draining'
<1>1. HubTypeOK /\ Draining /\ (CtrlEvent \/ CtrlStep) => Draining'
  <2>. SUFFICES ASSUME HubTypeOK, Draining, CtrlEvent \/ CtrlStep
                PROVE  Draining'
    OBVIOUS
  <2>1. UNCHANGED main /\ (shutdown => shutdown')
    BY DEF CtrlEvent, CtrlStep, CtrlListener, CtrlSweep, CtrlClose, table
  <2>2. listening' => listening
    BY Zenon DEF CtrlEvent, CtrlStep, CtrlListener, CtrlSweep, CtrlClose, table
  <2>3. Used' \subseteq Used
    BY DEF CtrlEvent, CtrlStep, CtrlListener, CtrlSweep, CtrlClose, table, Used, HubTypeOK, Peer
  <2>. QED  BY <2>1, <2>2, <2>3, DrainQuiet
<1>2. HubTypeOK /\ Draining /\ UNCHANGED vars => Draining'
  BY DEF Draining, At, Closing, Telling, Used, vars
<1>. QED  BY <1>1, <1>2, DrainLoop, DrainServe, DrainDrop DEF Next, MainStep, Stopped

LEMMA DrainInit == Init => Draining
BY DEF Init, Draining, At

\* run_event_loop: no dead peer, failed relay, full table or Ctrl sweep makes
\* the hub stop before Ctrl-C was pressed.
THEOREM StopsOnlyOnCtrl == Spec => []HubStaysUp
<1>1. Draining => HubStaysUp
  BY DEF Draining, HubStaysUp
<1>. QED  BY <1>1, TableInvariant, DrainInit, DrainStep, PTL DEF Spec

\* A step that closes and opens nothing, moves no socket and has none in hand.
LEMMA SocketsQuiet ==
    ASSUME Sockets, UNCHANGED <<peers, open>>, ~At("place"), ~Closing
    PROVE  Sockets'
BY DEF Sockets, Used

LEMMA SocketsStep == HubTypeOK /\ TableInv /\ Sockets /\ [Next]_vars => Sockets'
<1>. SUFFICES ASSUME HubTypeOK, TableInv, Sockets, [Next]_vars
              PROVE  Sockets'
  OBVIOUS
<1>1. CASE Loop \/ Select \/ Scan \/ ReadFails \/ PeerReadable \/ Drain
  <2>1. UNCHANGED <<peers, open>> /\ ~At("place") /\ ~Closing
    BY <1>1 DEF Loop, Select, Scan, ReadFails, PeerReadable, Drain, table, At, Closing, Telling
  <2>. QED  BY <2>1, SocketsQuiet
<1>2. CASE AcceptNewPeer
  <2>1. UNCHANGED peers /\ ~At("place") /\ ~Closing
    BY <1>2 DEF AcceptNewPeer, At, Closing, Telling
  <2>2. CASE UNCHANGED open
    BY <2>1, <2>2, SocketsQuiet
  <2>3. ASSUME NEW h, open' = open \cup {h}, NEW i, NEW u,
               main' = [main EXCEPT !.pc = "place", !.i = i, !.sock = h, !.user = u]
        PROVE  Sockets'
    <3>1. main'.pc = "place" /\ main'.sock = h
      BY <2>3 DEF HubTypeOK, Main
    <3>. QED  BY <2>1, <2>3, <3>1 DEF Sockets, Used, At
  <2>. QED  BY <1>2, <2>2, <2>3 DEF AcceptNewPeer, Reject
<1>3. CASE Place
  <2>1. UNCHANGED open /\ At("place") /\ ~Closing /\ main.i \in Slot /\ ~peers[main.i].in_use
    BY <1>3 DEF Place, At, Closing, Telling, HubTypeOK, TableInv, Locals
  <2>2. peers'[main.i].sock = main.sock /\ main.i \in Used'
    BY <1>3, <2>1 DEF Place, HubTypeOK, Used
  <2>3. \A k \in Used : k \in Used' /\ peers'[k] = peers[k]
    BY <1>3, <2>1 DEF Place, HubTypeOK, Used
  <2>. QED  BY <2>1, <2>2, <2>3 DEF Sockets
<1>4. CASE RelayBytes
  <2>1. main'.pc = "relay" /\ At("relay") /\ UNCHANGED <<main.sock, main.msg>>
    BY <1>4 DEF RelayBytes, HubTypeOK, Main, At
  <2>2. \/ UNCHANGED <<peers, open>>
        \/ /\ \A k \in Used \ {main.j} : k \in Used' /\ peers'[k] = peers[k]
           /\ open' = open \ {peers[main.j].sock}
    BY <1>4 DEF RelayBytes, RelayFail, Close, Used, HubTypeOK
  <2>. QED  BY <2>1, <2>2 DEF Sockets, At, Closing, Telling, Used
<1>5. CASE RelayEnd
  <2>1. UNCHANGED <<peers, open>> /\ At("relay")
    BY <1>5 DEF RelayEnd, table
  <2>2. CASE main.msg.kind = "LOSS"
    <3>1. main'.pc = "finish" /\ UNCHANGED main.sock
      BY <1>5, <2>2 DEF RelayEnd, HubTypeOK, Main
    <3>. QED  BY <2>1, <3>1 DEF Sockets, At, Closing, Used
  <2>3. CASE main.msg.kind # "LOSS"
    <3>1. ~At("place") /\ ~Closing
      BY <2>1, <2>3 DEF At, Closing, Telling
    <3>. QED  BY <2>1, <3>1, SocketsQuiet
  <2>. QED  BY <2>2, <2>3
<1>6. CASE DropPeer
  <2>1. UNCHANGED open /\ ~At("place") /\ ~Closing
    BY <1>6 DEF DropPeer, At, Closing, Telling
  <2>2. CASE ~peers[main.i].in_use
    <3>1. UNCHANGED peers
      BY <1>6, <2>2 DEF DropPeer
    <3>. QED  BY <2>1, <3>1, SocketsQuiet
  <2>3. CASE peers[main.i].in_use
    <3>1. Closing' /\ main'.sock = peers[main.i].sock
      BY <1>6, <2>3, DropTakes DEF At, Closing, Telling
    <3>2. \A k \in Used \ {main.i} : k \in Used' /\ peers'[k] = peers[k]
      BY <1>6, <2>3, DropTakes DEF Used, HubTypeOK
    <3>. QED  BY <2>1, <3>1, <3>2 DEF Sockets
  <2>. QED  BY <2>2, <2>3
<1>7. CASE FinishDrop
  <2>1. UNCHANGED peers /\ open' = open \ {main.sock} /\ Used' = Used
    BY <1>7 DEF FinishDrop, Close, Used
  <2>. QED  BY <2>1 DEF Sockets
<1>8. CASE CtrlEvent \/ CtrlListener \/ CtrlSweep \/ UNCHANGED vars
  <2>1. UNCHANGED <<peers, open, main>>
    BY <1>8 DEF CtrlEvent, CtrlListener, CtrlSweep, table, vars
  <2>. QED  BY <2>1 DEF Sockets, Used, At, Closing, Telling
<1>9. CASE CtrlClose
  <2>1. UNCHANGED main /\ open' = open \ {ctrl.ps} /\ ctrl.pc = "close"
    BY <1>9 DEF CtrlClose, Close
  <2>2. \A k \in Used : k \in Used' /\ (k # ctrl.k => peers'[k] = peers[k])
    BY <1>9 DEF CtrlClose, Used, HubTypeOK, Peer
  <2>3. ctrl.k \in Used => peers[ctrl.k].sock = ctrl.ps
    BY <2>1 DEF TableInv, Threads, Used
  <2>. QED  BY <2>1, <2>2, <2>3 DEF Sockets, At, Closing, Telling
<1>. QED  BY <1>1, <1>2, <1>3, <1>4, <1>5, <1>6, <1>7, <1>8, <1>9
          DEF Next, MainStep, CtrlStep, Stopped

LEMMA SocketsInit == Init => Sockets
BY DEF Init, Sockets

\* shutdown_all, drop_peer and ctrl_handler: whichever thread gets to a socket
\* first, every accepted socket and the listener are closed when the hub stops.
THEOREM EverySocketClosed == Spec => []NoSocketLeft
<1>1. HubTypeOK /\ Draining /\ Sockets => NoSocketLeft
  <2>. SUFFICES ASSUME HubTypeOK, Draining, Sockets, At("done")
                PROVE  open = {} /\ ~listening
    BY DEF NoSocketLeft
  <2>1. main.i > MaxPeers /\ ~listening /\ main.i \in 1..(MaxPeers + 1)
    BY DEF Draining, HubTypeOK, Main
  <2>2. Used = {}
    <3>1. \A k \in Used : k \in Slot /\ k >= main.i
      BY DEF Draining, At, Used
    <3>. QED  BY <2>1, <3>1, HubConstants DEF Slot
  <2>. QED  BY <2>1, <2>2 DEF Sockets, At, Closing, Telling
<1>. QED  BY <1>1, TableInvariant, DrainInit, DrainStep, SocketsInit, SocketsStep, PTL DEF Spec

-----------------------------------------------------------------------------
(* What the peers believe. *)

\* The slot of an announced peer keeps its node among those the hub has.
Holds(k, n) == k \in Used /\ Announced(peers[k].user) /\ n = pool[peers[k].user].node

LEMMA HereMeans == \A n : n \in Here <=> \E k \in Slot : Holds(k, n)
BY DEF Here, Holds, Used

LEMMA HereMeansNext == \A n : n \in Here' <=> \E k \in Slot : Holds(k, n)'
BY DEF Here, Holds, Used

LEMMA HereKept ==
    ASSUME NEW S, \A k \in Slot : \A n : Holds(k, n) => Holds(k, n)' \/ n \in S
    PROVE  Here \subseteq Here' \cup S
BY HereMeans, HereMeansNext

LEMMA PresentMeans ==
    /\ Present = Here \cup (IF main.msg.kind = "LOSS" THEN {main.msg.node} ELSE {})
    /\ Present' = Here' \cup (IF main'.msg.kind = "LOSS" THEN {main'.msg.node} ELSE {})
BY DEF Present, Here

\* A step that tells nobody anything: peers stay or go, sockets stay or close,
\* and no node the hub has is forgotten.
LEMMA GhostsQuiet ==
    ASSUME HubTypeOK, Ghosts, Here \cup quiet \subseteq Here' \cup quiet',
           \A k \in Used' : peers'[k].sock \in open' =>
               /\ k \in Used /\ peers'[k].sock = peers[k].sock
               /\ peers[k].sock \in open /\ views'[peers[k].sock] = views[peers[k].sock],
           \A h \in Handle \ open' : views'[h] = {},
           main'.msg = main.msg, main'.pc = "relay" <=> main.pc = "relay", main'.j = main.j,
           main'.pc = "place" => views'[main'.sock] = {}
    PROVE  Ghosts'
<1>1. NoGhost'
  BY PresentMeans DEF Ghosts, NoGhost
<1>2. Telling' => \A k \in Used' :
          k < main'.j /\ peers'[k].sock \in open' => views'[peers'[k].sock] \subseteq Here' \cup quiet'
  BY DEF Ghosts, Telling, At
<1>. QED  BY <1>1, <1>2 DEF Ghosts, At

LEMMA GhostsCursor ==
    ASSUME HubTypeOK, Ghosts, UNCHANGED <<peers, pool, open, views, quiet>>, ~At("relay"),
           main'.pc \notin {"relay", "place"}, main'.j = main.j, main'.msg = main.msg
    PROVE  Ghosts'
<1>1. Here' = Here /\ Used' = Used
  BY DEF Here, Used, Announced
<1>. QED  BY <1>1, GhostsQuiet DEF Ghosts, At

LEMMA GhostsLoop ==
    HubTypeOK /\ Ghosts /\ (Loop \/ Select \/ Scan \/ ReadFails \/ Drain) => Ghosts'
<1>. SUFFICES ASSUME HubTypeOK, Ghosts, Loop \/ Select \/ Scan \/ ReadFails \/ Drain
              PROVE  Ghosts'
  OBVIOUS
<1>1. UNCHANGED <<peers, pool, open, views, quiet>> /\ ~At("relay")
  BY DEF Loop, Select, Scan, ReadFails, Drain, table, At
<1>2. main'.pc \notin {"relay", "place"} /\ main'.j = main.j /\ main'.msg = main.msg
  <2>1. CASE Loop \/ Select
    BY <2>1 DEF Loop, Select, HubTypeOK, Main, At
  <2>2. CASE Scan
    BY <2>2 DEF Scan, HubTypeOK, Main, At
  <2>3. CASE ReadFails \/ Drain
    BY <2>3 DEF ReadFails, Drain, HubTypeOK, Main, At
  <2>. QED  BY <2>1, <2>2, <2>3
<1>. QED  BY <1>1, <1>2, GhostsCursor

LEMMA GhostsAccept == HubTypeOK /\ TableInv /\ Ghosts /\ AcceptNewPeer => Ghosts'
<1>. SUFFICES ASSUME HubTypeOK, TableInv, Ghosts, AcceptNewPeer
              PROVE  Ghosts'
  OBVIOUS
<1>1. UNCHANGED <<peers, views, quiet>> /\ ~At("relay") /\ Used' = Used
  BY DEF AcceptNewPeer, At, Used
<1>2. CASE main' = [main EXCEPT !.pc = "scan"] /\ UNCHANGED <<pool, open>>
  <2>1. main'.pc = "scan" /\ main'.j = main.j /\ main'.msg = main.msg
    BY <1>2 DEF HubTypeOK, Main
  <2>. QED  BY <1>1, <1>2, <2>1, GhostsCursor
<1>3. ASSUME NEW h \in Handle \ open, open' = open \cup {h}, NEW u,
             u = IF FreeStates = {} THEN NoState ELSE Min(FreeStates), Alloc(u),
             main' = [main EXCEPT !.pc = "place", !.i = Min(FreeSlots), !.sock = h, !.user = u]
      PROVE  Ghosts'
  <2>1. /\ main'.pc = "place" /\ main'.sock = h
        /\ main'.j = main.j /\ main'.msg = main.msg
    BY <1>3 DEF HubTypeOK, Main
  <2>2. u # NoState => u \in Slot /\ ~pool[u].in_use
    BY <1>3, FreeTypes DEF FreeStates
  <2>3. \A k \in Used : peers[k].user # NoState => pool'[peers[k].user] = pool[peers[k].user]
    <3>1. \A k \in Used : peers[k].user # NoState => pool[peers[k].user].in_use /\ peers[k].user \in Slot
      BY SlotTypes DEF TableInv, Table, StateOwned, Used, HubTypeOK, Peer
    <3>. QED  BY <1>3, <2>2, <3>1 DEF Alloc, HubTypeOK
  <2>4. Here \subseteq Here' \cup {}
    <3>1. \A k \in Slot : \A n : Holds(k, n) => Holds(k, n)' \/ n \in {}
      BY <1>1, <2>3 DEF Holds, Announced
    <3>. QED  BY <3>1, HereKept
  <2>5. \A k \in Used : peers[k].sock # h
    BY <1>3, SlotTypes DEF TableInv, Table
  <2>. QED  BY <1>1, <1>3, <2>1, <2>4, <2>5, GhostsQuiet DEF Ghosts, At
<1>. QED  BY <1>2, <1>3 DEF AcceptNewPeer, Reject

LEMMA GhostsPlace == HubTypeOK /\ TableInv /\ Ghosts /\ Place => Ghosts'
<1>. SUFFICES ASSUME HubTypeOK, TableInv, Ghosts, Place
              PROVE  Ghosts'
  OBVIOUS
<1>1. UNCHANGED <<pool, open, views, quiet>> /\ At("place") /\ main.i \in Slot /\ main.i \notin Used
  BY DEF Place, HubTypeOK, At, TableInv, Locals, Used
<1>2. main'.pc = "scan" /\ main'.msg = main.msg
  BY DEF Place, HubTypeOK, Main
<1>3. peers'[main.i].sock = main.sock /\ \A k \in Slot \ {main.i} : peers'[k] = peers[k]
  BY <1>1 DEF Place, HubTypeOK
<1>4. Used' \subseteq Used \cup {main.i} /\ Used \subseteq Slot
  BY <1>3 DEF Used
<1>5. Here \subseteq Here' \cup {}
  <2>1. \A k \in Slot : \A n : Holds(k, n) => Holds(k, n)' \/ n \in {}
    BY <1>1, <1>3 DEF Holds, Announced, Used
  <2>. QED  BY <2>1, HereKept
<1>6. views[main.sock] = {} /\ main.msg.kind = "USDO"
  BY <1>1 DEF Ghosts, At, HubTypeOK, Main, Message
<1>7. NoGhost'
  BY <1>1, <1>2, <1>3, <1>4, <1>5, <1>6, PresentMeans DEF Ghosts, NoGhost
<1>. QED  BY <1>1, <1>2, <1>6, <1>7 DEF Ghosts, At, Telling

LEMMA GhostsRead == HubTypeOK /\ TableInv /\ Ghosts /\ PeerReadable => Ghosts'
<1>. SUFFICES ASSUME HubTypeOK, TableInv, Ghosts, PeerReadable
              PROVE  Ghosts'
  OBVIOUS
<1>1. UNCHANGED <<peers, open, views>> /\ At("read") /\ Used' = Used /\ main.msg.kind = "USDO"
  BY DEF PeerReadable, Used, Ghosts, At, HubTypeOK, Main, Message
<1>2. main.i \in Used /\ peers[main.i].user = main.user
  BY <1>1 DEF TableInv, Locals, Used, HubTypeOK, At
<1>3. CASE main' = [main EXCEPT !.pc = "drop"] /\ UNCHANGED <<pool, quiet>>
  <2>1. main'.pc = "drop" /\ main'.j = main.j /\ main'.msg = main.msg
    BY <1>3 DEF HubTypeOK, Main
  <2>. QED  BY <1>1, <1>3, <2>1, GhostsCursor DEF At
<1>4. ASSUME NEW m \in Message, m.kind # "LOSS",
             main' = [main EXCEPT !.pc = "relay", !.j = 1, !.msg = m],
             m.kind = "ANNOUNCE" => m.node \in Here' \cup quiet',
             Here \cup quiet \subseteq Here' \cup quiet'
      PROVE  Ghosts'
  <2>1. main'.pc = "relay" /\ main'.msg = m
    BY <1>4 DEF HubTypeOK, Main
  <2>2. NoGhost'
    BY <1>1, <1>4, <2>1, PresentMeans DEF Ghosts, NoGhost
  <2>. QED  BY <1>1, <1>4, <2>1, <2>2 DEF Ghosts, At, Telling
<1>5. CASE main' = [main EXCEPT !.pc = "relay", !.j = 1, !.msg = Usdo] /\ UNCHANGED <<pool, quiet>>
  <2>1. Here' = Here
    BY <1>1, <1>5 DEF Here, Announced
  <2>2. Here \cup quiet \subseteq Here' \cup quiet'
    BY <1>5, <2>1
  <2>3. Usdo \in Message /\ Usdo.kind # "LOSS" /\ Usdo.kind # "ANNOUNCE"
    BY UsdoType
  <2>. QED  BY <1>4, <1>5, <2>2, <2>3
<1>6. ASSUME NEW n \in Node, ~Announced(main.user),
             pool' = IF main.user = NoState THEN pool
                     ELSE [pool EXCEPT ![main.user].announced = TRUE, ![main.user].node = n],
             quiet' = IF main.user = NoState THEN quiet \cup {n} ELSE quiet,
             main' = [main EXCEPT !.pc = "relay", !.j = 1,
                                  !.msg = [kind |-> "ANNOUNCE", node |-> n]]
      PROVE  Ghosts'
  <2>1. Here \subseteq Here' \cup {}
    <3>1. ASSUME NEW k \in Slot, NEW x, Holds(k, x)
          PROVE  Holds(k, x)'
      <4>1. peers[k].user # main.user /\ peers[k].user \in Slot
        BY <1>6, <3>1, SlotTypes DEF Holds, Announced, HubTypeOK, Peer
      <4>2. pool'[peers[k].user] = pool[peers[k].user]
        BY <1>6, <4>1 DEF HubTypeOK
      <4>. QED  BY <1>1, <3>1, <4>2 DEF Holds, Announced
    <3>. QED  BY <3>1, HereKept
  <2>2. n \in Here' \cup quiet'
    <3>1. CASE main.user = NoState
      BY <1>6, <3>1
    <3>2. CASE main.user # NoState
      <4>1. main.user \in Slot
        BY <3>2, SlotTypes DEF HubTypeOK, Main
      <4>2. pool'[main.user].announced /\ pool'[main.user].node = n
        BY <1>6, <3>2, <4>1 DEF HubTypeOK, PoolEntry
      <4>3. \E k \in Slot : Holds(k, n)'
        <5>1. ASSUME NEW k, k = main.i
              PROVE  k \in Slot /\ Holds(k, n)'
          BY <1>1, <1>2, <3>2, <4>2, <5>1 DEF Holds, Announced, Used
        <5>. QED  BY <5>1
      <4>. QED  BY <4>3, HereMeansNext
    <3>. QED  BY <3>1, <3>2
  <2>3. quiet \subseteq quiet'
    BY <1>6
  <2>. DEFINE m == [kind |-> "ANNOUNCE", node |-> n]
  <2>4. m \in Message /\ m.kind # "LOSS" /\ m.node = n
    BY DEF Message
  <2>5. main' = [main EXCEPT !.pc = "relay", !.j = 1, !.msg = m]
    BY <1>6
  <2>6. Here \cup quiet \subseteq Here' \cup quiet'
    BY <2>1, <2>3
  <2>7. m.kind = "ANNOUNCE" => m.node \in Here' \cup quiet'
    BY <2>2, <2>4
  <2>. HIDE DEF m
  <2>. QED  BY <1>4, <2>4, <2>5, <2>6, <2>7
<1>. QED  BY <1>3, <1>5, <1>6 DEF PeerReadable

\* A slot of the relay is done: its peer is told, was told before, or is gone.
LEMMA GhostsRelay == HubTypeOK /\ TableInv /\ Ghosts /\ RelayBytes => Ghosts'
<1>. SUFFICES ASSUME HubTypeOK, TableInv, Ghosts, RelayBytes
              PROVE  Ghosts'
  OBVIOUS
<1>. DEFINE s == peers[main.j].sock
<1>1. /\ main'.pc = "relay" /\ At("relay") /\ main'.msg = main.msg
      /\ main'.j = main.j + 1 /\ main.j \in Slot /\ main'.sock = main.sock
  BY DEF RelayBytes, HubTypeOK, Main, At
<1>2. UNCHANGED pool
  BY DEF RelayBytes
<1>3. \A k \in Slot : k < main.j + 1 => k < main.j \/ k = main.j
  BY <1>1, HubConstants DEF Slot
<1>4. Used \subseteq Slot /\ Used' \subseteq Slot /\ Invalid \notin open
  BY SlotTypes DEF Used, HubTypeOK
<1>5. CASE UNCHANGED <<peers, open, views, quiet>> /\ (~peers[main.j].in_use \/ s = main.sock)
  <2>1. Here' = Here /\ Used' = Used
    BY <1>2, <1>5 DEF Here, Used, Announced
  <2>2. NoGhost'
    BY <1>1, <1>5, <2>1, PresentMeans DEF Ghosts, NoGhost
  <2>3. Telling => main.j \notin Used \/ s \notin open
    BY <1>4, <1>5 DEF TableInv, Locals, Closing, Used
  <2>4. Telling' => \A k \in Used' :
            k < main'.j /\ peers'[k].sock \in open' => views'[peers'[k].sock] \subseteq Here' \cup quiet'
    BY <1>1, <1>3, <1>4, <1>5, <2>1, <2>3 DEF Ghosts, Telling, At
  <2>. QED  BY <1>1, <1>5, <2>1, <2>2, <2>4 DEF Ghosts, At
<1>6. CASE UNCHANGED <<peers, open, quiet>> /\ main.j \in Used /\ s \in open /\ Deliver(s)
  <2>1. Here' = Here /\ Used' = Used
    BY <1>2, <1>6 DEF Here, Used, Announced
  <2>2. s \in Handle
    BY <1>6 DEF HubTypeOK
  <2>3. /\ main.msg.kind = "ANNOUNCE" => views'[s] = views[s] \cup {main.msg.node}
        /\ main.msg.kind = "LOSS" => views'[s] = views[s] \ {main.msg.node}
        /\ main.msg.kind = "USDO" => views'[s] = views[s]
    BY <1>6, <2>2 DEF Deliver, HubTypeOK
  <2>4. \A k \in Used : k # main.j /\ peers[k].sock \in open => views'[peers[k].sock] = views[peers[k].sock]
    <3>1. \A k \in Used : k # main.j /\ peers[k].sock \in open => peers[k].sock # s
      BY <1>4, <1>6 DEF TableInv, Table, StateOwned
    <3>. QED  BY <1>6, <3>1 DEF Deliver, HubTypeOK
  <2>5. \A h \in Handle \ open : views'[h] = {}
    <3>1. \A h \in Handle \ open : views'[h] = views[h]
      BY <1>6 DEF Deliver, HubTypeOK
    <3>. QED  BY <3>1 DEF Ghosts
  <2>6. main.msg.kind \in {"ANNOUNCE", "LOSS", "USDO"}
    BY DEF HubTypeOK, Main, Message
  <2>7. views'[s] \subseteq Here \cup quiet \cup (IF main.msg.kind = "LOSS" THEN {} ELSE Present)
    <3>1. views[s] \subseteq Present \cup quiet
      BY <1>6 DEF Ghosts, NoGhost
    <3>. QED  BY <2>3, <2>6, <3>1, PresentMeans DEF Ghosts
  <2>8. NoGhost'
    <3>1. Present' = Present
      BY <1>1, <2>1, PresentMeans
    <3>2. Here \subseteq Present
      BY PresentMeans
    <3>3. ASSUME NEW k \in Used, peers[k].sock \in open
          PROVE  views'[peers[k].sock] \subseteq Present \cup quiet
      <4>1. CASE k = main.j
        BY <2>7, <3>2, <4>1
      <4>2. CASE k # main.j
        BY <2>4, <3>3, <4>2 DEF Ghosts, NoGhost
      <4>. QED  BY <4>1, <4>2
    <3>. QED  BY <1>6, <2>1, <3>1, <3>3 DEF NoGhost
  <2>9. Telling' => \A k \in Used' :
            k < main'.j /\ peers'[k].sock \in open' => views'[peers'[k].sock] \subseteq Here' \cup quiet'
    BY <1>1, <1>3, <1>4, <1>6, <2>1, <2>4, <2>7 DEF Ghosts, Telling, At
  <2>. QED  BY <1>1, <1>6, <2>1, <2>5, <2>8, <2>9 DEF Ghosts, At
<1>7. CASE main.j \in Used /\ RelayFail(main.j)
  <2>1. /\ open' = open \ {s}
        /\ views' = [x \in Handle |-> IF x = s THEN {} ELSE views[x]]
        /\ quiet' = IF Announced(peers[main.j].user) THEN quiet \cup {pool[peers[main.j].user].node}
                    ELSE quiet
    BY <1>7 DEF RelayFail, Close
  <2>2. \A k \in Used' : k \in Used /\ peers'[k] = peers[k] /\ k # main.j
    BY <1>7 DEF RelayFail, Used, FreePeer, HubTypeOK
  <2>3. \A k \in Slot \ {main.j} : peers'[k] = peers[k]
    BY <1>7 DEF RelayFail, HubTypeOK
  <2>4. Here \subseteq Here' \cup quiet'
    <3>1. ASSUME NEW k \in Slot, NEW n, Holds(k, n)
          PROVE  Holds(k, n)' \/ n \in quiet'
      <4>1. CASE k = main.j
        BY <2>1, <3>1, <4>1 DEF Holds
      <4>2. CASE k # main.j
        BY <1>2, <2>3, <3>1, <4>2 DEF Holds, Announced, Used
      <4>. QED  BY <4>1, <4>2
    <3>. QED  BY <3>1, HereKept
  <2>5. quiet \subseteq quiet'
    BY <2>1
  <2>6. \A k \in Used' : peers'[k].sock \in open' =>
            peers[k].sock \in open /\ views'[peers[k].sock] = views[peers[k].sock]
    BY <2>1, <2>2 DEF HubTypeOK
  <2>7. \A h \in Handle \ open' : views'[h] = {}
    BY <2>1 DEF Ghosts
  <2>8. NoGhost'
    BY <1>1, <2>2, <2>4, <2>5, <2>6, PresentMeans DEF Ghosts, NoGhost
  <2>9. Telling' => \A k \in Used' :
            k < main'.j /\ peers'[k].sock \in open' => views'[peers'[k].sock] \subseteq Here' \cup quiet'
    BY <1>1, <1>3, <1>4, <2>2, <2>4, <2>5, <2>6 DEF Ghosts, Telling, At
  <2>. QED  BY <1>1, <2>4, <2>5, <2>7, <2>8, <2>9 DEF Ghosts, At
<1>. QED  BY <1>5, <1>6, <1>7 DEF RelayBytes, Used

LEMMA GhostsRelayEnd == HubTypeOK /\ Ghosts /\ RelayEnd => Ghosts'
<1>. SUFFICES ASSUME HubTypeOK, Ghosts, RelayEnd
              PROVE  Ghosts'
  OBVIOUS
<1>1. UNCHANGED <<peers, pool, open, views, quiet>> /\ At("relay") /\ main.i \in Slot
  BY DEF RelayEnd, table, HubTypeOK, At
<1>2. Here' = Here /\ Used' = Used
  BY <1>1 DEF Here, Used, Announced
<1>3. main'.pc \in {"finish", "drain", "scan"} /\ main'.msg = Usdo
  BY <1>1, ReturnType DEF RelayEnd, HubTypeOK, Main
<1>4. \A k \in Used : k < main.j
  BY HubConstants DEF RelayEnd, Used, Slot, HubTypeOK, Main
<1>5. \A k \in Used : peers[k].sock \in open => views[peers[k].sock] \subseteq Here \cup quiet
  <2>1. CASE main.msg.kind = "LOSS"
    BY <1>1, <1>4, <2>1 DEF Ghosts, Telling
  <2>2. CASE main.msg.kind # "LOSS"
    BY <2>2, PresentMeans DEF Ghosts, NoGhost
  <2>. QED  BY <2>1, <2>2
<1>6. NoGhost'
  BY <1>1, <1>2, <1>3, <1>5, PresentMeans, UsdoType DEF NoGhost
<1>. QED  BY <1>1, <1>2, <1>3, <1>6, UsdoType DEF Ghosts, At, Telling

LEMMA GhostsDrop == HubTypeOK /\ Ghosts /\ DropPeer => Ghosts'
<1>. SUFFICES ASSUME HubTypeOK, Ghosts, DropPeer
              PROVE  Ghosts'
  OBVIOUS
<1>1. UNCHANGED <<pool, open, views, quiet>> /\ At("drop") /\ main.i \in Slot /\ main.msg.kind = "USDO"
  BY DEF DropPeer, At, HubTypeOK, Ghosts, Main, Message
<1>2. CASE ~peers[main.i].in_use
  <2>1. UNCHANGED peers /\ main' = Return(main)
    BY <1>2 DEF DropPeer
  <2>2. main'.pc \in {"drain", "scan"} /\ main'.msg = Usdo
    BY <1>1, <2>1, ReturnType
  <2>3. Here' = Here /\ Used' = Used
    BY <1>1, <2>1 DEF Here, Used, Announced
  <2>4. NoGhost'
    BY <1>1, <2>1, <2>2, <2>3, PresentMeans, UsdoType DEF Ghosts, NoGhost
  <2>. QED  BY <1>1, <2>2, <2>4, UsdoType DEF Ghosts, At, Telling
<1>3. CASE peers[main.i].in_use
  <2>1. /\ peers' = [peers EXCEPT ![main.i] = FreePeer]
        /\ \/ /\ Announced(peers[main.i].user) /\ main'.pc = "relay" /\ main'.j = 1
              /\ main'.msg.kind = "LOSS" /\ main'.msg.node = pool[peers[main.i].user].node
           \/ /\ ~Announced(peers[main.i].user)
              /\ main'.pc = "finish" /\ main'.msg = main.msg
    BY <1>3, DropTakes
  <2>2. \A k \in Used' : k \in Used /\ peers'[k] = peers[k]
    BY <2>1 DEF Used, FreePeer, HubTypeOK
  <2>3. Here \subseteq Present'
    <3>1. ASSUME NEW k \in Slot, NEW n, Holds(k, n)
          PROVE  Holds(k, n)' \/ n \in Present'
      <4>1. CASE k = main.i
        BY <2>1, <3>1, <4>1, PresentMeans DEF Holds
      <4>2. CASE k # main.i
        BY <1>1, <2>1, <3>1, <4>2 DEF Holds, Announced, Used, HubTypeOK
      <4>. QED  BY <4>1, <4>2
    <3>2. Here \subseteq Here' \cup Present'
      BY <3>1, HereKept
    <3>. QED  BY <3>2, PresentMeans
  <2>4. NoGhost'
    <3>1. Present = Here
      BY <1>1, PresentMeans
    <3>. QED  BY <1>1, <2>2, <2>3, <3>1 DEF Ghosts, NoGhost
  <2>5. Telling' => \A k \in Used' : ~(k < main'.j)
    <3>1. \A k \in Slot : ~(k < 1)
      BY HubConstants DEF Slot
    <3>. QED  BY <2>1, <3>1 DEF Telling, At, Used
  <2>. QED  BY <1>1, <2>1, <2>4, <2>5 DEF Ghosts, At
<1>. QED  BY <1>2, <1>3

LEMMA GhostsFinish == HubTypeOK /\ TableInv /\ Ghosts /\ FinishDrop => Ghosts'
<1>. SUFFICES ASSUME HubTypeOK, TableInv, Ghosts, FinishDrop
              PROVE  Ghosts'
  OBVIOUS
<1>1. /\ UNCHANGED <<peers, quiet>> /\ At("finish") /\ Closing /\ main.i \in Slot
      /\ main.msg.kind = "USDO" /\ Used' = Used
  BY DEF FinishDrop, At, Closing, HubTypeOK, Ghosts, Main, Message, Used
<1>2. main'.pc \in {"drain", "scan"} /\ main'.msg = Usdo
  BY <1>1, ReturnType DEF FinishDrop
<1>3. open' = open \ {main.sock} /\ views' = [x \in Handle |-> IF x = main.sock THEN {} ELSE views[x]]
  BY DEF FinishDrop, Close
<1>4. \A u \in Slot : pool'[u].announced = pool[u].announced /\ pool'[u].node = pool[u].node
  BY DEF FinishDrop, HubTypeOK, PoolEntry
<1>5. Here \subseteq Here' \cup {}
  <2>1. ASSUME NEW k \in Slot, NEW n, Holds(k, n)
        PROVE  Holds(k, n)'
    <3>1. peers[k].user \in Slot
      BY <2>1, SlotTypes DEF Holds, Announced, HubTypeOK, Peer
    <3>. QED  BY <1>1, <1>4, <2>1, <3>1 DEF Holds, Announced
  <2>. QED  BY <2>1, HereKept
<1>6. \A k \in Used : peers[k].sock \in open' =>
          peers[k].sock \in open /\ views'[peers[k].sock] = views[peers[k].sock]
  BY <1>3 DEF HubTypeOK
<1>7. \A h \in Handle \ open' : views'[h] = {}
  BY <1>3 DEF Ghosts
<1>8. NoGhost'
  BY <1>1, <1>2, <1>5, <1>6, PresentMeans, UsdoType DEF Ghosts, NoGhost
<1>. QED  BY <1>2, <1>7, <1>8, UsdoType DEF Ghosts, At, Telling

LEMMA GhostsCtrl == HubTypeOK /\ TableInv /\ Ghosts /\ (CtrlEvent \/ CtrlStep) => Ghosts'
<1>. SUFFICES ASSUME HubTypeOK, TableInv, Ghosts, CtrlEvent \/ CtrlStep
              PROVE  Ghosts'
  OBVIOUS
<1>1. CASE CtrlEvent \/ CtrlListener \/ CtrlSweep
  <2>1. UNCHANGED <<peers, pool, open, views, quiet, main>>
    BY <1>1 DEF CtrlEvent, CtrlListener, CtrlSweep, table
  <2>2. Here' = Here /\ Used' = Used
    BY <2>1 DEF Here, Used, Announced
  <2>. QED  BY <2>1, <2>2, GhostsQuiet DEF Ghosts, At
<1>2. CASE CtrlClose
  <2>. DEFINE h == ctrl.ps
  <2>1. /\ UNCHANGED <<pool, main, quiet>> /\ open' = open \ {h}
        /\ views' = [x \in Handle |-> IF x = h THEN {} ELSE views[x]]
    BY <1>2 DEF CtrlClose, Close
  <2>2. /\ \A k \in Slot : peers'[k].in_use = peers[k].in_use /\ peers'[k].user = peers[k].user
        /\ \A k \in Slot : peers'[k].sock \in {peers[k].sock, Invalid}
    BY <1>2 DEF CtrlClose, HubTypeOK, Peer
  <2>3. Used' = Used /\ Used \subseteq Slot
    BY <2>2 DEF Used
  <2>4. Here \subseteq Here' \cup {}
    <3>1. \A k \in Slot : \A n : Holds(k, n) => Holds(k, n)' \/ n \in {}
      BY <2>1, <2>2, <2>3 DEF Holds, Announced
    <3>. QED  BY <3>1, HereKept
  <2>5. \A k \in Used' : peers'[k].sock \in open' =>
            /\ k \in Used /\ peers'[k].sock = peers[k].sock
            /\ peers[k].sock \in open /\ views'[peers[k].sock] = views[peers[k].sock]
    BY <2>1, <2>2, <2>3, SlotTypes DEF HubTypeOK
  <2>6. \A x \in Handle \ open' : views'[x] = {}
    BY <2>1 DEF Ghosts
  <2>7. main'.pc = "place" => views'[main'.sock] = {}
    <3>1. At("place") => main.sock \in Handle
      BY DEF TableInv, Locals, HubTypeOK
    <3>. QED  BY <2>1, <3>1 DEF Ghosts, At
  <2>. QED  BY <2>1, <2>4, <2>5, <2>6, <2>7, GhostsQuiet
<1>. QED  BY <1>1, <1>2 DEF CtrlStep

LEMMA GhostsStep == HubTypeOK /\ TableInv /\ Ghosts /\ [Next]_vars => Ghosts'
<1>1. HubTypeOK /\ Ghosts /\ UNCHANGED vars => Ghosts'
  <2>. SUFFICES ASSUME HubTypeOK, Ghosts, UNCHANGED vars
                PROVE  Ghosts'
    OBVIOUS
  <2>1. Here' = Here /\ Used' = Used
    BY DEF Here, Used, Announced, vars
  <2>. QED  BY <2>1, GhostsQuiet DEF Ghosts, At, vars
<1>. QED  BY <1>1, GhostsLoop, GhostsAccept, GhostsPlace, GhostsRead, GhostsRelay, GhostsRelayEnd,
             GhostsDrop, GhostsFinish, GhostsCtrl DEF Next, MainStep, Stopped

LEMMA GhostsInit == Init => Ghosts
<1>. SUFFICES ASSUME Init
              PROVE  Ghosts
  OBVIOUS
<1>1. Used = {} /\ main.pc = "loop" /\ main.msg = Usdo
  BY DEF Init, Used, FreePeer
<1>. QED  BY <1>1, UsdoType DEF Init, Ghosts, NoGhost, At, Telling

\* cb_on_peer_dropped: over every drop, reused slot or socket and shutdown, a
\* peer that was told of a node is told when that node goes, but for the nodes
\* that a failed relay removed or that found the variant's pool empty.
THEOREM EveryLossTold == Spec => []NoGhost
<1>1. Ghosts => NoGhost
  BY DEF Ghosts
<1>. QED  BY <1>1, TableInvariant, GhostsInit, GhostsStep, PTL DEF Spec
=============================================================================
