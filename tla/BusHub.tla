------------------------------- MODULE BusHub -------------------------------
(***************************************************************************)
(* The TCP hub that stands for the CAN FD bus: the peer table, event loop  *)
(* and console handler of bus_common.c with the callbacks of the CANopen   *)
(* FD variant.  Two threads touch the peer table without a lock: the event *)
(* loop (main) and, once, the Ctrl handler (ctrl).                         *)
(*                                                                         *)
(* A step of the loop ends where the handler could change what it reads    *)
(* next, or where it waits for a socket.  The operating system hands out   *)
(* any free socket handle, so handles are reused.                          *)
(***************************************************************************)
EXTENDS Naturals, FiniteSets, FiniteSetsExt

CONSTANTS
    MaxPeers,       \* FBSEC_BUS_MAX_PEERS, also the size of the variant's pool
    Handle,         \* socket handles, positive numbers
    Node            \* node ids that peers announce

ASSUME HubConstants ==
    /\ MaxPeers \in Nat \ {0}
    /\ Handle \subseteq Nat \ {0}
    /\ Node # {}

Slot == 1..MaxPeers
Invalid == 0        \* INVALID_SOCKET
NoState == 0        \* a NULL per-peer state; k > 0 is &g_peer_pool[k]
AnyNode == CHOOSE n \in Node : TRUE

VARIABLES
    peers,          \* g_peers
    pool,           \* g_peer_pool and g_peer_in_use
    listening,      \* g_listen_sock is valid
    shutdown,       \* g_shutdown_flag
    main,           \* the event loop: where it is and its locals
    ctrl,           \* the Ctrl handler: where it is and its locals
    open,           \* handles of accepted sockets that are open
    views,          \* the nodes the other end of a socket believes connected
    said,           \* history: open sockets that announced themselves
    quiet           \* history: nodes that went, or came, without the variant noticing

vars == <<peers, pool, listening, shutdown, main, ctrl, open, views, said, quiet>>
table == <<peers, pool, listening, shutdown, open, views, said, quiet>>

FreePeer == [sock |-> Invalid, in_use |-> FALSE, user |-> NoState]
Usdo == [kind |-> "USDO", node |-> AnyNode]

At(pc) == main.pc = pc
Announced(u) == u # NoState /\ pool[u].announced

\* closesocket.
Close(h) ==
    /\ open' = open \ {h}
    /\ said' = said \ {h}
    /\ views' = [x \in Handle |-> IF x = h THEN {} ELSE views[x]]

-----------------------------------------------------------------------------
(* The event loop. *)

\* Top of run_event_loop: the flag, then the sockets of the slots in use.
Loop ==
    /\ At("loop")
    /\ main' = IF shutdown THEN [main EXCEPT !.pc = "drain", !.i = 1, !.draining = TRUE]
               ELSE [main EXCEPT !.pc = "select",
                                 !.ready = {peers[k].sock : k \in {s \in Slot : peers[s].in_use}}]
    /\ UNCHANGED <<table, ctrl>>

\* select: the idle timeout, an error on a socket that is not open, which ends
\* the loop, or some readable sockets, the listener among them or not.
Select ==
    /\ At("select")
    /\ \/ main' = [main EXCEPT !.pc = "loop", !.ready = {}]
       \/ /\ ~(main.ready \subseteq open)
          /\ main' = [main EXCEPT !.pc = "drain", !.i = 1, !.draining = TRUE, !.ready = {}]
       \/ /\ listening
          /\ \E r \in SUBSET (main.ready \cap open) :
                main' = [main EXCEPT !.pc = "accept", !.i = 1, !.ready = r]
       \/ \E r \in SUBSET (main.ready \cap open) \ {{}} :
             main' = [main EXCEPT !.pc = "scan", !.i = 1, !.ready = r]
    /\ UNCHANGED <<table, ctrl>>

\* Mutant: the variant's state of an earlier peer is not cleared.
AllocKeeps(u) == pool' = IF u = NoState THEN pool ELSE [pool EXCEPT ![u].in_use = TRUE]

\* alloc_peer.
Alloc(u) ==
    pool' = IF u = NoState THEN pool
            ELSE [pool EXCEPT ![u] = [in_use |-> TRUE, announced |-> FALSE, node |-> AnyNode]]

\* Mutant: a connection that finds the table full is left open.
RejectLeaks(h) == open' = open \cup {h}

\* accept_new_peer with the table full: the new socket is closed at once.
Reject(h) == UNCHANGED open

FreeSlots == {k \in Slot : ~peers[k].in_use}
FreeStates == {u \in Slot : ~pool[u].in_use}

\* accept_new_peer up to the callback.
AcceptNewPeer ==
    /\ At("accept")
    /\ \/ main' = [main EXCEPT !.pc = "scan"] /\ UNCHANGED <<pool, open>>
       \/ /\ listening
          /\ \E h \in Handle \ open :
                \/ /\ FreeSlots = {}
                   /\ Reject(h)
                   /\ main' = [main EXCEPT !.pc = "scan"]
                   /\ UNCHANGED pool
                \/ /\ FreeSlots # {}
                   /\ open' = open \cup {h}
                   /\ LET u == IF FreeStates = {} THEN NoState ELSE Min(FreeStates)
                      IN  /\ Alloc(u)
                          /\ main' = [main EXCEPT !.pc = "place", !.i = Min(FreeSlots),
                                                  !.sock = h, !.user = u]
    /\ UNCHANGED <<peers, listening, shutdown, ctrl, views, said, quiet>>

\* accept_new_peer fills the slot; a NULL state does not reject the peer.
Place ==
    /\ At("place")
    /\ peers' = [peers EXCEPT ![main.i] = [sock |-> main.sock, in_use |-> TRUE, user |-> main.user]]
    /\ main' = [main EXCEPT !.pc = "scan", !.i = 1, !.sock = Invalid, !.user = NoState]
    /\ UNCHANGED <<pool, listening, shutdown, ctrl, open, views, said, quiet>>

\* The loop over the slots after select.
Scan ==
    /\ At("scan")
    /\ \/ /\ main.i > MaxPeers
          /\ main' = [main EXCEPT !.pc = "loop", !.i = 1, !.ready = {}]
       \/ /\ main.i \in Slot
          /\ LET p == peers[main.i]
             IN  main' = IF p.in_use /\ p.sock \in main.ready
                         THEN [main EXCEPT !.pc = "read", !.sock = p.sock, !.user = p.user]
                         ELSE [main EXCEPT !.i = @ + 1]
    /\ UNCHANGED <<table, ctrl>>

\* cb_on_peer_readable once a whole frame, a bad one or the end of the stream
\* has arrived.  Until then the loop waits in recv.
PeerReadable ==
    /\ At("read")
    /\ main.sock \in open
    /\ \/ main' = [main EXCEPT !.pc = "drop"] /\ UNCHANGED <<pool, said, quiet>>
       \/ main' = [main EXCEPT !.pc = "relay", !.j = 1, !.msg = Usdo] /\ UNCHANGED <<pool, said, quiet>>
       \/ /\ Announced(main.user)
          /\ main' = [main EXCEPT !.pc = "drop"]
          /\ UNCHANGED <<pool, said, quiet>>
       \/ /\ ~Announced(main.user)
          /\ \E n \in Node :
                /\ pool' = IF main.user = NoState THEN pool
                           ELSE [pool EXCEPT ![main.user].announced = TRUE, ![main.user].node = n]
                /\ quiet' = IF main.user = NoState THEN quiet \cup {n} ELSE quiet
                /\ main' = [main EXCEPT !.pc = "relay", !.j = 1,
                                        !.msg = [kind |-> "ANNOUNCE", node |-> n]]
          /\ said' = said \cup {main.sock}
    /\ UNCHANGED <<peers, listening, shutdown, ctrl, open, views>>

\* recv fails on a socket that the handler has closed.
ReadFails ==
    /\ At("read")
    /\ main.sock \notin open
    /\ main' = [main EXCEPT !.pc = "drop"]
    /\ UNCHANGED <<table, ctrl>>

\* Mutant: a peer that cannot be reached keeps its slot until the next select.
RelayFailKeepsSlot(k) ==
    /\ Close(peers[k].sock)
    /\ peers' = [peers EXCEPT ![k].sock = Invalid]
    /\ quiet' = IF Announced(peers[k].user) THEN quiet \cup {pool[peers[k].user].node} ELSE quiet

\* fbsec_bus_relay_bytes, a failed send: the slot is freed, the variant is not
\* told and its state is lost.
RelayFail(k) ==
    /\ Close(peers[k].sock)
    /\ peers' = [peers EXCEPT ![k] = FreePeer]
    /\ quiet' = IF Announced(peers[k].user) THEN quiet \cup {pool[peers[k].user].node} ELSE quiet

\* What the peer makes of a message.
Deliver(h) ==
    views' = [views EXCEPT ![h] = CASE main.msg.kind = "ANNOUNCE" -> @ \cup {main.msg.node}
                                    [] main.msg.kind = "LOSS" -> @ \ {main.msg.node}
                                    [] OTHER -> @]

\* fbsec_bus_relay_bytes, one slot.
RelayBytes ==
    /\ At("relay")
    /\ main.j \in Slot
    /\ LET p == peers[main.j]
       IN  \/ /\ ~p.in_use \/ p.sock = main.sock
              /\ UNCHANGED <<peers, open, views, said, quiet>>
           \/ /\ p.in_use /\ p.sock # main.sock
              /\ p.sock \in open
              /\ Deliver(p.sock)
              /\ UNCHANGED <<peers, open, said, quiet>>
           \/ /\ p.in_use /\ p.sock # main.sock
              /\ RelayFail(main.j)
    /\ main' = [main EXCEPT !.j = @ + 1]
    /\ UNCHANGED <<pool, listening, shutdown, ctrl>>

\* The end of a drop or of a frame: on to the next slot.
Return(m) ==
    [m EXCEPT !.pc = IF m.draining THEN "drain" ELSE "scan", !.i = @ + 1, !.j = 1,
              !.sock = Invalid, !.user = NoState, !.msg = Usdo]

RelayEnd ==
    /\ At("relay")
    /\ main.j > MaxPeers
    /\ main' = IF main.msg.kind = "LOSS" THEN [main EXCEPT !.pc = "finish", !.msg = Usdo]
               ELSE Return(main)
    /\ UNCHANGED <<table, ctrl>>

\* Mutant: the peers are not told that a peer is gone.
DropPeerSilent ==
    /\ At("drop")
    /\ LET p == peers[main.i]
       IN  IF p.in_use
           THEN /\ peers' = [peers EXCEPT ![main.i] = FreePeer]
                /\ main' = [main EXCEPT !.pc = "finish", !.sock = p.sock, !.user = p.user]
           ELSE main' = Return(main) /\ UNCHANGED peers
    /\ UNCHANGED <<pool, listening, shutdown, ctrl, open, views, said, quiet>>

\* drop_peer up to the callback, and the head of cb_on_peer_dropped.
DropPeer ==
    /\ At("drop")
    /\ LET p == peers[main.i]
       IN  \/ ~p.in_use /\ main' = Return(main) /\ UNCHANGED peers
           \/ /\ p.in_use
              /\ peers' = [peers EXCEPT ![main.i] = FreePeer]
              /\ main' = IF Announced(p.user)
                         THEN [main EXCEPT !.pc = "relay", !.j = 1, !.sock = p.sock, !.user = p.user,
                                           !.msg = [kind |-> "LOSS", node |-> pool[p.user].node]]
                         ELSE [main EXCEPT !.pc = "finish", !.sock = p.sock, !.user = p.user]
    /\ UNCHANGED <<pool, listening, shutdown, ctrl, open, views, said, quiet>>

\* free_peer, then the closesocket of drop_peer.
FinishDrop ==
    /\ At("finish")
    /\ pool' = IF main.user = NoState THEN pool ELSE [pool EXCEPT ![main.user].in_use = FALSE]
    /\ Close(main.sock)
    /\ main' = Return(main)
    /\ UNCHANGED <<peers, listening, shutdown, ctrl, quiet>>

\* shutdown_all.
Drain ==
    /\ At("drain")
    /\ \/ /\ main.i \in Slot
          /\ main' = IF peers[main.i].in_use THEN [main EXCEPT !.pc = "drop"]
                     ELSE [main EXCEPT !.i = @ + 1]
          /\ UNCHANGED listening
       \/ /\ main.i > MaxPeers
          /\ main' = [main EXCEPT !.pc = "done"]
          /\ listening' = FALSE
    /\ UNCHANGED <<peers, pool, shutdown, ctrl, open, views, said, quiet>>

-----------------------------------------------------------------------------
(* The Ctrl handler, in a thread of its own. *)

CtrlEvent ==
    /\ ctrl.pc = "idle"
    /\ shutdown' = TRUE
    /\ ctrl' = [ctrl EXCEPT !.pc = "listener"]
    /\ UNCHANGED <<peers, pool, listening, main, open, views, said, quiet>>

CtrlListener ==
    /\ ctrl.pc = "listener"
    /\ listening' = FALSE
    /\ ctrl' = [ctrl EXCEPT !.pc = "sweep"]
    /\ UNCHANGED <<peers, pool, shutdown, main, open, views, said, quiet>>

\* Mutant: the handler only closes the listener.
CtrlSweepSkips ==
    /\ ctrl.pc = "sweep"
    /\ ctrl' = [ctrl EXCEPT !.pc = "done"]
    /\ UNCHANGED <<table, main>>

\* The handler looks at one slot and remembers its socket ...
CtrlSweep ==
    /\ ctrl.pc = "sweep"
    /\ \/ /\ ctrl.k > MaxPeers
          /\ ctrl' = [ctrl EXCEPT !.pc = "done", !.k = 1]
       \/ /\ ctrl.k \in Slot
          /\ LET p == peers[ctrl.k]
             IN  ctrl' = IF p.in_use /\ p.sock # Invalid
                         THEN [ctrl EXCEPT !.pc = "close", !.ps = p.sock]
                         ELSE [ctrl EXCEPT !.k = @ + 1]
    /\ UNCHANGED <<table, main>>

\* ... and then takes it out of the slot and closes it.
CtrlClose ==
    /\ ctrl.pc = "close"
    /\ peers' = [peers EXCEPT ![ctrl.k].sock = Invalid]
    /\ Close(ctrl.ps)
    /\ ctrl' = [ctrl EXCEPT !.pc = "sweep", !.k = @ + 1, !.ps = Invalid]
    /\ UNCHANGED <<pool, listening, shutdown, main, quiet>>

-----------------------------------------------------------------------------

\* fbsec_bus_run up to the event loop.
Init ==
    /\ peers = [k \in Slot |-> FreePeer]
    /\ pool = [u \in Slot |-> [in_use |-> FALSE, announced |-> FALSE, node |-> AnyNode]]
    /\ listening = TRUE
    /\ shutdown = FALSE
    /\ main = [pc |-> "loop", i |-> 1, j |-> 1, ready |-> {}, sock |-> Invalid,
               user |-> NoState, msg |-> Usdo, draining |-> FALSE]
    /\ ctrl = [pc |-> "idle", k |-> 1, ps |-> Invalid]
    /\ open = {}
    /\ views = [h \in Handle |-> {}]
    /\ said = {}
    /\ quiet = {}

\* The steps the event loop takes without waiting for a peer.
MainStep ==
    \/ Loop \/ Select \/ AcceptNewPeer \/ Place \/ Scan \/ ReadFails
    \/ RelayBytes \/ RelayEnd \/ DropPeer \/ FinishDrop \/ Drain

CtrlStep == CtrlListener \/ CtrlSweep \/ CtrlClose

Stopped == At("done") /\ ctrl.pc = "done" /\ UNCHANGED vars

Next == MainStep \/ PeerReadable \/ CtrlEvent \/ CtrlStep \/ Stopped

Spec == Init /\ [][Next]_vars

\* Both threads are scheduled.  Nothing is assumed of the peers, nor that
\* anyone ever presses Ctrl-C.
FairSpec == Spec /\ WF_vars(MainStep) /\ WF_vars(CtrlStep)

-----------------------------------------------------------------------------
(* Properties. *)

Used == {k \in Slot : peers[k].in_use}

\* alloc_peer, free_peer and the slots: two connected peers never share a
\* socket or a state of the variant, a state that is referred to is not free,
\* and it knows exactly whether this connection, not an earlier one in the
\* same place, has announced itself.
StateOwned ==
    /\ \A k, l \in Used :
          /\ peers[k].sock = peers[l].sock /\ peers[k].sock # Invalid => k = l
          /\ peers[k].user = peers[l].user /\ peers[k].user # NoState => k = l
    /\ \A k \in Used :
          peers[k].user # NoState =>
              /\ pool[peers[k].user].in_use
              /\ peers[k].sock \in open => (Announced(peers[k].user) <=> peers[k].sock \in said)

\* Nodes the hub still has a peer for, or whose loss it is telling the others.
Present ==
    {pool[peers[k].user].node : k \in {l \in Used : Announced(peers[l].user)}}
        \cup (IF main.msg.kind = "LOSS" THEN {main.msg.node} ELSE {})

\* cb_on_peer_dropped: a peer that has been told of a node is told when that
\* node goes, over every drop, slot reuse and shutdown; the only ghosts are
\* peers that a failed relay removed and peers that found the pool empty.
NoGhost ==
    \A k \in Used : peers[k].sock \in open => views[peers[k].sock] \subseteq Present \cup quiet

\* run_event_loop ends only on Ctrl-C: no dead peer, failed relay or full
\* table makes select fail on a socket the hub has closed itself.
HubStaysUp ==
    main.draining => shutdown

\* accept_new_peer, drop_peer, ctrl_handler: whichever thread gets to a socket
\* first, none is open when the hub has stopped.
NoSocketLeft ==
    At("done") => open = {} /\ ~listening

\* ctrl_handler: after Ctrl-C the hub stops, even when the loop is waiting in
\* recv for the rest of a frame.
StopsOnCtrl ==
    shutdown ~> At("done")

=============================================================================
