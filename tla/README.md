# TLA+ models of SOFA CANopen FD

SOFA puts an authenticated "secure object dictionary" on a CANopen FD node. A
client reads, writes and polls protected objects in two passes or in a cyclic
session; keys are installed over a ladder of tiers or by a signed handover; a
signed command restores the factory state. All of it travels in USDO transfers
over a CAN FD bus that the demo replaces by a TCP hub.

This directory models the parts that keep state, checks them with TLC on small
instances and proves the central invariants with TLAPS for all instances.

## 1. Inventory

| Part (source) | State it keeps | Operations | What makes it hard |
|---|---|---|---|
| Secure OD (`shared/fbsec_secure_od.c`) | per entry one read slot and one write slot (owner, key id, cyclic flag, counter, nonce base, arming time, prepared response), 16 key slots, the key id of the last verified write | arm read, deliver, read poll, arm write, verify write, write poll, chosen by the shape of the request | one slot for all clients; 16-bit clock; key budget; nonce = base XOR counter |
| Port hooks and key ladder (`server_common_hooks.c`, `server_common_keys.c`) | the stored object values, the lifecycle stage | role policy, read hook (some entries count up), write hook, install of a key rung | hook runs before the step that can still fail; rung is paired with "the key of the last write" |
| Boot, stage (`server_common_od.c`, `server_common_lifecycle.c`) | stage | boot from a key file, restart | everything is in RAM |
| Secure client (`shared/fbsec_secure_proto.c`), verbs and menu loops (`client_common_verbs.c`, `client_common_menu.c`) | one session (key, base, counter) | secure read/write, armed read/write, read/write poll | lost answer: the two counters differ |
| Client process (`fbsec_co_fd_client.c`, `client_common_cli.c`, `_keys.c`, `_caps.c`, `_menu.c`, `_commission.c`, `_rpk.c`) | key slots and the selected key, the capability record as far as read, the submenu's offers | command line, minimum-security gate, lifecycle submenu, claim by voucher or token, ladder, restore, the `commission` command | several requests per action, each of which may fail or be overtaken by another client; a borrowed key |
| Descriptor records (`shared/fbsec_descriptor.c`, `server_common_dispatch.c`) | none; C000h and C001h are computed from the identity store, owner and keys | build, encode, serve, decode | read one sub-index at a time, without authentication |
| USDO transport (`fbsec_co_fd_client.c`) and receive loop (`fbsec_co_fd_server.c`) | session number; one reassembly slot, one upload slot | single-frame and segmented transfers | late frames of abandoned transfers; one slot for all clients; an abort clears both |
| Link: codec, frames, carrier, bridge (`fbsec_co_fd_usdo.c`, `_frame.c`, `_carrier.c`, `_pcan.c`) | the bytes a receive has taken so far | encode, send, relay, bridge, receive with a deadline, decode, filter | partial reads; padding to a CAN FD length; a deadline inside a frame |
| Handover (`server_common_handover.c`, `server_common_asym.c`) | owner, owner epoch, provisioning key, LDevID | voucher, provisioning install, LDevID, restore | four writers of the stage; a second copy of a key |
| Signed access (`server_common_rpk.c`) | one outstanding challenge | arm, signed read, write, command | any client overwrites the challenge |
| Bus hub (`bus_common.c`, `fbsec_co_fd_bus.c`) | peer table, pool of per-peer states, shutdown flag | accept, read a frame, relay, drop, Ctrl handler | a second thread without a lock; failures in the middle of a relay |

The server is one thread: it receives a frame, dispatches it and replies before
it looks at the next. Concurrency is between clients, between a client and its
own late frames, and between any of them, the clock and a restart. A request
therefore is one atomic step of the model, and nothing inside a handler is split.
The hub is the one part with two threads: its event loop and its Ctrl handler.

Components interact as follows. The receive loop reassembles a request
(`SegTransfer`) and hands it to `fbsec_server_dispatch_request`, which tries the
descriptor, the handover, the signed-access and finally the secure OD handlers.
The last three share the key store, the lifecycle stage, the stored values and
the random source; that is why `Commissioning` is built on top of `SecureOd` and
not beside it. The secure client (`SecureTunnel`) drives the secure OD through
the same transport. `ClientFlow` is the client process in front of the whole
server of `Commissioning`; `FdLink` is what lies below every USDO transfer.

What makes each part correct:

* secure OD: no (key, nonce) pair is used twice; a key is used within its budget;
  a fresh slot is not taken over; a frame is applied once; a slot lives exactly
  as long as its timeout says.
* ladder: a rung is installed on the authority of the tier below.
* client and server together: an accepted value is current; an acknowledgement
  is the truth; both ends of a session agree on the counter.
* transport: whole bodies or nothing, of the right client, for the right request.
* link: a FIFO channel of whole messages, as `FrameChannel` states it.
* client process: what it reports is so at the device; the user's keys and the
  user's choice of key stay; no floor is passed that the device does not meet.
* hub: a slot and a state have one owner; peers hear of a node that goes; only
  Ctrl-C stops it, and it does stop.
* handover, signed access: a voucher and a challenge work once; a key belongs to
  the current owner; the status object says what is the case.

## 2. Modules

| Module | Models | Built on |
|---|---|---|
| `SecureOd` | the secure OD, hooks, ladder, boot and restore | |
| `SecureTunnel` | clients of the secure OD over a lossy FIFO per client and direction | `SecureOd` |
| `SlotExpiry` | the secure OD plus the real age of each slot | `SecureOd` |
| `Commissioning` | handover, identity store and signed access, sharing keys, stage, values and random source with the secure OD | `SecureOd` |
| `Descriptor` | the records C000h and C001h, their encoding and the floor test | |
| `ClientFlow` | client processes commissioning the device of `Commissioning` | `Commissioning`, `Descriptor` |
| `FrameChannel` | abstract: what the link promises | |
| `FdLink` | codec, wire format, carrier, hub filter and bridge, on bytes; implements `FrameChannel` | |
| `SegTransfer` | USDO transfers of several clients through the server's two slots | |
| `BusHub` | the TCP hub with its Ctrl handler | |
| `SecureOdProofs` | theorems about `SecureOd` | `SecureOd`, TLAPS |
| `SlotExpiryProofs`, `CommissioningProofs`, `SecureTunnelProofs` | theorems about the module of that name | that module, `SecureOdProofs` |
| `BusHubProofs`, `SegTransferProofs`, `FdLinkProofs` | theorems about the module of that name | that module, TLAPS |
| `ClientFlowProofs` | theorems about `ClientFlow` | `ClientFlow`, `CommissioningProofs` |
| `MC...` | finite constants for TLC | the module of that name |

### SecureOd

`rd[e]` and `wr[e]` are `read_state_t` and `write_state_t` of entry `e`; `keys`
is the key store with `NoKey` for an empty slot; `lastKid` is what
`fbsec_sod_last_write_key_id` returns; `value` is the storage behind the entries
(`CellOf` maps entries that share a variable to one cell); `now` is the port
clock modulo `ClockMod`; `srand` counts the server randoms drawn. `seals`,
`applied` and `rungBy` are history: frames sealed by the server, frames applied,
and the key that verified the write which installed each rung.

A request is a record with a shape (`Request`), and `Route`/`Dispatch` follow
`fbsec_sod_dispatch` in selecting the handler. For each handler there is an
`...Abort` operator, the ordered list of its early returns, and an action with
the same name as the C function that makes the state change of whichever outcome
applies: also the abort paths change state (a poll that finds the session expired or
its budget used up tears it down, while one with a bad counter leaves it alone; the
read hook has already counted when the random source fails).
The environment offers every request that can be formed with the constants,
including every frame ever sealed, again, at any time and by anyone.

Cryptography is symbolic: `Seal` is the record of what enters the AEAD (key,
the three parts the nonce is XORed from, direction, key id, client, entry,
plaintext) and a frame opens exactly under what it was sealed with. A server or
client random is fresh each time it is drawn; a collision of random values is
not modelled, nor is a coincidence of two XORed nonces built from different parts.

Key slots are 1..3 and the claim token in slot 4. A boot may start from any key
file listed in `BootKeys`, which stands for `--keys` and the demo keys.

### SecureTunnel

Each client runs one verb at a time: `pc` says which reply it awaits, `op` the
request, `sess` its cyclic session. `up` and `down` are the frames in transit.
A reply that arrives after the client has given up is marked not live (`Abandon`):
the client's next request uses another session number and `round_trip` drops it.
`RetryPolls` selects the driver: FALSE for the verb runners, which stop at the
first error, TRUE for the menu's poll loops, which go on. `seen[c]` is the set of
values the object has had since the client started its read.

### SlotExpiry

Adds `idle`, the age of each arming on a clock that does not wrap, so that the
16-bit verdict of `slot_is_fresh_for` can be compared with real time.

### Commissioning

`owner`, `epoch`, `uncommissioned`, `provKey`, `ldevid` are the fields of
`g_st`; `chal` is `g_challenge`; `twin` the two objects only signed access
reaches. The factory restore is the accepted C049h command; it clears the keys of
the secure OD and the store together, as `fbsec_server_handover_decommission`
does. A signature is the field `by` of a record, and covers all others.
`Status` is the part of C001h that depends on state.

### ClientFlow and Descriptor

`cl[c]` is the whole state of a client process; `pc` is the request it makes
next or the prompt it waits at. A process is started any number of times within
`MaxChoices`, each time with one of its command lines `Options[c]`: a mode, a list
of key flags that `Parse` folds into the key store, the floor, the claim token and
whether a voucher file was given; `Launch` is the process that flags and key set-up leave.
`CredentialsOk` is the check at the end of
`parse_args`; in check mode the verb it looks at has not been set, so its value
there is nondeterministic.

A request and its answer are one step (`Rpc`): it is lost before the server sees
it, or served and its answer lost, or answered. The server handles one request at
a time and a client waits for each, so nothing can happen between a request's
service and its answer that could not happen after it, except losses, which are
there. Late answers are `SegTransfer`'s subject. The server's side is not written
again: `HandleVoucher`, `HandleProvision`, `SignedCommand` and `SodRequest` are the
operators of `Commissioning` and `SecureOd`, and the replies to descriptor reads are
built by `ServeDescriptor` as bytes and decoded as bytes.

The gate reads sub-index after sub-index, and another client may change the device
between two. The three reads of the lifecycle snapshot are one step: they are not
atomic in the code, but the offers depend on each of the three separately, and a
torn snapshot offers no more than a whole one with lost reads. The verbs of the menu
are `SecureTunnel`'s. A key value stands for where a key came from (`DemoKey`,
`HkdfKey`, another); `chosen` and `given` are history, the user's own choice of key
and the user's own keys.

The clock has a single value here (`ClockMod` 1), so a challenge that a client
abandons holds the entry until a restart: that slots expire is `SlotExpiry`'s subject.

### FdLink and FrameChannel

One receiver, a server or a client, and the stream of bytes from its hub. `Send`
runs an encoder (with every check that makes it return false), serializes, lets the
hub look at the frame as `cb_on_peer_readable` does, and relays it; if the receiver
is on another hub (`far`), the frame crosses the real bus, where it is padded to the
next CAN FD length. `Recv` takes as many bytes as one `recv` may return; `Deadline`
ends a receive anywhere and forgets what it has read. `Control` and `ForeignFrame`
are the other frames a receiver meets: announcements, losses, and those of other
devices on the bus, of which `LinkConstants` assumes that they do not decode as USDO.
Messages are what the prototypes of the encoders let through (`Argument`): bytes,
16-bit indices, sizes of any magnitude, and a full segment of 60 bytes, for which the
caller passes no length.

`FrameChannel` promises delivery whole, unchanged and in order until the stream
loses its framing, after which anything may happen. The refinement maps the queue to
the messages sent to the receiver that it has not accepted yet, and `broken` to `cut`,
a deadline inside a message.

### SegTransfer

`segdl` and `segul` are the two server slots. The unit of length is a block of
60 bytes; whether a body fits a single frame is a separate constant, because the
limit there is 56 bytes and a body of 57 to 60 bytes is segmented in one block.
A block carries its client, body and place, so a mixed-up body can be told. The
multiplexor of a frame is left out: within one session number all frames of a
client are about the same object. A read with a request body and a short write
send the same frame and share an action; they part when an upload is announced.

### BusHub

`peers` is `g_peers`, `pool` the variant's `g_peer_pool` with its in-use flags.
`main` holds the place and the locals of the event loop, `ctrl` those of the Ctrl
handler. A step of either thread touches one slot, except the filling of the
`fd_set`: a socket that closes during it shows as an error of select either way.
Frames are an announcement, a USDO frame, or anything that makes
`cb_on_peer_readable` fail. `views` is what a peer has been told by announcements
and losses. `quiet` collects the nodes that a failed relay removes, or that announce
themselves when the pool is empty: the code says that it does not tell their loss
("documented limitation", `bus_common.c:167`), and `NoGhost` leaves them out. The idle tick and the bridge to a PCAN device change no state of the
hub and are part of the timeout of `Select`. A send either succeeds or fails: a
peer that stops reading, so that send blocks, is not modelled.

## 3. Runs

| Run | Question | Expected |
|---|---|---|
| `SlotExpiry` | the secure OD with a read entry used cyclically and a write entry used single-shot: types, nonce uniqueness, key budget, slots that expire on time and are not taken over before, frames applied once | holds |
| `SodReplay` | is a write frame with a cyclic key id applied once? | violated |
| `SodLadderPoll` | the ladder with write polls | violated |
| `TunnelRead` | two readers over a lossy transport with restarts: current values, sessions in step | holds |
| `TunnelTwoWriters` | two writers contending for a slot: truthful answers, sessions in step, nonces of the clients (there is no read entry; the theorem `TunnelNoncesUnique` covers both ends) | holds |
| `TunnelRetry` | nonces when a failed poll does not end the session | violated |
| `Commissioning` | two parties and two clients on handover, ladder and signed access, with restore and restart: vouchers and challenges once, keys of the owner only, ladder authority, honest status | holds |
| `ClientFlow` | two client processes commission one device, with losses and restarts: truthful reports, keys and choice of key kept, the gate, no session key replaced | holds |
| `FlowRetry` | does the offered ladder install the missing key? One client, no fault | violated |
| `SegTransfer` | two clients, short and segmented bodies both ways | holds |
| `FdLink` | every USDO command at its boundaries, near and over the bridge, in pieces: implements `FrameChannel`, the hub drops nobody, the server hears | holds |
| `BusHub` | three sockets for a table of two, peers that announce, fail and leave, Ctrl-C at any time | holds |

The violated runs are disagreements between the code and its own comments; each
has an entry under "findings" in `PROJECT.json`:

* `SodReplay`: a Pass-2 write with the cyclic key id leaves its slot, with the same
  server random, in use; the same frame is accepted again until the challenge
  times out.
* `SodLadderPoll`: a write poll runs the write hook without recording the key that
  verified it, so a rung is installed on the authority of the key of an earlier
  write, possibly of another entry.
* `TunnelRetry`: the client stores a poll's counter only when the answer arrives;
  the menu's loop goes on after a lost answer and seals a new payload under the
  counter already used.
* `FlowRetry`: `fbsec_commission_install_ladder` always starts at the Integrator rung.
  On a device that has that key and lacks the Operator key, where the menu offers the
  ladder to install "the next key", the server refuses the first rung and the client
  stops. A lost answer to the Integrator rung leads to the same state.

Smaller disagreements met on the way, without a run of their own:

* The key budget. `src/shared/fbsec_config.h:178` calls `FBSEC_AEAD_KEY_USE_LIMIT` the
  "Maximum AEAD invocations a session may run on one key before the peers MUST tear the
  session down". `poll_check_counter` (`fbsec_secure_od.c:791`) and its counterparts in
  the client (`fbsec_secure_proto.c:487`, `:551`) compare the poll counter only. The
  Pass-2 frame that opens the session runs under the same key and nonce base, with
  counter 0, and is not counted: a session runs one invocation more than the comment
  allows, 1 + LIMIT at each end. `SealBudget` states what the code enforces, LIMIT polled
  frames. Counting all frames of the session against LIMIT fails in `SlotExpiry` after
  one cyclic read and LIMIT polls.
* The head of `src/shared/fbsec_secure_od.c` (`:83`) has the "documented limitation that
  two clients arming the same entry race-overwrite". This is out of date:
  `slot_held_by_other` (`:335`) refuses the second client ("Refuse instead", `:331`) while
  the arming or session of the first is fresh, which is what `FreshSlotKept` says. Only a
  slot that has timed out passes to another client.
* After a whole turn of the 16-bit clock (65.5 s) an idle slot is fresh again for the
  length of its timeout; `SlotExpiry` excludes slots that idle that long.
* `server_common_handover.c:126` ignores the refusal of a write-once slot: a
  provisioning install into a device whose slot 1 is taken is acknowledged although
  the old key stays live. The comment above it (`:114`) says that the key is "bridged into
  the live secure-OD Provisioning session-key slot (so real sessions use it, not dead
  storage)", and the client's menu prints "Provisioning key installed"
  (`client_common_menu.c:1037`). `SessionKeyKept` shows the other half, that the old key
  stays. `OwnerProvisioned` is about the copy in the identity store and does not see it;
  `FlowTruthful` leaves out this one message of the client.
* The gate of the menu asks the node of `--target-node` (`fbsec_co_fd_client.c:451`),
  while the menu prompts for its target afterwards: the floor is enforced on the
  first, not on a second one. The `commission` command is not gated at all.
* When the read of the installed keys is lost, the submenu offers the ladder on a
  device that has all three; the server refuses it.
* A comment in `client_common_menu.c` names C000h:06h for the claim gates; the code
  reads :07h.
* The claim by token writes the token into slot 4 of the client's key store, also over
  a key of the user there; `KeyGiven` is about the session keys 1..3.

### Bounds and why they are enough

* Clients: two. Every conflict in the code is between a holder and one other.
* Clock: `ClockMod` 4 with timeouts 1 and 2 keeps the order
  challenge < session < turn of the real values (in milliseconds 65536 and the two
  timeouts), so every slot is fresh, expired and, after a wrap, of ambiguous age.
  Where the clock plays no part it is shortened to 1 or 2.
* `KeyUseLimit` 1 or 2 for the real budget: the first, the last and the first
  refused poll all happen.
* `MaxRandom` 2 or 3 bounds the number of armings and
  challenges in a behaviour. Two armings are enough for a reused base or an
  overwritten challenge. `MaxClientRandom` does the same for clients.
* `MaxQueue` 1: one frame in transit each way per client. A client sends one
  request at a time, so a second frame in a queue is a late one; with one late
  reply in `down` and one new request in `up` both are there. That a late reply
  is never taken for the next one is a matter of the session number and is checked
  in `SegTransfer`, where it is explicit.
* `WordMod`, `EpochMod`: ranges of values that wrap in the code, small enough to
  wrap in the run (the epoch does not wrap: vouchers above the last one do not
  exist, as with 2^32).
* `SessionMax` 2: the session number turns over all the time. A frame delayed
  by a whole turn (255 requests) is excluded by `NoLapped`, since then nothing in
  the code could tell it from a current one.
* `MaxIdle` in `SlotExpiry`: 3, one less than a turn.
* Boot key files: empty, Provisioning only, and for the ladder those in which
  exactly one rung is missing, so that each rung is installed within two armings.
* `ClientFlow`: the first client has three, the second two choices (launches and
  lifecycle actions). Three are a claim, a restore and a claim after it; two of the
  other client fall anywhere between. `MaxRandom` 3 challenges are shared by all. The
  command lines cover each mode, key flags in accepted and refused orders, a floor
  the device meets and one it does not. `FlowRetry` needs one client and no fault.
* `FdLink`: two messages, so that the second meets what the first left; every command
  at its smallest, largest and first refused size, node ids and indices on both sides
  of their limits; pieces of 5 bytes (inside a header, inside a payload) or all.
* `BusHub`: two slots for an origin and a recipient, a third handle for the
  connection that finds the table full and for handles that are reused; one node id,
  since a ghost of any node is a ghost of that one.
* Symmetry of the two clients is used in `SegTransfer` only, whose actions and
  invariants do not tell them apart.

The history variables bound the runs, and all of them are finite without a
state constraint. Deadlock is checked in every passing run but `FdLink`, where a
server whose loop a malformed header has ended reads no more once the messages
have run out.

### Fairness

`BusHub` assumes weak fairness of the steps the event loop takes without waiting for
a peer, and of the steps of the Ctrl handler. The operating system schedules both
threads, select returns after 250 ms at the latest, and recv returns once its socket
is closed. Nothing is assumed of the peers (a frame may never be completed) nor of
the user. Under it `StopsOnCtrl` holds.

`FdLink` assumes weak fairness of the server's receive: its loop calls
`fbsec_co_fd_carrier_recv` again after every frame and every deadline, and recv
returns bytes that are there. Nothing is assumed of a client, which reads only while
it awaits an answer, nor of the senders. Under it `ServerHears` holds.

Elsewhere the code schedules nothing; progress depends on the user of the client
and on the bus. That a lock-out ends when the holder stays silent is checked in its
safety form: `ExpiryTruthful` says that a slot is honoured exactly up to its timeout.

## 4. Theorems

The theorems hold for every value of the constants that the named assumptions of
the modules allow (`SodConstants`, `TunnelConstants`, ...: ranges of the
parameters, an object is read-only or write-only). That
randoms are fresh is in the models, not an assumption of the proofs. A hypothesis
beyond these is stated in the theorem. Each invariant named below was checked by
TLC on the runs before it was proved, but for `InStep` of the link, which says that
witnesses exist TLC cannot enumerate; what it implies was checked.

### The secure object dictionary (`SecureOdProofs`)

* `TypeCorrect`: `Spec => []TypeOK`, one lemma per handler.
* `NonceInvariant`: `NonceInv` is invariant. `NoNonceReuse` is not inductive by
  itself: it does not say what a later poll may still seal. `NonceInv` adds that
  every sealed frame's random has been drawn and its counter is within the budget,
  and that of a polled frame is not 0;
  that (server random, counter) already identifies a frame; that a live cyclic
  session's counter is at least that of every frame under its random; and that two
  sessions never share a random. An arming draws a random nobody has used
  (`NonceArm`), a poll uses a counter above all earlier ones (`NoncePoll`), every
  other step seals nothing and leaves or clears the sessions (`NonceQuiet`).
* `NonceUnique`: hence `Spec => []NoNonceReuse`.
* `BudgetKept`: `Spec => []SealBudget`. The counters of the polled frames of one
  session are distinct and lie in 1..KeyUseLimit, so there are at most KeyUseLimit. The
  frame with counter 0 is the one the budget does not count (section 3).
* `SlotNeverStolen`: `Spec => FreshSlotKept`, from the guards of the two arming
  handlers, the only steps that change a slot's client.
* `OnceInvariant`, `SingleShotNeverReplayed`: once a single-shot write frame is
  applied, the challenge it answered is in no slot any more, and as every challenge
  in use was drawn, none that is drawn later equals it. So the frame is refused for
  ever, whatever key ids the rest of the traffic uses.
* `NothingAppliedTwice`: `AppliedOnce` for all frames, if no client writes with a
  cyclic key id. With one it is false: run `SodReplay`.
* `LadderInOrder`: `LadderAuthorised`, if the key set is not written with a cyclic
  key id. With one it is false: run `SodLadderPoll`.

### Expiry (`SlotExpiryProofs`)

* `ExpiryImplementsSod`: the specification with real ages implements `Spec`, so the
  theorems above hold of it.
* `ExpiryIsTruthful`: `ExpiryTruthful`, if `MaxIdle < ClockMod`. The invariant is
  that the clock stands exactly `idle` ticks, modulo `ClockMod`, after `armed_at`;
  below a whole turn the modulus hides nothing. With a whole turn the statement is
  false (the first of the smaller disagreements in section 3).

### Commissioning (`CommissioningProofs`)

* `CommTypeCorrect`: all variables of the composed server.
* `VoucherNeverReused`: the stored epoch is at least that of every voucher accepted
  since the last restart. A restart forgets the epoch, and the history with it.
* `ProvisionedByOwner`: needs that the device has no owner exactly while it is marked
  uncommissioned, because a claim and a restore are guarded by the mark.
* `SignedAccessBound`: needs that the armed challenge was issued, that no access has
  used it, and that every challenge was drawn from the random source.
* `CommNonceUnique`, `CommSingleShot`, `CommLadder`: the theorems of the secure OD for
  the composed server, which shares keys, stage, values and the random source with
  the handover. Every step of the composition either is a step of the secure OD or
  leaves its slots and histories alone (`SodView`).
* `StatusAlwaysHonest`: the stage follows the keys over ladder, handover, restore and
  boot. It and `CommLadder` have the hypothesis of `LadderInOrder`.

### Clients and server (`SecureTunnelProofs`)

* `TunnelInvariant`, `TunnelNoncesUnique`: no two frames, of whichever side, share key
  and nonce, if a failed poll ends the session (`~RetryPolls`; with the menu's loop it
  is false: run `TunnelRetry`). The argument is that each client random has one
  purpose (`RandomInv`). One drawn for a read, in a challenge in transit, in a read
  session or in a frame of the server, is one that no client has sealed under;
  one drawn for a write belongs to one client, whose stored counter is not below any
  counter it has sealed with, the poll in flight included. Frames in transit are part
  of the invariant: a challenge that is delivered after its client gave up still
  starts a session under its random.
* `TransitInvariant`: neither `ReadFresh` nor `SessionInStep` nor `AckTruthful` is
  inductive, because what a client will accept is decided by frames that are still on
  their way. `TransitInv` says which these may be, in four parts. *Queues* (`Wire`): a
  client waits for at most one frame, the newest of its queue, and once that one is
  answered nothing of the client is on its way to the server. *Origin* (`Tracked`,
  `Answered`, `SlotsInv`): what is sealed in a request was sealed by its client, what is
  sealed in an answer or prepared in a slot by the server, a write session of the server
  goes back to a frame a client sealed, and an answer to a write says whether the write
  is among the applied ones. *Privacy* (`Private`): the random of a read that is going on,
  or of a read session, is in no other challenge, so nobody's late challenge re-arms the
  slot under the same base. *Step* (`Doing`, `ReadStep`, `WriteStep`): a slot with the
  base of a client's session is of that client, key and entry, at the client's counter,
  or one ahead when the poll in flight has been served (`Ahead`); and what the server
  has sealed under the counter the client asks for is a value of the client's window.
  The proof has one lemma per action. A step of one client cannot disturb what is said
  of another (`Bystander`), because it sends no challenge twice and seals only under
  fresh randoms or its own; a request served for one client never moves the counter
  of another's session, it can only end that session (`ServedReadSession`, `ServedWriteStep`).
* `ReadsFresh` (`ReadFresh`), `SessionsInStep` (`SessionInStep`), `AcksTruthful`
  (`AckTruthful`): consequences of `TransitInv`, with the hypothesis `~RetryPolls`. With
  the menu's loop `AckTruthful` is false: a poll repeated after a timeout may be the
  frame the server has applied, and is then refused. `TransitInv` was first checked by
  TLC on the instances of `TunnelRead` and `TunnelTwoWriters`.

### The hub (`BusHubProofs`)

The hard part is what the event loop's locals mean while the Ctrl handler sweeps the
table and closes sockets. `TableInv` says it, in three parts: `Threads` (the handler
runs only after the flag is set, and the socket it is closing is that of its slot, or
the slot is free), `Table` (`StateOwned`; a socket in the table is open, or `Invalid`
after the sweep; what has announced itself is open) and `Locals` (the slot that is
being filled is free and its socket in no other slot, the one that is read is in use,
the one that is dropped has left the table).

* `HubTypeCorrect`, `TableInvariant`, `PeersOwnTheirState` (`StateOwned`).
* `StopsOnlyOnCtrl` (`HubStaysUp`): with `Draining`, which says that shutting down
  starts after the flag is set and that the slots behind the cursor are free.
* `EverySocketClosed` (`NoSocketLeft`): with `Sockets`, that every open socket is in
  the table or in the hands of the event loop.
* `EveryLossTold` (`NoGhost`, which leaves out the nodes in `quiet`): with `Ghosts`, that while a loss is being told the peers
  behind the cursor know of it already, and that a handle that is not open, or not yet
  in the table, has been told nothing.

### Segmented transfers (`SegTransferProofs`)

What makes this hard is the late frame: a block of a transfer that its client has
given up on may still be under way when the next transfer starts. `SegInv` is the
inductive invariant, in two parts, each about one client. `Local` says how far the
client's own transfer is and that the slot it holds contains a beginning of the body
or of the answer. `Turn` says which frames may be in transit: of each session number
at most one on the way up, the frame of the current transfer behind all late ones, its
answer the last on the way down and only when nothing is left upward; and a late block
(`WellSent`) continues what the slot holds, if the slot is still that session's. A step
of another client keeps both (`Still`, `Apart`): it can take a slot away, but only by
marking the transfer as cut.

* `SegInvariant`: `SegSpec => []SegInv`, one lemma per action.
* `DispatchesWhole` (`DispatchWhole`), `WritesAcked` (`WriteAcked`), `ReadsWhole`
  (`ReadWhole`), `AbortsOnlyIfCut` (`NoSelfInflictedAbort`): each follows from it.

That a frame is not delayed by a whole turn of the session number is a guard of the
model (`NoLapped`), as in the runs, and not a hypothesis of the theorems.

### The client process (`ClientFlowProofs`)

An action of the submenu is several requests, and between any two of them another
client, a restart or a loss may come. `FlowInv` is the inductive invariant: the types
of the server (`CommType`), and for each process `Sound`, which says of its state

* `Borrowed`: between the requests of a claim or a ladder, when another key is
  selected, `saved` holds the user's choice; elsewhere the selection is the choice;
* `Paired`: the second pass of a rung runs under the key that authorizes that rung, and
  there is a key to install;
* `Supplied`: the user's keys are in the slots 1..3;
* `Launched`: a one-shot verb has its key before the process asks the gate, because the
  credential check comes first;
* `Floored`: of the capability record, the byte the floor test looks at is either not
  read yet or the device's, which does not change; a process past the gate has seen it.

Another client's step does not touch the process (`MoveStep`), so every action is a
lemma about one record.

* `FlowInvariant`, `FlowTypeCorrect` (`FlowTypeOK`), `ChoiceAlwaysKept`
  (`KeyChoiceKept`), `KeysAlwaysGiven` (`KeyGiven`), `GateAlwaysHolds` (`GateHolds`).
* `SessionKeysKept` (`SessionKeyKept`): from the handlers of the server; the ladder, the
  claim and the provisioning fill only an empty slot.
* `ReportsTrue` (`FlowTruthful`): needs `Rising`, that a device with the Integrator key
  has the Provisioning key, and for it the hypothesis `NoGap`, that the key files a
  device boots from have no gap there. From such a file the ladder ends in
  "operational" on a device without a Provisioning key, so the hypothesis is needed.

`OptionsTyped` assumes of the command lines that `Parse` yields a well-formed store.
`NoStoreType` and `ApplyFlagType` prove the base and the step of that fold; the
induction over the list of flags is out of the prover's reach.

### The link (`FdLinkProofs`)

Three layers, each from the one below.

The codec. `Carries(p, m)` says where in a payload the fields of a message are, by the
layout of its command and by the lengths the message states, not by the length of the
payload. `Encoded`: what an encoder builds carries its message. `Padded`: more bytes
behind it change nothing, as long as payloads of up to 8 bytes are not padded
(`DlcFits`); without that a six-byte confirmation would gain a data block.
`FrameDecoded`: a payload that carries m decodes to m. `WireFrame`: parsing a serialized
frame gives it back.

* `RoundTrip`: every message an encoder takes survives serialization, parsing and the
  bridge, and decodes to itself.
* `PeersStay` (`PeersKept`): so the hub disconnects nobody for an encoded frame.

The buffer. `BytesOK`: the receiver's buffer holds less than the frame it has begun,
because `recv` is never asked for more than the header or the rest of the payload.

* `LinkTyped` (`LinkTypeOK`): bytes only, and never more in the buffer than fits.

The stream. `LinkInv` is the inductive invariant: `BytesOK`, the types, and, until a
deadline cuts a message, `InStep`. That one says that all frames ever put on the stream
form a row (`Row`: where each ends), that the unread bytes are the frames behind the
a-th, serialized one after the other (`Rest`), that the buffer is a beginning of the
next one, and how many of the sent messages are in the first i frames (`Tally`); what
has been delivered is as many messages, from the front, as are in the first a. Putting
a frame makes the row longer, a receive that completes a frame moves a by one.

* `ReceiverInStep` (`StaysInStep`): no header is read as malformed, so the server's loop
  goes on.
* `LinkIsChannel` (`ChannelKept`): the link implements `FrameChannel`, for any messages,
  any pieces and any number of frames.

### Checked by TLC only

Liveness (`StopsOnCtrl`, `ServerHears`) and what a fold computes for every input
(`Parse` of `ClientFlow`) are outside what the prover can do. Every invariant and every
other action property of the passing runs is the statement of a theorem. What the menu's
poll loop does (`RetryPolls`) is model-checked only, by `TunnelRetry`.

## 5. Not modelled

* The composition of all layers in one state space: `SecureTunnel`, `ClientFlow` and
  `SegTransfer` take the link as FIFO queues that may lose or delay frames, which is
  what `FdLink` shows of it; `BusHub` is not composed with them.
* The menu's target and node-id prompts, the security scan, and the text of keys,
  vouchers and command lines: I/O. A malformed one is a refused one.
* AES-GCM, Ed25519 and HKDF: symbolic. Vendored code is not looked at.
* The constant objects other than C000h and C001h: stateless tables.
* Buffer sizes: the length checks whose failing branch no request of the tunnel
  can reach (`reply_max` in the secure OD).
* Printing, tracing, console, sockets and the PCAN driver itself: I/O. In builds
  for other systems than Windows the random port always fails; the model lets it
  fail or not at each call.
* Frames of other devices on the real bus that happen to decode as USDO: nothing in the
  code tells them apart.
* Persistence: there is none, and a restart is a boot with whatever key file.

## 6. Plan

1. Done: all modules above, the refinement of `FrameChannel`, and the theorems of
   section 4.
2. Open: what holds of `SecureTunnel` under the menu's poll loop. `ReadFresh` and
   `SessionInStep` do not mention the frames that are sealed twice there, but their proof
   uses that a failed poll ends the session.
