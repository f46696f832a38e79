# BMESH: models, checks and proofs of the firmware

TLA+ models of the ESP32 firmware in `src/src/`: nodes that exchange short
emergency messages over LoRa, store them in flash, retry them until they are
acknowledged, relay each other's packets and ask each other for what they missed;
and of littlefs, the vendored file system the portal's pages are on. This file has
the inventory of the system, what is modelled and how, what the model checker and
the proofs show, and the plan for what is not done yet.

Check a run with `tlc -workers 2 -config <run>.cfg <module>` (the table under
"Runs" names the module), and the proofs with `tlapm LoopTheorems.tla` and
`tlapm <module>Proofs.tla`.

## 1. Inventory

A node runs several FreeRTOS tasks: the HTTP server (users), the LoRa receive
task (`lora_handle_rx_packet`), the LoRa transmit task, the TX scheduler task, the
forwarding worker, and small tasks for time and sync. They share state guarded by
one mutex per module, and exchange work through queues.

| Component (source) | State | Operations | What is hard | Correct when |
|---|---|---|---|---|
| Message store (`messages/message_store.c`) | slots in RAM, blobs in flash, reservations, count | allocate (evicting the oldest finished record), write, update, delete, remove, update status, copy, load at boot | flash fails before the write or before the commit; two tasks between allocate and write; boot under another node id; a factory reset erases the blobs under the running store | reservations are exact; a slot without a reported error is durable until a reset; another identity's mail is not shown; what was deleted stays deleted; unfinished messages are never evicted |
| TX scheduler (`mesh/tx_scheduler.c`) | one entry per message: state, attempts, request id, generation, deadline | submit, scan, send, radio result, acknowledge, restore after boot | the lock is released around `lora_tx_submit`; late, lost and mixed-up results; timeouts against answers; power loss anywhere | each accepted message ends exactly once, with a status that is true, and is never orphaned |
| Send path and boot (`app/app_runtime.c`) | locals of `queue_message` | draw an id, save the counter, allocate, write, submit; start-up order | power loss between the steps | a stored message always finds a scheduler entry |
| Receive handler (`app/app_runtime.c`) | - | replay test, learn a route, store, acknowledge, settle, queue for forwarding | copies over many paths in any order | each packet is relayed at most once, the right packets are acknowledged and forwarded |
| Packet counter (`mesh/mesh_sequence.c`) | counter in RAM and flash | next, save, update | ids drawn but not saved, power loss, erased by a factory reset | ids are not reused |
| Replay protection (`mesh/replay_protection.c`) | per source: highest number, window, last activity | accept, reset | wrap-around of numbers and ticks, full table | as an ideal window |
| Forward queue and worker (`mesh/forward_queue.c`, `forward_worker.c`) | three queues, budgets | enqueue, receive, forward | fairness between priorities, blocking on one queue | no job waits forever; hop budget charged once |
| Route table (`route_table.c`) | destination, next hop, hop count, signal, last seen | learn, best, stale | full table, stale routes | routes lead to their destination |
| ACKs, sync and time (`mesh_control.c`) | queue of requests to answer, clock and its distance | build, parse, send ACK; sync request and batches of records; time broadcast | lost ACKs, replay protection against resent records, batches the radio refuses while it transmits, ids drawn without saving, clocks that meet | an ACK of the destination settles the message; what was missed is recovered; a set clock stays |
| Radio driver (`radio/lora_radio.c`) | state, request and result queues, fault counters | submit, select, transmit, receive, recover | recovery while others use the radio, dropped results | FAULT is left or reported; no request starves |
| Packet codec (`mesh_protocol.c`, `bems_crypto.c`) | - | build and parse V2, parse V1, seal and open a frame | lengths taken from the packet, packets that grow at each relay | a packet arrives as it was entered, a part is never taken for a whole |
| Deduplication (`mesh_protocol.c`) | slots in hash chains, in an expiry wheel, in a free list | remember, look up, expire | silences longer than the wheel, a full table that takes no new packet, wrap of the clock | a packet that was entered is known for exactly a minute |
| Roster (`roster.c`) | nodes heard, with time and signal | touch, snapshot | full table, wrap of the clock | the nodes heard last are there |
| Node configuration (`node_config.c`, `http/http_setup.c`, `http/http_reset.c`, `system/factory_reset.c`) | 13 keys in flash, a copy in RAM | save a form key by key, load and migrate at boot, erase | power loss between keys, two tasks, writes that fail | a node that comes up configured is whole; a saved form survives |
| littlefs (`managed_components/.../lfs.c`) | blocks; metadata pairs; directories; open files; allocator | commit, compact, relocate, split; mkdir, create, remove, rename; open, write, truncate, sync, close; mount and repair | power loss at any program operation, bad blocks, repairs that need repairs | every operation happens entirely or not at all |
| Portal sessions, HTTP handlers, Wi-Fi, DNS, LED, storage mount, string and JSON helpers, esp_littlefs | - | parsing, formatting, computation, set-up | - | not modelled, see section 7 |

Interactions: the HTTP task calls `queue_message`, which uses counter, store and
scheduler. The scheduler hands requests to the radio task and polls its results; it
records every status in the store. Store, configuration and packet counter
share the NVS namespace `bems_config` (`message_store.c:12`, `node_config.c:13`,
`mesh_sequence.c:40`), so that a factory reset takes all three. The receive task calls replay protection,
routes, roster, store, ACK sending and `tx_scheduler_acknowledge`, and puts jobs
into the forward queue; the worker transmits them. Locks nest: `tx_mutex` is held
while the store's and the route table's mutexes are taken.

`PROJECT.json` lists the hazards of this code, each at its line, with the properties
that guard against it.

## 2. Modules

| Module | Models | |
|---|---|---|
| `MessageStore` | message_store.c: slots, flash, reservations; every operation | state and operators |
| `MessageStoreApi` | the store driven by tasks that call everything, with reboots and resets that erase its blobs | specification of the store alone |
| `TxScheduler` | queue_message, tx_scheduler.c, the store under it, the radio boundary, the receive task, power loss | extends `MessageStore` |
| `TxSchedulerLive` | fairness, liveness, and the mapping to `Outbox` | extends `TxScheduler` |
| `Outbox` | what the outgoing path promises a user | abstract specification |
| `TxSchedulerProofs` | who owns a slot; what a status means, and that `Outbox` is implemented | proofs about `TxScheduler` and `TxSchedulerLive` |
| `ReplayProtection` | replay_protection.c against an ideal window | |
| `Dedup` | mesh_protocol.c: the table of packets seen | |
| `RouteTable`, `Roster` | route_table.c, roster.c, against the history of what was heard | |
| `PacketCodec` | mesh_protocol.c: both packet formats; forward_worker.c's changes; which frames can be read | |
| `ForwardQueues` | forward_queue.c and the worker's loop | |
| `ReceivePath` | what the receive handler passes a packet through | the six above, side by side |
| `ReceivePathProofs` | window, tables, packet formats and queues | proofs about `ReceivePath` and its parts |
| `MeshNetwork` | several nodes: receive handler, forwarding worker, ACKs, routes, lossy radio | uses the other parts by what they promise |
| `MeshNode` | the network and what one node of it passes packets through | `MeshNetwork` and `ReceivePath`, side by side |
| `MeshNetworkProofs` | relaying, hops, routes, ACKs | proofs about `MeshNetwork` |
| `Sync` | several nodes: message and time synchronisation, packet counter, replay window, lossy radio, reboots | |
| `SyncProofs` | imported mail and clocks | proofs about `Sync` |
| `NodeConfig` | node_config.c, the setup form, both factory resets | |
| `NvsState` | store and configuration in one namespace: a reset erases blobs and keys, a boot loads the store under the identity found | joins `MessageStoreApi` and `NodeConfig` |
| `NvsStateProofs` | store and configuration under failing flash and resets | proofs about `NvsState` and its parts |
| `RadioQueues` | lora_radio.c: request queues, selection, sleep and notification | |
| `LoraRadio` | lora_radio.c: CAD, transmission, recovery, receive task, the chip | one request of `RadioQueues` at a time |
| `RadioDriver` | the radio driver | the two above, side by side |
| `RadioDriverProofs` | fair selection, true results | proofs about `RadioDriver` and its parts |
| `LfsAtomic` | what littlefs promises of every change | abstract specification |
| `LfsPair` | lfs.c: commits to one metadata pair | implements `LfsAtomic` |
| `LfsTree` | lfs.c: directories, on atomic commits | implements `LfsAtomic` |
| `LfsFile` | lfs.c: files and the allocator, on atomic commits | implements `LfsAtomic` |
| `Littlefs` | the three layers | side by side |
| `LittlefsProofs` | a commit to a metadata pair is atomic | proofs about `LfsPair` and `Littlefs` |
| `LoopTheorems` | least numbers, and what they say of loops | lemmas the other proofs share |
| `MC_*` | small instances | |

"Side by side" means: parts that keep their own state under their own lock and do not
read each other's. A behaviour of the composition follows one of them, so that the number
of states is the sum and not the product. `TxScheduler`, `MeshNetwork`, `Sync` and `NvsState`
are the compositions in which parts do interact.

### Store
`ram` is `persisted_slots`, `nvs` the blobs, `reserved` is `reserved_slots`,
`active_count` the counter. A record is a message or `NoMessage`; the CRC, magic and
length tests are one value `Corrupt` that the boot clears. Each flash access has an
outcome: `ok`; `failed`, nothing was changed; `uncommitted`, the blob changed and the
caller is told that it failed. `message_store_allocate` is two alternatives (a free
slot, or the eviction of the oldest finished record), `AllocateFails` is its `false`.
The eviction loop with its special case for epoch 0 is also modelled as a loop
(`EvictionScan`) and compared with the declarative `OldestSlot` in every state.

`NamespaceErased` is what `nvs_erase_all` in `node_config_erase` does to the store: blobs go,
all or some of them, RAM and its error bits stay. `doubtful` holds the slots of which flash may
differ from RAM: a write that reported an error, or a reset since. A received message is stored
only if it is from or for the node (`store_received_packet`), a broadcast is not.

### Outgoing path
One action is one critical section of `tx_mutex`, or one call made without it, so
tasks interleave exactly where the locks let them. `queue_message` has five steps:
`QueueMessage` (id drawn), `mesh_sequence_save`, `QueueAllocate`, `QueueWrite`,
`tx_scheduler_submit`. The scheduler task is `DrainResult`/`DrainDone`, `Scan` (one
entry), `SendCurrentPacket`, `lora_tx_submit` (unlocked), `SubmitReturns`. `Transmit` is
the radio task: a failing transmission may still have been on the air, and its result
may be lost. `tx_scheduler_acknowledge`, `RxAllocate` and `RxWrite` are the receive
task. `Reboot` is a power loss at any moment and the boot up to the creation of the
tasks. Deadlines are a set: `expired` holds the entries whose tick has passed, and
`TimePasses` adds one at any moment, so every order of timeouts and answers occurs.
`error` and `remaining_hops` of an entry are left out, the first because it is set
immediately before its only use, the second because no step changes it.

### Replay protection
Window bits are a set of positions; sequence numbers and ticks are taken modulo small
numbers and start shortly before the wrap. The environment delivers any packet that
was sent, any number of times, in any order. `taken` remembers, over unbounded
numbers, what was accepted.

### Network
A node is its counter, its outgoing messages, the packets its replay window has
accepted, its fresh routes and its forward queue. A transmission reaches any subset of
the neighbours. The handler is split by its branches: `HearOwnPacket`,
`RejectReplay`, `ReceiveMessage`, `ReceiveAck`, `ReceiveForOthers`; the worker
is `ForwardJob` or `SuppressJob`. Signal strength is left out, so among routes of equal
length any may be chosen. A full forward queue, a packet that cannot be built and a
radio that refuses are transmissions nobody hears. Records in the store do not
influence the handler's later steps and are left out here.

### Synchronisation
A node is its counter (in RAM and in flash), its messages in the order of the store's slots,
a replay window per source, its clock, the queue of requests it has to answer, and packets
that wait for the radio. A transmission reaches any subset of the others. `lora_handle_rx_packet` is the handler's
branch for each type; records of a SYNC_RESP go through the replay window and
`store_received_packet` one by one. `sync_response_task` selects what a request asks for,
`SendBatch` is one turn of its loop: as many records as fit, under an id that is drawn and
not saved. Packets wait in two lanes: messages go through the scheduler, the others straight to
the radio, and between the two the order is open. `lora_tx_task` puts the oldest of a lane on
the air (`sending`) and `OnAir` ends it. While a node transmits, what it hands to the radio
directly is refused and gone (`Refused`, `lora_radio.c:361`), which is what happens to the
second batch of an answer whenever the first has begun; the scheduler tries again. `away` are
the nodes that neither hear nor are heard, from `Leaves` to `Returns`, for one packet or for
many: a collision, a busy channel, a radio in FAULT. Sizes are small numbers, so that batches
fill up. `owed` remembers which messages a request that arrived has asked for, and loses the
ones in a batch that is never sent (refused, too long, or filled to the last byte) or that its
receiver throws away (more than `MaxRecords`): `MissedIsRecovered` is about all others. The
store never fills up here, broadcasts are looked at and not kept, and the window is the ideal
one that `ReplayProtection` is checked against.

### Tables and formats
`Dedup` keeps the three families of lists as sequences, in the order the code links them,
and runs the expiry loop step for step with a clock that starts before, and passes, the
wrap. `RouteTable` and `Roster` are compared with histories of what was heard and when.
In `PacketCodec` a text is a name and a length, and a V2 packet a sequence of bytes that
remember where they come from: the parser sees lengths and flags only, as in the code, and
that it gets the right fields back is a result. A relay parses a packet, changes hops, path,
relay and next hop, and builds it anew; the frame has a limit. `location_raw` is whether
the packet came with a location, be it an empty one. Texts have no "~", which separates the
parts of a location, and a bar in a text is a case of its own (`Barred`). Senders of V2 packets
are `prepare_current_packet` and the like, which enter no location (`tx_scheduler.c:229-260`);
packets with one come from senders of format V1 and reach V2 at their first relay. A byte holds any
number; the lengths in the code are below 256 (`FIELD_LEN` 32, `PAYLOAD_LEN` 140, and 71 for
a location). Encryption is: a node reads frames made with its own key.

### Configuration
A value in flash is the number of the setup it was entered in, or missing, weak, random, a
default, or left by the older firmware. `node_config_save` writes its 13 keys in the code's
order (`SaveOrder`: `configured`, `node_id`, ..., `sitio`, `barangay`, `municipality`,
`default_dest`, `default_priority`, the credentials), one action each, for the setup form and for
the migration at boot; any may fail, and the power may fail between any two. Keys whose names NVS does not take (`refused`) always
fail: "default_priority" has 16 characters, and ESP-IDF's NVS takes 15, so the run has an
NVS that takes it and one that does not. `node_config_load` is a function of the flash. A
reset erases everything, also while a form is being saved. One that fails, or that a power loss
cuts short (an erase that fails, and then a boot), leaves or takes a run of keys, as NVS erases
in the order of writing. A boot that cannot open the namespace has the defaults (`NotLoaded`).

In `NvsState` a reset is one step of both parts, and so is a boot: `Reboot(Identity[node_id'])`
loads the store under the identity the configuration has come up with. The packet counter goes
with the rest in the code; it is a variable of `TxScheduler` and `Sync`, which have no reset.

### littlefs
Three layers, each of which takes the one below as it is promised. In `LfsPair` a step is
one program or erase operation of the flash chip, a torn block may have any revision, and
what the pair holds is one value. In `LfsTree` a step is one commit; pairs have entries,
tails and their share of the global state, and relocate when `lfs_dir_needsrelocation` or a
bad block makes them, which is any time, up to `MaxRelocations`. A pair that is full splits, in
place (`Split`) or with its remaining half relocated in the same commit (`SplitAndRelocate`); a
worn superblock expands, which is a split that leaves it nothing (`Split({})`). The steps an operation has
still to take are a sequence, because commits cause further commits
(`lfs_dir_orphaningcommit`). In `LfsFile` a step is what happens between two accesses to
the flash: skip lists with their pointers, the handle's cache, the allocator's window,
relocation of bad blocks. All three are mapped to `LfsAtomic` by what a mount would find.

The firmware itself only reads files; the writing side of littlefs is used when the image
is made and is modelled because its promise is what the reading side rests on.

### Queues
Both modules count the requests or jobs in each of the three queues and leave out
their contents. In `RadioQueues` a sender is between `xQueueSend` and
`xTaskNotifyGive` (`submitting`), and the transmit task looks at its three queues one
after the other (`Look`), so that requests arrive between two looks; it selects with the
third look. `notified` is its task notification. That the selected queue has a request
(the `continue` of `lora_radio.c:550` is dead code) is part of the type invariant: a
receive from an empty queue would count below zero. In `ForwardQueues` each receive of
`forward_queue_receive` is an action, the last of which waits. `overtaken` counts, as
history, how many others were served while one was waiting.

### Radio
`chip` is the SX1278: operating mode, interrupt flags, what DIO0 is mapped to, and
whether it has been configured since its last reset. DIO0 is high when the mapped flag is
set, and its rising edge gives the one semaphore both tasks wait for. SPI transfers that
follow one another without a wait are one action that succeeds or fails, on failure
after any of its transfers; a chip that does not answer with its version number is one of
the failures. `lora_receive_mode` and `lora_set_frequency` ignore failures: `missed`
remembers that. Each branch of `lora_execute_tx`, `lora_channel_clear`,
`lora_radio_recover`, `lora_rx_task` and `lora_read_raw_frame` is a disjunct. A signal that
both tasks wait for goes to the transmit task, which has the higher priority.

`lora_receive_mode` is one step including its assignment to the state. A frame that ends
between the two would be ignored and leave DIO0 high, but between them are microseconds
and a frame takes milliseconds.

## 3. Runs

| Run | Module | Checks | Shows |
|---|---|---|---|
| `nvs_state` | `MC_NvsState` | `ReservationsExact`, `CleanSlotIsDurable`, `DeletedStaysDeleted`, `ScanFindsOldest`, `ConfiguredIsWhole`, `SetupSurvives`, `ShowsOwnMail` | the store's interface with every flash outcome, reboots under either node id and resets; the configuration with failing writes, power losses and resets; and the two in the namespace they share |
| `tx_faulty` | `MC_TxScheduler` | `TxTypeOK`, `EntryOwnsSlot`, `ReservationsHeld`, `SubmitHasRoom`, `FinalStatusIsFinal` | the outgoing path on a flash that fails in every way, with a power loss |
| `tx_promise` | `MC_TxSchedulerLive` | `KeepsPromise`, `PendingIsScheduled`, `SentWasOnAir` | with retries, broadcasts, late and lost results and a power loss the outgoing path implements `Outbox`, safety and liveness; no pending record is orphaned, no status claims what did not happen |
| `mesh` | `MC_MeshNode` | `RelayedOnce`, `RouteIsReal`, `PacketsAreTrue`; `VerdictIsIdeal`, `LeastRecentIsEvicted`, `EverySlotHasItsLists`, `KnownForAMinute`, `TablesHaveTheLatest`, `CodecIsSound`, `ForwardOvertakingBounded` | three nodes in a line, a relayed message, a broadcast, their ACKs, a reboot; and for one node: the replay window equals the ideal one across wraps, no slot of the deduplication table is lost and its minute is exact, routes and roster know the latest, packets arrive as sent, budgets bound who goes first |
| `sync` | `MC_Sync` | `ImportedOnce`, `OnlyOwnMail`, `FirstClockWins`, `MissedIsRecovered` | two nodes, answers cut into batches of which the radio refuses some, an absence or a reboot at any moment |
| `radio` | `MC_RadioDriver` | `OvertakingBounded`, `HighAndLowAreServed`, `SuccessWasTransmitted`, `ReadyMeansListening`, `RequestEnds`, `FrameIsPickedUp` | the selection is fair to LOW and quick for HIGH, no wake-up is lost; two tasks, one chip, one semaphore, failing transfers |
| `littlefs` | `MC_Littlefs` | `PairIsAtomic`, `TreeIsAtomic`, `FileIsAtomic`, `ListIsTree`, `HandleKeepsItsContents` | all three layers implement `LfsAtomic`, with power losses and bad blocks; repair leaves exactly the tree's pairs; open handles keep their contents |
| `forward_wait` | `MC_ForwardQueues` | `EmergencyIsForwarded`: violated | finding 3 |
| `mesh_ack` | `MC_MeshNetwork` | `AckSettlesMessage`: violated | finding 1 |
| `mesh_route` | `MC_MeshNetwork` | `RelayWithRouteForwards`: violated | finding 2 |
| `setup` | `MC_NodeConfig` | `SetupReboots`: violated | finding 4 |
| `lfs_moves` | `MC_Littlefs` | `TreeIsAtomic`: violated | finding 5 |

`nvs_state` explores three things (`part` in `MC_NvsState`). A behaviour of `NvsSpec` is one
of `StoreSpec` and one of `NodeSpec` (theorem `NvsIsBoth`), and the properties of the store speak
of the store only, those of the configuration of the configuration only. So each of the two is
explored by itself, with more steps than the product would allow, resets and boots included; and
the product with few steps of each, for `ShowsOwnMail`, which relates the two. `mesh`
follows the network or one node (`level` in `MeshNode`). `sync` follows letters with
their answers, or clocks and broadcasts (`MCUse`): a broadcast or a clock does not take part in
an answer.

The type invariants of the other modules (`StoreTypeOK`, `NodeTypeOK`, `ReplayTypeOK`,
`ForwardTypeOK`, `MeshTypeOK`, `SyncTypeOK`, `RadioTypeOK`, `LoraTypeOK`) hold in the same
instances and document the state; the proofs use some of them.

Every property of a passing run has a mutant in `PROJECT.json`: a change to one
definition, of the kind a slip in the code would be, under which TLC finds the
property violated.

### Bounds
- Two slots (`MAX_MESSAGES` is 16 in the code): one message at work and one that
  competes for room, so that eviction, a full store and two entries occur. `tx_promise`
  has one slot and two messages, so that the second has to evict the first.
- Two local ids. A third message would have to evict an ended one, which the second
  already does where there is one slot.
- Attempts: 1 or 2 instead of 3. With 1 every failure is the last one; with 2 a first
  and a last one differ.
- Request ids: enough that one outstanding request and one late result never use up
  the set; if they did, sending would wait, which only removes behaviours.
- One power loss: the recovered state is again a state the rest of the run explores.
- `tx_promise` uses a flash that works. With one that fails, a status that was not
  recorded leaves a pending record behind, and the message is sent again after the next
  boot; the code accepts that, so `PendingIsScheduled` and the promise are stated for a
  working flash, and `tx_faulty` and the proofs say what holds in spite of it.
- The packet counter's flash works in the runs of the scheduler (`CounterOutcomes`).
- `nvs_state`: two slots, two tasks, two ids and two nodes; a received message has the middle of
  three dates (`MCDates`). Two forms, so that an older one shows through, and one fault. A torn
  erase stops before the first key, after the flag, between the keys of the location or
  after the last (`EraseCuts`). In the shared part one message, one task at a time and one form,
  and a reset that fails has taken any of the blobs and none of the keys. Tasks and nodes
  are symmetric: of the product because the identity is a function of the configuration, so that
  states do not differ by a permutation of nodes alone.
- `mesh`, one node: replay window 3, 10 sequence numbers, two table places for three
  sources: gaps smaller than and equal to the window, the wrap, eviction. Two
  slots for three packets of which two share a hash chain, a wheel of three buckets of 2 ms
  and a clock that starts at 19 and wraps at 32. Two routes for the four pairs of two nodes, which
  are next hops as well as destinations, two roster entries for three nodes. Packets of 39 bytes at most: the longest fit at their source and not at every
  relay, and some of those that came in format V1 only until their location is written. Forward queues of depth 3, one more than the largest budget.
- `sync`: two nodes; letters of size 2, 5 and 8 and a broadcast of 4. A payload of 8 has room for
  three records of 2, of which a receiver takes two, for one of 5, which with one of 2
  fills it to the last byte, and for none of 8: three letters cut an answer in every way. Three
  ids for the writer; the ids of answers are not bounded. A request queue of one, a window of 4,
  one fault of any kind.
- `littlefs`: `LfsPair` has 3 blocks of 5 units, 4 commits, one fault and one power loss,
  revisions modulo 10, which start anywhere. `LfsTree` has 10 blocks, two names, depth two,
  one entry to a pair so that every second one splits it, 3 operations, one relocation and
  one power loss. `LfsFile` has 6 blocks of 5 words,
  4 calls, one bad block, one power loss, a window of 2 so that the allocator wraps, and one
  handle that writes and syncs beside one that reads. `lfs_moves` has two relocations. What
  these bounds hide is in finding 5 and after it.
- `mesh`, network: three nodes, two ids per node, one reboot. `DEFAULT_HOPS` is 2 instead of
  3: the line has one relay, and with 2 a relayed message uses up its budget, so that its
  ACK gets a full one and travels back over the relay. `mesh_ack` and `mesh_route` use 3.
- `radio`: two senders, queues of two (16 in the code), streaks that wrap at 7 instead of
  256, just above the thresholds 3 and 4 of the policy; the code's own three CAD attempts
  and three recoveries, and four failing transfers: three to use up the recoveries, one
  more to strike afterwards. The theorems hold for all depths and widths.
- Deadlock checking is off where users take a bounded number of steps and then everything
  is quiet, or time and packets end (`mesh`, `mesh_ack`, `mesh_route`, `sync`, `littlefs`,
  `lfs_moves`). It is on elsewhere.

### Fairness
`TxSchedulerLive` assumes that the scheduler task keeps running (an endless loop with a
delay of one second), that the HTTP task finishes a `queue_message` it has begun (no
step of it waits for another task except for short critical sections) and that ticks
advance. Nothing is assumed of the radio, of other nodes, of ACKs, of users or of
power losses. `RadioQueues` assumes that the transmit task runs and that a task which has
sent a request goes on to notify; `LoraRadio` that both radio tasks run, where waiting for
DIO0 ends after five seconds at the latest, and nothing of the chip; `ForwardQueues` that
the worker runs unless it waits. `Sync` assumes that the response task goes on while it has
something to answer (`sync_response_task`, `SendBatch`), that the radio task sends what waits and
that a transmission ends; nothing of users or of nodes that are away, and of losses only that
`MaxFaults` bounds them. `DriverSpec` is the conjunction of the assumptions of its
two halves.

## 4. Proofs

Each theorem holds for every value of the constants that the assumptions allow: any number
of slots, ids, nodes, hops, attempts, faults and power losses, any topology, any size of
tables, windows and queues. The numbers the runs use are only examples.

### Outgoing path: `TxSchedulerProofs`

| Theorem | Establishes |
|---|---|
| `TypeCorrect` | `TxTypeOK` and `StoreTypeOK` (with the exact count of records) |
| `EntriesOwnTheirSlots` | `EntryOwnsSlot` |
| `ReservationsAreHeld` | `ReservationsHeld` |
| `RoomForEverySubmit` | `SubmitHasRoom`: the "TX queue full" branch of `queue_message` is dead code |
| `SentMeansAired` | `SentWasOnAir`: a status that says sent was on the air, also after late or mixed-up results |
| `FinalIsFinal` | `FinalStatusIsFinal`, if the packet counter is saved |
| `PendingIsWorkedOn` | `PendingIsScheduled`, if the flash works |
| `PromiseIsKept` | the outgoing path implements the safety part of `Outbox`, if both do |

`EntryOwnsSlot` is not inductive: eviction spares a slot because its record is pending,
and the record stays pending only if what the scheduler writes there is pending, which
needs the entry's own copy to be so (`EntriesPending`); a write to a reserved slot is
harmless only if reserved slots are empty and held by one task
(`ReservationsHeld`); and the step after the unlocked `lora_tx_submit` needs to
know that its entry is still there (`SubmissionInHand`). `IInv` is the conjunction of
these with the types. The proof has one lemma per action. Those rest on frame
lemmas for the store operations (`UpdateFrame`, `WriteFrame`,
`AllocateFrame`), and on two for a changed (`EntryChange`) and an ended entry
(`EntryEnds`). `RoomForEverySubmit` is a counting argument: active entries map one to
one to slots other than the one `queue_message` has just written, so there are fewer
than `MAX_MESSAGES` of them.

The other four build on that. `SentWasOnAir` needs that a request in the radio's hands
carries the message of the entry that waits for it (`Requests`, `JobMatches`), because
between submission and result the lock is free. `FinalStatusIsFinal` needs that no new
message gets the id of an old one (`RecordsAreNumbered`, `CounterIsSaved`, `MailIsNew`),
which is where the counter's flash comes in. The refinement maps an id to what the store
says of it (`Mail`) and the transmissions to `Heard`; every action changes the mail of at
most one id (`PutIn`, `Rewritten`, `Added`, `OneMailStep`) and then is one step of
`Outbox`, or changes none (`NoMailStep`).

Three theorems have hypotheses about the flash. `CounterOutcomes = {"ok"}` says that saving
the packet counter succeeds: `queue_message` does not look whether it did
(`app_runtime.c:285`), and after a power loss the id would be handed out again.
`NvsOutcomes = {"ok"}` says that the store's blobs can be written: with one that cannot, a
status is lost and the message is pending again after the next boot, as the code accepts.
These are the settings of `tx_promise`, and the other theorems do without them.

### Store and configuration: `NvsStateProofs`

| Theorem | Establishes |
|---|---|
| `ReservationsAreExact` | `ReservationsExact` |
| `CleanSlotsAreDurable` | `CleanSlotIsDurable` |
| `DeletionIsFinal` | `DeletedStaysDeleted` |
| `EvictionFindsOldest` | `ScanFindsOldest`: the loop over the slots, with its special case for epoch 0, finds the oldest finished record |
| `ConfiguredNodesAreWhole` | `ConfiguredIsWhole` |
| `CompleteSetupSurvives` | `SetupSurvives` |
| `MailIsOwn` | `ShowsOwnMail`, and that the store runs as the node the configuration says |
| `NvsIsBoth` | a behaviour of `NvsState` is one of the store and one of the configuration |

All for a flash that may fail at each access and resets that erase all or a part, any number
of times. Store and configuration are in one namespace, and each specification has the steps
the other causes: a reset is `NamespaceErased` to the store and `node_config_erase` to
the configuration, a boot loads both. So the theorems about each hold in the namespace they
share (`NvsIsBoth`). The store cannot prevent that a reset takes a blob: `CleanSlotIsDurable` is
about slots no reset has crossed, and `MailIsOwn` says what is safe even so. A deleted id does not come back because no
two slots hold the same id, in RAM or in flash, and none is above the last id
(`IdsAreUnique`). `ConfiguredIsWhole` rests on the order in which keys are saved: the network
key is the last, so flash has it only with all the others (`FlashIsWhole`), and what a save
still has to write is a form that was accepted (`FormIsValid`); an erase that was torn is
the exception, and the theorem says what is left then. The eviction loop is proved round by
round: after n rounds it has the best of the first n slots (`RoundIsBest`).

### Receive path: `ReceivePathProofs`

| Theorem | Establishes | Invariant |
|---|---|---|
| `WindowIsIdeal` | `VerdictIsIdeal`, for every window, table, and start of the numbers | an entry's highest number and bits are those of the history (`EntriesMirror`), and packets are less than half of the numbers apart, so differences modulo 2^32 are true distances |
| `EvictionIsLeastRecent` | `LeastRecentIsEvicted` | ticks of entries are in the past (`TicksArePast`) |
| `SlotsAreInTheirLists` | `EverySlotHasItsLists`, for every number of slots, chains and seconds | each list holds exactly the slots that belong to it, each once (`Tidy`) |
| `MinuteIsExact` | `KnownForAMinute`, for every number of slots and seconds, every start of the clock and every silence | filled slots hold different packets with the times they were entered at and, until the clock wraps, no entry is of a bucket that counts as expired (`Linked`, `InTime`) |
| `RouteIsBest` | `BestOfWhatWasHeard` | an entry says of its pair what was heard (`EntriesAreHeard`), and a pair without entry is stale or was pushed out (`MissingAreForgotten`) |
| `RosterIsLatest` | `RosterHasTheLatest` | nodes without entry were heard before those with one (`MissingAreOlder`) |
| `ForwardingIsFair` | `ForwardOvertakingBounded`, for any depth | overtaking LOW costs the budget of NORMAL and restores that of LOW, so the worker does not get to its wait (`LowIsSoon`); a HIGH job is overtaken only by the job in hand (`HighIsNext`) |
| `CodecIsFaithful` | `CodecIsSound`, for every packet, node id, limit of a frame and number of relays | the frame on the air is what the builder makes of some packet that is what was entered, less a hop and more a step of the path for each relay, and not longer but for relay and next hop (`KeptOf`), or the fields it was sent in by the older firmware |
| `PartsAreRun`, `TablesAreLatest`, `ReceivePathIsFairAndIdeal` | the same in `ReceiveSpec` | a behaviour of the composition is one of each part |

The minute has two halves. That nothing is forgotten early needs only that an expiry removes
old entries and that the age of a young entry is its true age, on either side of the wrap
(`ExpiryTidy`, `AgeOfReading`). That nothing is kept too long is about the loop: after k
rounds each entry still to go has its list among the buckets ahead, and either none is left
or k buckets of the turn are done (`Sweeps`). It holds at the start also after a silence
longer than the wheel, because a whole turn has every list once, and a round that stops at
a bucket is the last one. After the wrap the loop does not run and this half is not claimed.

For the codec the parser is followed field by field through what the builder wrote
(`FieldIsRead`, `PacketIsRead`), so that whatever was built is read back, type and location
included, and nothing is left over (`RoundTrip`). A relay's packet is again one that can be
built (`RelayKeeps`), and that is all the invariant needs. That a part is never taken for a
whole is a fact about two readers of which one lacks the last bytes: as long as it can read it
reads the same (`Follows`), and it fails before the end because the whole is read to its end
(`BeginningsAreRefused`). The room for relays is arithmetic on the length of a packet
(`PacketSize`, `BuiltIs`) and on how format V1 compares (`V1IsLonger`). The induction is over
steps, not over data: the number of fields is fixed, so no fact about sequences of any length
is needed beyond those of the library.

### Network and synchronisation: `MeshNetworkProofs`, `SyncProofs`

| Theorem | Establishes |
|---|---|
| `NetworkTypeCorrect` | `MeshTypeOK` |
| `NoStorm` | `RelayedOnce` |
| `RoutesAreReal` | `RouteIsReal` |
| `PacketsTellTheTruth` | `PacketsAreTrue`: hops are charged once, ACKs come from the destination |
| `MailIsImportedOnce` | `ImportedOnce` |
| `MailIsOwn` | `OnlyOwnMail` |
| `ClockIsKept` | `FirstClockWins` |

For the network one invariant says of every packet, on the air or in a queue, that it is
`Sound`: a message was sent by its source under that id, an ACK was written by a node that
received the message it names, hops left and hops done add up, and the source is as many
hops away as the path says. A route is then real because it is learned from a sound packet.
Relaying once needs that a job that waits was accepted and not relayed yet, and waits once
(`JobsAreFresh`, `RelayedIsSeen`). In `Sync`, `Genuine` is the set of messages that nodes
have written themselves; the invariant says that all that is stored, being answered or on
its way is of that set, and that the window of a node lets in nothing that it has stored
(`OnlyFrom(Genuine)`). A record of an answer goes through the loop `ImportAll`, each round of which
keeps this.

### Radio driver: `RadioDriverProofs`

| Theorem | Establishes | Invariant |
|---|---|---|
| `SelectionIsFair` | `OvertakingBounded`: at most 12 requests go before a waiting LOW one and 2 before a HIGH one, for any depth, number of senders and width of the streaks | what overtakes LOW lengthens the streaks that end its wait (`LowComesSoon`); an overtaken HIGH request finds the HIGH streak at 0 and is seen in the next round (`HighComesNext`); what was seen still waits, because only the transmit task receives (`SeenIsWaiting`) |
| `SuccessIsTrue` | `SuccessWasTransmitted`, for any number of attempts and failing transfers | the chip is in standby from CAD to the switch to TX, so a TX_DONE flag seen afterwards is this transmission's (`FlagIsOwn`); an old result is gone by then (`ResultIsFresh`) |
| `ReadyRadioListens` | `ReadyMeansListening` | the above, and what each branch leaves the chip in |
| `DriverIsFairAndTrue` | all three of `DriverSpec` | |

`SuccessIsTrue` is what `TxScheduler` takes for granted of the radio when it lets a
reported success be a transmission.

### littlefs: `LittlefsProofs`

| Theorem | Establishes |
|---|---|
| `CommitsAreAtomic` | `PairIsAtomic`: `LfsPair` implements the atomic update of `LfsAtomic` |
| `LittlefsCommitsAreAtomic` | the same in `LittlefsSpec` |

For any number of blocks, of units in a block, of commits, bad blocks and power losses, at
every program and erase operation. What a mount finds depends on four things at once: which
of two blocks has the newer revision, on a counter that wraps; how many commits in it are
whole; whether the copy in RAM knows that; and where the parent points. `PairInv` says of each
phase of `lfs_dir_commit` which of the two blocks counts: while a commit is appended, the one
it is appended to, whose good commits are followed by at most one half-written one
(`Writing`, `LogIs`); during a compaction the other one, until the last unit is programmed,
because the block being written has no whole commit (`CompactInv`, `ProgramInv`); after a
relocation the new pair, of which the parent does not know (`RelocatedInv`). An erased
unit is never followed by a written one (`Shaped`), so what is appended counts only with its
checksum. The value changes at exactly one step, the last program of a commit or the
parent's update, and every other step is one `LfsAtomic` sees as a stutter.
Revisions a cycle apart are ordered (`LaterIsNewer`, `AlignedIsNewer`) only if a cycle is
shorter than half of the counter: `Cycle < RevModulus \div 2` in `LfsPairAssumption`, which in
the code is 512 against 2^31.

### Loops and assumptions

The provers cannot instantiate the library's induction principles. `LoopTheorems` has the
least-number principle as a fact about sets, and from it three facts that need no operator
as a parameter: a bounded set has its `Min` and `Max`, what each round of a loop keeps holds
at its end (`LoopKeeps`), and a loop has a result (`LoopExists`, which a recursive function
in a LET needs before anything can be said of it). The eviction scan, the ways through the
network, the import of records and the expiry of packets are proved through these.

Assumptions: `LfsPairAssumption`, `StoreAssumption`, `ApiAssumption`, `TxAssumption`, `NodeConfigAssumption`,
`CodecAssumption` (what nodes send are values of `mesh_packet_t`: texts that fit their fields, no
empty node id, up to 254 hops), `ReplayAssumption` (numbers of a source that are delivered are less than half of the range
apart), `FreeAssumption` and `Nothing \notin Packets` (a free entry is no entry),
`DedupAssumption`, `RouteAssumption`, `RosterAssumption`, `ForwardQueuesAssumption`,
`MeshAssumption`, `SyncAssumption`, `RadioQueuesAssumption` and `LoraAssumption`. They say of
the constants what the code's macros and types say, and TLC evaluates them in the runs.

Only model-checked:
- liveness: the live half of `Outbox`, `HighAndLowAreServed`, `RequestEnds`,
  `FrameIsPickedUp`, `MissedIsRecovered` (fairness is out of the prover's reach);
- of littlefs: `TreeIsAtomic`, `FileIsAtomic`, `ListIsTree` and `HandleKeepsItsContents`.
  What a mount finds is there computed by following a list of directories, or of blocks, as far
  as it goes, so each of them is an induction over lists of any length; and the first and the
  third hold with one relocation only, the last for one handle that syncs
  (finding 5), so what could be proved is not a statement for every value of the constants.

## 5. Findings

1. **ACKs never settle a message** (`mesh_ack`, `app/app_runtime.c:226`). The handler
   compares the source named in the ACK, which is the original sender
   (`mesh_control.c:401`), with the node the ACK comes from. For an ACK of the
   destination these differ, so `tx_scheduler_acknowledge` is not called and the message
   is sent until its attempts are used up, then marked failed. `DOCS.md:180` has "ACK →
   DELIVERED", and `DOCS.md:1183` the test that was meant.
2. **A relay with a route does not forward** (`mesh_route`, `app/app_runtime.c:237`).
   The handler fills an empty next hop with the one of its own route; the worker then
   forwards only packets whose next hop is the local node. A packet that was flooded is
   therefore dropped exactly by those relays that know the way.
   `DOCS.md:2606` has "route known → unicast", and `test/test_core/test_main.c:345`
   expects a relay with a route to forward a packet that names no next hop, which
   `app_runtime_should_forward_packet` alone does and the handler's assignment undoes.
   The tests do not agree among themselves: lines 362 and 389 expect such a relay not to
   forward. The intended rule has to be settled before the code is changed.

3. **An emergency packet waits for a routine one** (`forward_wait`,
   `mesh/forward_queue.c:72`). When nothing can be received, the worker waits for the
   NORMAL queue only, without timeout. A HIGH or LOW job that arrives then stays where it
   is until a NORMAL one comes. `DOCS.md:1032`: "Emergency traffic should not wait behind
   routine traffic." Once the worker moves, the order is right: see
   `ForwardOvertakingBounded`.

4. **Setup does not reboot** (`setup`, `node_config.c:291`). The save ends with erasing the
   key of an older layout, and the result of that decides. On a node that never had the
   key it is ESP_ERR_NVS_NOT_FOUND, which `message_store.c:145` knows to accept: here the
   save has failed, RAM keeps the old configuration, and the handler returns without
   restart, although all is in flash. `data/setup.html:1`: "Save Setup and Reboot". The next
   boot comes up configured (`SetupSurvives`). If NVS refuses the 16 characters of
   "default_priority" (`node_config.c:286`), the save ends there, before the credentials,
   and the node never becomes configured; `ConfiguredIsWhole` holds even so.

5. **The repair of a directory takes blocks of another** (`lfs_moves`, littlefs
   `lfs.c:5068`). A relocated pair is told to its parent, then to its predecessor on the list
   (`lfs.c:2515-2595`). After a power loss between the two, the next operation repairs the
   predecessor by a commit, and if that moves the predecessor too it allocates. The allocator
   follows the list (`lfs.c:4740-4773`), on which the old half still is: what was committed
   together with the relocation, in the run the pair of a new subdirectory, is mentioned
   only by the new half, and is given away. `lfs.c`'s `README.md:14-16` promises that "if power is
   lost the filesystem will fall back to the last known good state". The firmware does not write to
   its file system, so it does not meet this.

   Two more cases of littlefs contradict its documentation, without a run of their own. With
   `MaxOps = 4` in `lfs_moves` and one relocation, a rename into a directory whose pair splits
   and whose remaining half moves in the same commit (`lfs.c:1895`, `2098-2121`): the note of the
   move is in the new pair, which is not on the list before the predecessor is told; a power loss
   before leaves the entry in both places, against `README.md:112`, "All POSIX operations, such as
   remove and rename, are atomic". With `Syncers = {w, r}`, `MaxCalls = 5` and no faults,
   `HandleKeepsItsContents` is violated: the sync of a handle that is behind flushes nothing and
   clears the mark by which the allocator finds its blocks (`lfs.c:3495`; a write does at `3703`),
   which the other handle's next write may take, against the "strong copy-on-write guarantees" of
   `README.md:15`.

### Tests and documents that expect something else

Three places where the code does what the models have, a property of a run or a theorem
states it, and a test or document expects otherwise.

- **A full deduplication table** (`mesh_protocol.c:732-737`). When all slots hold packets of the
  last minute, the new packet is not entered. `test_dedup_evicts_old_entries_when_full`
  (`test/test_core/test_main.c:225-236`) expects the oldest entry to be gone and the new one to be
  known. `KnownForAMinute` has the code's side: nothing that was entered is forgotten early, and a
  packet that meets a full table was not entered. To drop the new one is the safer of the two only
  if nobody relies on the table; the firmware does not (only tests ask `packet_seen`).
- **Routes to a neighbour over itself** (`route_table.c:75-80`). `route_is_valid` does not compare
  destination and next hop, and a packet heard from its source teaches such a route
  (`app_runtime.c:190`). `test_route_table_rejects_self_route` (`test_main.c:278-284`) expects no
  route, and `test_route_table_excludes_previous_hop_self_candidate` (`314-322`) the longer
  one. The route table of the `mesh` run has these routes, and `MeshNetwork` needs them to reach
  neighbours.
- **Ids of answers** (`mesh_control.c:498`). SYNC_RESP ids are drawn without saving the counter,
  and `DOCS.md:82` says that it is "saved whenever a new local packet ID is assigned". After a power
  loss a message may get an id its receivers have seen, and they take it for a copy.
  `MissedIsRecovered` excepts exactly those messages (`IdTwiceUsed`).

### Observations

Things met while modelling that no document contradicts, or that bound what the runs say.

- The model's windows in `MeshNetwork` and `Sync` remember every source; the code's table has 32
  places, and with more sources the least recent is forgotten and its packets accepted again
  (`LeastRecentIsEvicted` is what holds of that). `RelayedOnce` is for networks that fit.
- Refused answers (`lora_radio.c:361`): batches are handed over in a loop, so those after the first
  are refused while it transmits. If an early batch is refused and a later one is not, the
  requester's cursor moves past the gap and no later request asks for it again.
- The migration from the older layout reads the location as one text and splits it; a
  municipality of the older layout is lost (`node_config.c:215-224`).
- A factory reset erases the packet counter too: under its old id the node starts again at 1,
  and others take its packets for replays until they forget it. In the half second before
  the restart an update of a status writes its message back into the erased namespace; a boot
  shows it to its own identity only (`ShowsOwnMail`). `DOCS.md:3186-3225` recommends how a
  reset should go and does not say that it does.
- `OnlyOwnMail` is run with two nodes, where nobody overhears an answer to a third; theorem
  `SyncProofs.MailIsOwn` covers that. `FileIsAtomic` is run with one reader and without
  `BadAtFirstWord`.

- `mesh_protocol.c:257`: the portal offers MEDICAL and INFO (`data/index.html:227`), for
  which format V2 has no byte: they arrive as FLOOD, and the alert the portal shows for a
  MEDICAL message (`data/index.html:370`) comes up only on the sender. `CodecIsSound` has it
  as it is.
- A V1 packet of ten fields whose text has a bar is read as one of eleven. A V1 packet without
  a location goes on in V2 with an empty one, "~~", which costs three bytes of its room.
- `mesh_protocol.c:187`: once the clock has wrapped (49 days) packets are not forgotten any
  more, and the table fills up. The firmware only fills it; only tests ask `packet_seen`.
- Stale routes and roster entries look fresh again 2^32 ms after they were heard, for the
  time of their staleness limit. A route that is refreshed keeps the best hop count it ever had.
- A factory reset that crosses a save, or a form within the half second before the restart,
  leaves settings behind; a duress PIN left empty is made up at every boot; after a save the
  RAM configuration is the new one while `app_runtime` keeps the old node id until the restart.
- littlefs: an assertion (`lfs.c:2260`) fails when a commit that repairs a pair deletes its
  last entry; modelled as a reset, after which the tree is intact. A block that turns out
  bad at its first word, on a full disk, may be replaced by one of the list behind it
  (`BadAtFirstWord` is FALSE). Renaming a directory into itself is not checked.

Two behaviours of the radio driver are not findings of a run, but the reason why
`ReadyMeansListening` is restricted to some results. After CHANNEL_BUSY the chip stays in
standby with the state RX (`lora_radio.c:93`), so the node hears nothing until its next
successful transmission. After a time-out with a failed recovery the state is set to
RX (`lora_radio.c:620`), against `DOCS.md:656-662`, and the next request transmits with a
chip that was reset and not configured.

`TxScheduler` models `tx_scheduler_acknowledge` as called by whoever holds an ACK of
the destination, that is with finding 1 repaired; its results hold a fortiori when the
call never comes, because nothing there assumes that ACKs arrive.

## 6. Plan

1. Done: the store, the scheduler and the send path, the network, the queues and the radio
   driver; then synchronisation, the packet formats and tables of the receive path, the
   configuration, and littlefs.
2. Done: proofs of the outgoing path, the network, synchronisation, the store, the
   configuration, the tables of the receive path and the packet formats, the radio driver and the
   commits of littlefs. Left to prove: the files and directories of littlefs.
3. Ticks as numbers in the scheduler, for the comparison `now >= next_action_tick`
   (`tx_scheduler.c:372`).
4. A run that states `DOCS.md:656-662` of the radio; the packet counter under a factory reset.
5. Delivery in the network as a liveness property, once finding 1 is settled: the hop budget
   of an ACK (`mesh_control.c:430`) and ACKs that are lost (never sent again) then matter.
6. littlefs: custom attributes and directory iteration while the directory changes.

## 7. Not modelled

- AES, HMAC and key derivation: computations. A frame is readable with the key it was made
  with; frames that fail do not reach the handler.
- HTTP parsing, pages and JSON: they call into the modelled parts (`queue_message`,
  `mesh_control_manual_sync`, the store's interface, the setup and reset handlers).
- Portal sessions and login: access control, which no property here is about.
- Wi-Fi, DNS, LED and storage set-up: peripheral I/O.
- `mesh_retry.c`: empty hooks; retries are the scheduler's. Functions nobody calls
  (`roster_mark_active`, `lora_radio_health_check`, debug printing).
- Collisions of random 32-bit request ids, and the wrap of the 32-bit generation.
- `esp_littlefs.c`: passes calls on to littlefs under one lock; block devices, runners and
  benches of the vendored repository: not part of the firmware. Of `lfs.c`: custom attributes,
  directory iteration, growing, migration from version 1, and the
  configuration checks of a mount.
