# TLA+ models of the Telink BLE SDK (tc_ble_sdk)

The SDK is C for a single-core microcontroller. The BLE link layer and host
stack come as a binary library (`proj_lib`); what the repository holds in source
is the layer around it: transports, storage, connection management, timers,
keyboard, USB, drivers and demo applications. These modules model the parts of
that layer which keep state across events: they run in one endless main loop,
with interrupts and stack call-backs in between, over flash that loses power and
wires that lose frames.

All paths below are relative to `tc_ble_sdk/` of the repository.

## 1. Inventory

### The parts and how they interact

| Part | Source | State | Operations | Talks to |
|---|---|---|---|---|
| HCI H5 protocol | `vendor/common/hci_transport/hci_h5.c` | `hciH5Cb`: link state, 3-bit sequence and acknowledge numbers, two window counters, three ticks | `HCI_H5_Poll`, `HCI_H5_PakcetHandler`, `HCI_H5_Send*`, `HCI_H5_Reset` | HCI rx/tx FIFOs (shared with the stack), SLIP, the peer |
| H5 framing | `hci_tr.c`, `hci_tr_h5.c`, `hci_slip.c` | UART receive buffers written by DMA, a backup of a split frame, the SLIP send buffer | `HCI_TransportPoll`, `HCI_Tr_H5IRQHandler`, SLIP encode and decode | UART interrupt, H5 protocol |
| H4 transport | `hci_tr_h4.c` | receive buffers, a packet being put together | receive state machine | UART interrupt, HCI FIFOs |
| HCI firmware update | `hci_dfu.c`, `hci_dfu_port.c` | update state, flash address, CRC | START, DATA, END commands | HCI, flash |
| Custom pairing table | `vendor/common/custom_pair.c` | table in RAM, records in one flash sector, write index | init, add, delete, delete all, search | flash, the central demo without SMP |
| Connected device list | `vendor/common/device_manage.c` | `conn_dev_list`, one counter per role | insert, delete, searches | every handler of the demos |
| Service discovery | `vendor/common/simple_sdp.c` | `main_service`, the pending request and its buffer, `cur_sdp_device`, handle records in flash | discovery with a main loop inside, store, load, delete | ATT call-back, list, flash |
| ACL demo, central role | `vendor/acl_connection_demo/app.c`, `app_ui.c` | four handle flags, pairing flag | event handlers, keys, un-pairing | stack, list, discovery |
| Software timers | `vendor/common/blt_soft_timer.c` | sorted table, wakeup tick | add, delete, process | system timer, power management |
| OTA client | `vendor/feature_test/feature_ota/app_ota_client.c` | step, PDU index | step machine driven by the main loop and notifications | peer, flash |
| Queues | `common/tl_queue.c` | a linked list with head, tail and count | init, enqueue, dequeue, insert, remove, delete | applications, interrupt handlers |
| Keyboard | `application/keyboard/keyboard.c`, `keyboard.h` | release count, two matrices of the debounce filter, ring of four matrices, `kb_event` | `kb_scan_key` | GPIO, the user interface of every demo |
| USB reports | `application/app/usbkb.c`, `usbmouse.c`, `usbstd/usb.c` | release mask, last event, report FIFO of four, data toggles | key, system, media and consumer reports, `usb_handle_irq` | USB host, the demos that forward keys |
| Microphone | `application/audio/tl_audio.c`, `adpcm.c`, `vendor/ble_remote/app_audio.c` | recording buffer, half to encode, ring of packets | enable, encode, notify | audio FIFO hardware, stack |
| Flash protection | `vendor/common/flash_prot.c` | lock state | lock, unlock around operations | flash, OTA |
| BLE stack | `proj_lib` (binary), `stack/ble` | – | – | everything; external here |
| LED, battery, firmware check, audio codecs, log, USB control endpoint, drivers, boot | `vendor/common`, `application`, `drivers`, `boot` | pin, register and ADC state | – | hardware |

Everything in a device runs on one thread. Concurrency comes from five places:
the interrupt that hands over UART buffers; the peer or host at the other end of
a wire, bus or link; hardware that goes on writing or sending by itself (audio
FIFO, USB endpoints); nested main loops (a service discovery runs
`main_idle_loop` while it waits for each response, so every handler may run
inside it); and the power, which may fail between any two flash commands.

### What is hard, and what correctness means there

- **H5.** Acknowledgements are late, crossed, lost or from a previous life of the
  peer; the transmitter may be busy when a sequence number is already used up;
  timers rewind the window. Correct: nothing is lost, repeated or reordered; an
  acknowledgement releases only what the peer has; the link comes up and stays
  up; every packet is sooner or later answered; FIFOs filled without a check do
  not overflow.
- **Pairing table.** Flash can only clear bits, records may be torn, and a cleaning
  erases the sector before it writes the survivors back. Correct: RAM and flash
  agree, deleted bonds never return, kept ones do not vanish, initialisation
  never stops in its `while(1)`.
- **Central role.** A connection, its slot, its flags, its discovery and its flash
  record live and die at different moments, and connection handles are used
  again. Correct: the list mirrors the controller, no flag outlives its
  connection (it would stop all further connections), attribute handles are
  never kept for the wrong peer, no late response of a discovery is copied to a
  dead stack frame (an Error Response to another request can be, see `acl_refused`).
- **Timers.** Only the head of the table is looked at, so its order is what makes
  timers fire, across the wrap of the clock and while entries are deleted in the
  loop that walks them.
- **Queue.** A call that leaves the tail or the count wrong shows it only in a later
  call. Correct: the list is a sequence, and every call does to it what the
  header says (with one exception, `InsertByPriority`).
- **Keyboard.** Keys bounce and make ghosts, the scan stops by itself, and changes
  are kept in a ring that may overrun. Correct: no key is reported that is not
  down, none stays pressed, and a caller that reads on ends up with the truth.
- **USB reports.** The host fetches between two reports of one event, so that some
  go out at once and some are queued; a reset of the bus restarts the toggles.
  Correct: the FIFO keeps its order and runs empty, no report has the toggle of
  the one before, and the host ends up with the keys that are held.
- **Microphone.** The hardware overwrites the buffer in a circle whether or not the
  encoder has come. Correct: no packet mixes two rounds, packets keep their
  order, and the ring drops the oldest one only.

The list `hazards` of `PROJECT.json` has each of these at its line.

## 2. Plan

Done, in this order: `HciH5`, `CustomPair`, `DeviceManage` with `AclCentral`,
`SoftTimer`, the proofs `HciH5Proofs` and `AclCentralProofs`; then `AbsQueue` with
`TlQueue`, and `LossyFifo` with the three modules whose rings implement it,
`Keyboard`, `UsbHid` and `MicPipe`; then `RingLemmas` with `KeyboardProofs`,
`UsbHidProofs` and `MicPipeProofs`, `CustomPairProofs`, `QueueTimerProofs` (of `TlQueue` and
`SoftTimer`) and the other parts of `AclCentralProofs` and `HciH5Proofs`.

To do, most important first:

1. Proofs: `NoLoss`, `NoGap`, `NeverBackwards` and `HciRxBounded` of `HciH5` through overruns,
   where TLC finds that they hold with a window of one.
2. `HciTrH5`: SLIP and header codec, frames split over receive buffers, the backup
   and its flush timer; the 8-bit fill count and the length byte of
   `HCI_H5_PackHeader`. `HciTrH4`: the same for H4 packets.
3. `OtaClient` and `HciDfu`: step machines against a peer and a flash image, with
   lost notifications, odd image sizes and out-of-sequence commands.
4. `SoftTimer` with call-backs that add and delete timers themselves (nothing in the
   repository does), `FlashProt`.

## 3. The models

Definitions keep the names of the C functions where they can (prefixes dropped);
`PROJECT.json` maps each one to its lines. Definitions marked "Variant with a
fault" are altered copies of the definition below them; no specification uses
them, they serve to show that a property can fail.

### HciH5

Two nodes run `hci_h5.c` against each other. `cb[n]` is `hciH5Cb` with the HCI
FIFOs and the UART transmitter of node `n`; every C function is an operator from
the old control block to the new one, and the actions are the contexts they run
in.

| Action | Code |
|---|---|
| `RxFrame` | one turn of the loop of `HCI_Tr_H5RxHandler`, down to `HCI_H5_PakcetHandler` |
| `Poll`, `PollAck` | the rest of `HCI_TransportPoll`: `HCI_H5_Poll`, split before its pure-ack handler since an interrupt may free the transmitter there, and `HCI_Handler` |
| `HciEvent` | the stack puts a packet into the tx FIFO |
| `UartTxDone` | a frame leaves one transmitter and `HCI_Tr_H5IRQHandler` of the other node takes it; with every buffer in use it lands on the oldest unread one |
| `Lose`, `Restart` | the wire damages a frame; a node resets |

A tick is the Boolean "armed"; an action chooses whether an armed timer has run
out, so `Spec` covers every relation between timers and traffic. History fields
(`made`, `last`, `got`, `dup`, `rel`, `drop`) only serve the properties.

A frame that is lost takes its acknowledge number with it: `LossKinds` counts it as
a lost acknowledgement too when the peer does not know that number yet.

`HciH5Link` adds what the liveness of link establishment needs to know about time: the
250 ms timers of the two nodes are independent, so `CrossedExpiry` lets either run out
with frames of any node under way. SYNC and CONFIG then cross, and an answer is
thrown away by `HCI_Slip_Send` when the transmitter is busy with the node's own frame.
See "Fairness" for what is assumed.

Left out: header bytes, CRC (off as shipped), SLIP, split frames, differing windows
at the two ends (the negotiated minimum is the constant `SlidWinSize`; the code
ships 1).

### CustomPair

`flash` is the sector in 8-byte records, `tbl` the RAM table, `cfgIdx` the write
index, `pc` the flash command that is next. `Boot`, `Erase`, `Rewrite` are
`user_master_host_pairing_flash_init` with `user_bond_slave_flash_clean`; `Add`
with `StoreNew`, `Delete`, `DeleteAll` are the three operations, one flash command
per step. `PowerFail` comes between two commands, `PowerFailInProgram` leaves any
record of `Torn` behind. Programming over a record that is not blank gives
garbage: a power failure may leave a record without a mark but with part of an
address, and the next device stored there has its address in RAM and garbage in the
sector. `RamMirrorsFlash` names this exception and no other. A sector erase is taken as indivisible, and an address is added only
after a search for it, as the callers do.

### DeviceManage and AclCentral

`DeviceManage` has the list operations as operators. `AclCentral` composes them
with the handlers of `app.c`, the keys and un-pairing of `app_ui.c`, the discovery
and storage of `simple_sdp.c`, and an external controller with peers.

| Action | Code |
|---|---|
| `AdvReport`, `ConnComplete`, `PeriphrConnComplete`, `Disconnect` | `app_le_adv_report_event_handle`, `app_le_connection_complete_event_handle`, `app_disconnect_event_handle` |
| `SmpDone`, `SmpFail` | `app_host_event_callback` |
| `AttRsp`, `AttRefused` | `app_gatt_data_handler` with `host_att_client_handler`, on the response to a discovery's request and on an Error Response to another one |
| `UiLoop` | `proc_keyboard` and `proc_master_role_unpair` at the end of `main_idle_loop` |
| `SdpLoop`, `KeepWaiting`, `NextRequest`, `Timeout`, `Finish` | `simple_sdp_loop`, `app_service_discovery` and `host_att_service_wait_event` between two runs of `main_idle_loop` |
| `LinkLost`, `PowerFail`, `PowerFailInStore` | the radio and the power |

`at` says whether `main_idle_loop` takes events (`"ble"`) or has returned to its
caller, which is the outer loop or a waiting discovery. Attribute handles are
represented by the peer they came from: `chars` of a slot or record is the set of
peers whose data is in it, so data mixed from two connections is visible.

`host_att_client_handler` is `ClientHandler`: `Fits` compares three bits of the handle with
`host_att_req_busy`, which is 0 (`NoHandle`) when no request is waited for and keeps
the rest of a request that timed out, and takes an Error Response whatever it
answers. `app_gatt_data_handler` (`GattData`) passes on every packet of the
connection that `central_sdp_pending` names, whether its discovery has begun or not.
`Packet` has the three kinds the handler tells apart. A response to a discovery comes
at any time after its request (`owed`), also to another discovery than its own.
`Refusers` are the peers that answer other requests of the stack, such as the MTU
exchange, with an Error Response, at any moment (`MaxOwed` bounds this to moments with
few requests out). `buffer` says that `p_att_response` is set, `rsp` who filled it.
What a copy to a frame that is gone overwrites there is not modelled. An Error
Response counts as one that carries its sender's attributes, which is more than the
code takes from it; so `RightHandles` makes no claim about what is filed under a
`Refuser`, whose Error Response may end a discovery begun with the peer before it.

Assumptions about the library: a connection takes longer to be created than the
`main_idle_loop` that asked for it; a peer answers a discovery request at most
once; a handle is given out again only after its disconnection event; a
disconnect command on a link that is already lost fails. Noted on the way: a
reconnection loads the handles of a record except `char_handle[0]` (`app.c`
176-184), which storing does write.

Left out: start-up, sleep, consumer keys, parameter updates, the flash-protection
call-backs, deletion and search in the list by address (no demo calls them).

### SoftTimer

`timer`, `wakeup` and the local variables of `blt_soft_timer_process` (`round`,
which is `i`, `now`, `changed`). The sort is the bubble sort of the code, its two loops as recursive functions
of their counters. Ticks are modulo
`W`, "later" is a difference below `Quarter`, as `TIME_COMPARE_BIG` does with 2^32
and 2^30. The clock runs between and inside calls, at most `MaxGap` and `MaxRun`
ticks. Left out: call-backs that change the table.

`Roomy` says when the margins are wide enough. A timer that is due when the loop runs
is served, or is passed over because the loop deleted the timer before it, and then
it has moved one place to the front. So it is looked at within `MaxTimer` processes,
and is late by `Lag` at most; `Roomy` asks that `Lag` fits into the window of
`blt_is_timer_expired`, and an interval plus `Lag` into the range of `TIME_COMPARE_BIG`. With
the four timers, the four seconds and the 67 seconds of the code this is a main
loop that comes round within about 0.8 s and intervals of at most a minute.

### AbsQueue and TlQueue

The `Spec` of `AbsQueue` is what `tl_queue.h` promises: a sequence of distinct items, to
which each call does one thing. `CodeSpec` adds the one call in which the code does
something else: `InsertByPriority`, an item inserted behind the tail of a queue with
priorities is enqueued (`tl_queue.c` 189-190). `TlQueue` is `tl_queue.c`: `head`, `tail`, `curNum` and the `next`
field of every item, one action per function (`Enq`, `Deq`, `Insert`, `Remove`,
`DeleteFound` and `DeleteMissed`, the two ends of `queue_delete`). Every function runs
with interrupts off, so it is one step. `IsQueue` is the refinement of `CodeSpec`, `IsHeaderQueue` that of `Spec`: the items that
the next pointers lead through from `head` are the abstract sequence, and `call`
(operation, arguments, answer) is the same on both sides. The caller's part of the
contract is in the guards: an item is queued once at most, and the previous item
passed to `queue_remove` is the one before. Left out: NULL arguments.

### LossyFifo

What three rings of the application layer promise: values leave in the order they
came, and a value put into a full ring drives out the oldest one. Each ring has two
pointers that run modulo twice its size; the mapping reads the sequence between
them out of the slots (`Ring` in each module).

### Keyboard

`kb_scan_key` is one action, with the whole of `kb_key_pressed` and
`kb_scan_key_value` in it, and `MoveKey` moves a key between two calls. `Wired` is the
matrix: a row reads every column it is connected to through pressed keys, so three
corners of a rectangle make a ghost of the fourth. The static variables of
`key_debounce_filter` are `mtrx_pre` and `mtrx_last`. The arguments of a call (`Calls`)
include the ones that leave the ring unread and the one that turns the filter off;
the demos only pass `kb_scan_key(0, 1)`. Assumed: keys do not move within one call.
Left out, as compile-time options that no shipped configuration of the scan turns
on: repeat keys and the FN layer; and the bookkeeping of stuck and long keys, which
does not act on the scan. A control key behind the last key code that fits is
dropped by the code (the loop ends at the limit), and so it is here.

### UsbHid

| Action | Code |
|---|---|
| `usbkb_hid_report`, `usbkb_report_consumer_key` | the event comes in: suppressed, or turned into up to three reports |
| `NextReport` | one of `usbkb_report_normal_key`, `_sys_key`, `_media_key`, down to the endpoint or the FIFO |
| `usb_handle_irq` | reset handling and `usb_hid_report_fifo_proc`, from the main loop |
| `HostPoll`, `HostReset` | the host, external |

The reports of one event are separate steps because the host may fetch in between.
A report is its kind and the keys it says are down; the bytes, the CRC work-around
that swaps two key codes, descriptors and the control endpoint are left out. So is
the ring of mouse frames, which nothing in the repository fills. The commented-out
calls of the release checks are not modelled.

### MicPipe

`Record` is the hardware; `TaskAudio`, `EncodeChunk`, `EncodeDone`, `Notify` are
`task_audio` with `proc_mic_encoder` in the mode the remote control is built with
(`TL_AUDIO_RCU_ADPCM_GATT_TELINK`), cut where the hardware may get on. A chunk of
samples is represented by the round of the hardware that recorded it, so a packet
mixed from two rounds is visible. `TaskAudio` may come at any time, however late.
Assumed: encoding a chunk takes less time than recording one (`caughtUp`); at 16 kHz a
half of 248 samples is recorded in 15.5 ms, and the code notes about 3.2 ms at 16 MHz
for a packet (`app_audio.c` 247).

## 4. The runs

Passing runs:

| Run | Checks | Shows |
|---|---|---|
| `h5_data` | `TypeOK NoGap WindowInFifo NoLoss HciRxBounded NeverBackwards LinkStaysUp` | nine packets one way, so the 3-bit numbers wrap, with overruns and one frame of any type lost; or a packet each way, with piggybacked and crossing acknowledgements; or a packet, overruns and a restart; timers at any moment |
| `h5_link` | `SeqAgree NoDuplicate LinkUp EveryPacketAnswered` | link timers that run out at any moment, so SYNC and CONFIG cross and answers are thrown away by a busy transmitter; a loss of a link or data frame and a restart, two packets one way and one the other: the link comes up and stays up, crossing packets are handed over once and are all answered unless an acknowledgement is lost, and both ends agree on the numbers |
| `pair_torn` | `NoHang RamMirrorsFlash NeverComesBack StaysBonded` | power failing at and inside every flash command, any remains |
| `acl_two` | `TypeOK RightHandles PendingIsLink ListMirrorsLinks` | two central connections and a peripheral one on two handles with the same three low bits, events and keys inside a discovery, late answers of timed-out requests |
| `acl_power` | `OneRecordPerPeer LateAnswerDropped` | two power failures, also in the middle of a record; a peer that sends Error Responses to other requests at any moment, on a handle whose three low bits are 0 |
| `timer_late` | `Sorted NeverLost WakeupNotStale` | three timers, late loops, the clock wrapping |
| `queue` | `ListIntact ServedInOrder IsQueue` | every sequence of calls on three items of two priorities, with and without the callback; the list does to the sequence what `CodeSpec` says |
| `keyboard` | `TypeOK NewestIsCurrent StoppedReleased NoGhostKey RingIsFifo SettledKeysReported` | two by two keys, one of them a modifier, five movements at any moment, ghosts, unread and overrun ring |
| `usb_hid` | `ToggleAgrees HostFollows ReportFifo Drained` | three events of any keys, the host fetching at any moment, one bus reset, the bus suspended for a while |
| `mic` | `WholeHalf InOrder PacketFifo` | five rounds of the hardware, the main loop at any moment, packets refused, the microphone switched |

`TypeOK` is a conjunct of `RamMirrorsFlash`, `Sorted`, `ListIntact`, `ToggleAgrees` and
`WholeHalf`, and checked with them.

A run that ends in a violation states what a comment of the code promises and shows
the code doing something else:

| Run | Property | What the counterexample shows |
|---|---|---|
| `h5_ack_lost` | `EveryPacketAnswered` | one lost pure ACK: the repeated packet has the wrong number, `HCI_H5_DecodeDataPdu` does not arm the ack timer for it, and the sender resends for ever |
| `acl_refused` | `CopyOnlyWhileWaiting` | `app.c:456` "ATT service discovery is ongoing on this conn_handle": a discovery times out on a lost connection, the next connection (handle 8, three low bits 0) is marked, and an Error Response that comes before its discovery begins is copied through `p_att_response` to the frame of the old one |

Limits of the passing properties, met with the same models:

- `NoDuplicate` is checked under `LinkSpec` and proved under `PromptSpec`, whose resend and
  pure-ack timers are prompt. Under `Spec` it fails (two packets one
  way, no losses): a resend meets a busy UART, `HCI_H5_SendData` empties the window,
  the late acknowledgement moves `rxAck` without releasing the packet, and
  `HCI_H5_ResendStart` sends it again under the new number.
- `NoLoss` speaks of behaviours without a restart. With one (two packets one way), a
  SYNC_RSP meant for the former life lets the restarted node become active although
  its peer has not reset, and the peer's acknowledgement of an old packet releases
  a new one.
- `SeqAgree` is checked with reliable packets, the only ones the BLE stack makes. With
  `PktType = {"EVT", "SCO"}` it fails: `HCI_H5_SendData` takes back a number that a SCO
  packet has not used when the UART is busy (line 352), and
  `HCI_H5_DecodeDataPdu` advances `txAck` for a packet without one (line 709). No
  property covers SCO packets.
- `LinkUp` assumes that the link timers do not cross for ever. If a CONFIG and the
  resend of an active peer met on the wire every time (250 ms is five times 50 ms), the
  peer's CONFIG_RSP would be thrown away every time: nothing repeats an answer that
  `HCI_Slip_Send` refused.
- `CopyOnlyWhileWaiting` holds without `Refusers` only for responses to discoveries
  (`LateAnswerDropped`). `acl_refused` needs an Error Response between the connection and
  its discovery. Whether a request of the stack,
  such as the MTU exchange, is out before the discovery is decided in the library.
- A service discovery that ends after un-pairing, but before the link is down,
  stores the handles that un-pairing was to delete (`app_ui.c` 244-245).
- `custom_pair.c:41` says "method 1: overwrite the oldest one(telink demo use this
  method)". When the sector is used up, `user_tbl_slave_mac_add` has struck out the
  oldest device (line 114) before it returns "add Fail" (125-127): the old bond is
  lost and the new one is not stored. `StaysBonded` counts the struck-out device as
  overwritten.
- `simple_sdp.c:97` says "add the peer device att_handle value to conn_dev_list after
  service discovery is correctly finished". `dev_char_info_add_peer_att_handle` only
  looks at slots below `acl_conn_central_num` (line 393), so with a free slot below
  the connection the handles reach the flash and not the list. `RightHandles` says
  that what is in the list is right, not that it is there.
- `app.c:388` says of a connection whose SDP is pending "start SDP now", and line 190
  "mark this connection need SDP". `host_att_service_wait_event` goes on waiting for a
  connection that is gone; when it times out, `app_service_discovery` clears
  `central_sdp_pending` and `simple_sdp_loop` clears `main_service`, although both belong
  to a connection made meanwhile, which is then never discovered. `PendingIsLink` says
  that no flag outlives its connection, not that none is cleared too early.
- `IsQueue` holds with the exception of `InsertByPriority`. `tl_queue.h:98` says that pPrev is
  "The element in the queue before the new element to be inserted.", but in a queue
  with priorities an urgent item inserted behind the tail comes first
  (`tl_queue.c` 189-190): `IsHeaderQueue`, the refinement of what the header says, fails on
  the model of run `queue`.
- `HostFollows` speaks of histories without a queued report, a reset or a consumer
  key. `default_config.h:182` says "to ensure PC no missing key", but a consumer key
  that is held makes the repeated press of another key look like a repetition, which
  is suppressed; a press that is queued does not set its bit in
  `usbkb_not_released`, so its release is never sent; a release that is queued leaves
  the bit set, so the same key pressed again is suppressed. A report that finds its
  endpoint free goes out at once, ahead of reports in the FIFO; `ReportFifo` is about
  the FIFO alone.
- `WholeHalf` excepts the first packet of a session: `buffer_mic_rptr` is not reset
  when the microphone is enabled, and a second half left from the session before is
  encoded at once.
- `NoGhostKey` speaks of newly pressed keys: `kb_rmv_ghost_key` also takes away keys
  that are down (three corners of a rectangle), which `SettledKeysReported` follows by
  comparing with what the matrix shows after removal.

### Bounds, and why they are enough

- H5: two receive buffers and two FIFO places (one in `h5_link`) are fewer than the
  shipped four and more, so overruns and full FIFOs happen early; one loss or restart
  is enough for each kind of recovery; nine packets wrap the eight numbers; the
  window is the shipped 1. `Traffic` keeps the nine packets one way, the packet each
  way and the restart apart in `h5_data`: together they are too many states. Overruns
  and restarts with traffic both ways are in `h5_link`. `h5_link` loses no
  acknowledgement, neither a pure one nor one carried by a data frame that is the
  first to tell it: `h5_ack_lost` shows what happens then.
- Pairing: three addresses for two entries force overwriting; six records force
  used-up sectors and cleanings (the assumption `SlotNum > 2 * MaxNum` is what keeps
  the rewrite inside the sector and below its half).
- Central: two peers and two handles let a handle and a slot pass from one peer to
  another and between roles; one or two records fill the storage. Handles 8 and 16 have the low
  bits of no request at all (0). `MaxOwed = 2` lets a stray Error Response come with up to one
  request unanswered on each connection. `acl_two` has no `Refusers`, so its peers are
  interchangeable, hence its symmetry; all properties checked under it are
  invariants. Error Responses to other requests are in `acl_power`,
  with one connection: a stray response changes only the connection it comes on and
  the shared `p_att_response`, and `NoLateCopy` is proved for any number of both.
- Timers: 44 ticks with a quarter of 11, margins 1 and 9; three timers make the sort
  do several passes. `MaxGap` and `MaxRun` of 1 keep lateness below the margin
  (`Roomy`, which `MCSoftTimer` asserts), as the four seconds of the code do for a main
  loop that runs every few milliseconds.
- Queue: three items are enough for a first, a middle and a last one, two of them
  share a priority value; the state space is complete for them.
- Keyboard: two by two keys are the smallest rectangle that makes a ghost, one of
  them a modifier; one key code per event reaches the limit; five movements
  overrun the ring of four. The ring has its shipped size.
- USB: one key of each kind, since keys of one kind are treated alike; three events
  of up to three reports overrun the FIFO of four, which has its shipped size; one
  reset at any moment.
- Microphone: two chunks a half let the hardware overtake inside a half; the ring has
  its shipped size; five rounds are ten halves, twice what the ring holds.

### Fairness

`Keyboard` assumes that the main loop goes on calling `kb_scan_key(0, 1)`, as every demo
does, and `MaxMove` that the keys come to rest. `UsbHid` assumes that the main loop goes
on, that the bus is not suspended for ever and that the host goes on fetching, as USB
hosts do at the interval of the endpoint; events end with `MaxEvent`, resets with
`MaxReset`.

In `HciH5`, `PromptSpec` restricts time-outs to moments when nothing is under way
(`Quiet`), since at the shipped 1 Mbit/s a frame of 250 bytes takes less than 3 ms and
the timers are 10 (pure ACK), 50 (resend) and 250 ms (link) long; safety is checked
without this restriction, except `SeqAgree` and `NoDuplicate`. Weak fairness
holds for the transmitter, the receive loop and the main loop: the code never leaves
its loop and the UART always finishes. Time-outs have strong fairness, because
`Quiet` comes and goes: an armed timer runs out whenever the line is quiet again and
again. Losing, restarting and queueing have none.

`LinkSpec` of `HciH5Link` takes the restriction from the link timers: no frame of the
peer holds a node's 250 ms timer back. It keeps two facts about time. One timer does
not run out twice before the wire has been quiet (`expired`), since an exchange takes a
few milliseconds. And the timers do not cross for ever: again and again a timer runs
out alone (`AloneExpiry`, strong fairness), since each node measures 250 ms, from the
turn of its main loop that sent the last frame, with its own oscillator. The resend
and pure-ack timers are as in `PromptSpec`.

## 5. The proofs

TLAPS proves, for every value of the constants that meets the named assumptions:

| Theorem | Statement |
|---|---|
| `HciH5Proofs!TypeCorrect` | `Spec => []TypeOK` |
| `HciH5Proofs!WindowSafe` | `Spec => []WindowInFifo` |
| `HciH5Proofs!ActiveLinkStaysUp` | `Spec => LinkStaysUp` |
| `HciH5Proofs!ReliableNoLoss` | window 1, no SCO: `Spec => [](Calm => NoLoss)` |
| `HciH5Proofs!ReliableNoGap` | window 1, no SCO: `Spec => [](Calm => NoGap)` |
| `HciH5Proofs!ReliableRxBounded` | window 1, no SCO: `Spec => [](Calm => HciRxBounded)` |
| `HciH5Proofs!ReliableOrder` | window 1, no SCO: while `Calm`, no step takes `last` of a node back |
| `HciH5Proofs!ReliableNeverBackwards` | window 1, no SCO: `Spec /\ []Calm => NeverBackwards` |
| `HciH5Proofs!PromptSeqAgree` | window 1, no SCO: `PromptSpec => [](Calm => SeqAgree)` |
| `HciH5Proofs!PromptNoDuplicate` | window 1, no SCO: `PromptSpec => [](Calm => NoDuplicate)` |
| `CustomPairProofs!NeverHangs` | `Spec => []NoHang` |
| `CustomPairProofs!TableIsTheSector` | `Spec => []RamMirrorsFlash` |
| `CustomPairProofs!DeletedStaysDeleted` | `Spec => []NeverComesBack` |
| `CustomPairProofs!BondsSurvive` | `Spec => []StaysBonded` |
| `AclCentralProofs!TypeCorrect` | `Spec => []TypeOK` |
| `AclCentralProofs!PendingNamesLink` | `Spec => []PendingIsLink` |
| `AclCentralProofs!NoLateCopy` | `Spec => LateAnswerDropped` |
| `AclCentralProofs!ListInStep` | `Spec => []ListMirrorsLinks` |
| `AclCentralProofs!HandlesOfThePeer` | `Spec => []RightHandles` |
| `AclCentralProofs!OneRecord` | `Spec => []OneRecordPerPeer` |
| `QueueTimerProofs!ListStaysIntact` | `Spec => []ListIntact` |
| `QueueTimerProofs!ServedByPriority` | `Spec => []ServedInOrder` |
| `QueueTimerProofs!ListImplementsQueue` | `Spec => IsQueue`, the refinement of `AbsQueue` with the exception of `InsertByPriority` |
| `QueueTimerProofs!PlainQueueIsHeaders` | `Spec /\ []~usePri => IsHeaderQueue`, the refinement of what the header says |
| `QueueTimerProofs!TimersSorted` | `Roomy`: `TimerSpec => []Sorted` of `SoftTimer` |
| `QueueTimerProofs!TimersNeverLost` | `Roomy`: `TimerSpec => []NeverLost` of `SoftTimer` |
| `QueueTimerProofs!TimersWakeup` | `Roomy`: `TimerSpec => []WakeupNotStale` of `SoftTimer` |
| `KeyboardProofs!TypeCorrect` | `Spec => []TypeOK` |
| `KeyboardProofs!CallerCatchesUp` | `Spec => []NewestIsCurrent` |
| `KeyboardProofs!NoKeyLeftPressed` | `Spec => []StoppedReleased` |
| `KeyboardProofs!RingImplementsFifo` | `Spec => RingIsFifo`, the refinement of `LossyFifo` |
| `KeyboardProofs!GhostsNeverReported` | `Spec => NoGhostKey` |
| `UsbHidProofs!TogglesAgree` | `Spec => []ToggleAgrees` |
| `UsbHidProofs!HostHasLastEvent` | `Spec => []HostFollows` |
| `UsbHidProofs!ReportsImplementFifo` | `Spec => ReportFifo`, the refinement of `LossyFifo` |
| `MicPipeProofs!PacketsWhole` | `Spec => []WholeHalf` |
| `MicPipeProofs!PacketsInOrder` | `Spec => []InOrder` |
| `MicPipeProofs!PacketsImplementFifo` | `Spec => PacketFifo`, the refinement of `LossyFifo` |

Every safety property that a passing run checks of `CustomPair`, `AclCentral`, `TlQueue`, `SoftTimer`,
`Keyboard`, `UsbHid` and `MicPipe` is among them, and those of `HciH5` for behaviours
without restarts and overruns ("Only model-checked" has the rest). Every inductive invariant was an
invariant of TLC on small instances before it was proved.

**`HciH5Proofs`.** `TypeOK` and `WindowInFifo` are inductive only together: sending reads
the FIFO at the window, releasing moves over it. There is one lemma per function of
`hci_h5.c` (it maps a good control block to a good one), and the step theorem has
one case per action. `ActiveLinkStaysUp` needs a second invariant, `LinkInv`: without
restarts and overruns, an active node has no SYNC coming to it, because a peer
sends SYNC only while idle, CONFIG_RSP only after it has left that state, and the
buffers keep the order.

The `Reliable...` theorems are about the data protocol with the window of one
that `hciH5Config` ships with, packets with a sequence number (a SCO packet has none
and advances `txAck` all the same), and behaviours without a restart or a receive
overrun so far (`Calm`; an overrun changes the order of frames). Nothing is assumed of
losses, of when timers run out or of how the nodes interleave. Their invariant `Flow`
describes one direction (`Dir`) by five relations between the sender, the receiver and
the frames on their way in both directions:

- `Acks`: the receiver's `txAck` is the sender's `rxAck` or one more; acknowledgements on
  their way are one of the two, the newer ones last.
- `Data`: packets on their way carry `rxAck`, and then are the oldest of the FIFO, or the
  number before, and then come first; a receiver that is ahead has the oldest packet.
- `Win`: `txSeq` follows from `rxAck` and the window, with one odd case: `HCI_H5_ResendStart`
  on a busy transmitter empties the window, and an acknowledgement that comes in then
  does not match `txSeq` any more. The packet is kept and sent again under the next
  number. It is then handed over twice, which is why `NoDuplicate` is not a theorem of
  `Spec` (`HCI_H5_ReSendCheck` is where it happens).
- `Unread`: what the HCI has not read yet was not acknowledged. This bounds the HCI rx
  FIFO, and it holds because `HCI_Handler` runs in the same turn as an acknowledgement
  with data, and after the receive loop has drained the buffers.
- `Ids`: the FIFO holds the last packets made in their order, those before are at the
  receiver or were dropped, and `last` is before the FIFO or its oldest packet.

`Down` says that a node that is not active has numbered nothing and its peer has seen
no number of it, so that the reset at the end of link establishment meets a peer at
zero. The proof has three layers: lemmas on `Dir` with opaque values (`DirRelease`,
`DirAccept`, `DirLate`, ...), lemmas that reduce each C function to the fields `Dir` looks
at (`SendDataFx`, `DataFx`, ...), and one lemma per handler on both directions at once
(`PairRx`, `PairPoll`, ...), which the step lemmas lift to the actions.

The two `Prompt...` theorems are about the same protocol when timers run out only on a
quiet line, which rules the odd case of `Win` out. `Tight` adds to `Flow`, for each
direction: an empty window means that the two ends agree on the next number and no
packet with it is under way; what the receiver has is older than the sender's FIFO
or, while the receiver is ahead, its oldest packet; and nothing came twice. The
premise of the first part is what promptness is for: with a free transmitter
`HCI_H5_ResendStart` fills the window in the same step (`PromptPollFx`), so that only a
matching acknowledgement empties it (`TightRelease`). A packet is accepted only when
`txAck` equals `rxAck`, and then the second part says that it is a new one
(`TightAccept`). Both parts need each other and all of `Flow`.

**`CustomPairProofs`.** `Inv` says by `pc` what table and sector have to do with each other.
While the device runs (`RunOK`) the entries are the bonded records in their order
and with their addresses (but for the garbage of a record written over a torn one),
and all records up to `cfgIdx` are used, none behind it. During a rewrite
(`RewriteOK`) the first `cfgIdx + 1` entries have their records again and the rest of
the sector is blank. Without power (`OffOK`) the used records come first and at most
`MaxNum` of them are bonded: that is what keeps `flash_init` out of its `while(1)`. The
number of bonded records is counted with the cardinality theorems; `MaxNum` of them
survive a torn record because the oldest one is struck out before the new one is
written, which is the order the mutant of `Add` takes away.

**`AclCentralProofs`.** The first half carries `TypeOK /\ Peers /\ PendingIsLink /\
NoLateRsp`. `Peers` says that what stands for a peer is one whenever it is used
(`cur_sdp_device` while a discovery is pending, the response when it is there).
`NoLateRsp` is the reason late responses are harmless: a connection whose discovery
is pending but not running has no request out on it, and `app_gatt_data_handler`
passes responses on only for the connection named by `central_sdp_pending`. It is not
a reason for other packets, and `NoLateCopy` makes no claim about them. The
second half adds `MInv`, `FInv` and `DInv`. `MInv` relates the list to the controller as a
relation on values, `Mirrors`, with one lemma for each list operation; that a free
slot is found for a connection is counted by an injection of the slots into the
connections. `DInv` is the heart of `HandlesOfThePeer`: at every moment what a discovery
has gathered is of the peer it will be filed under (`Good`), or it waits for an answer
that no handler will pass on any more (`Stale`) and it can only time out, in which case
nothing is stored. An Error Response to another request can also end it; the peers
that send one are excepted.

**`QueueTimerProofs`, the queue.** `Inv` says that some sequence of distinct items is the list (`IsList`:
head, tail, count and next pointers follow from it) and that the history `arrived` has
the same items. All actions are reduced to two, putting an item behind the k-th and
taking the k-th out (`PutStep`, `DropStep`), and each of these is proved once. Since a
list determines its sequence, `Contents` is that sequence, and the refinement follows
action by action. Insertion by priority keeps `Served` because the search passes over
all items of a smaller or the same value and over nothing else.

**`QueueTimerProofs`, the timers.** The module extends `SoftTimer` beside `TlQueue`, which is
why its initial states, steps and behaviours are called `TimerInit`, `TimerNext` and
`TimerSpec`. The theorems have `Roomy` as their hypothesis. `Ahead(t, c)` turns a tick into
the signed distance from another tick, and four lemmas say what adding, comparing
and `blt_is_timer_expired` are on distances; after them no proof speaks of remainders.
`Iterate` shows that the recursive functions of the sort exist (a set of numbers that
has 0 and with each number the next one is all of them, `UpTo`), and `SwapKeeps`,
`PassKeeps` and `SortKeeps` are the loop invariants of the bubble sort: after `k` passes
the last `k` timers are in order and behind all others (`Dom`), after `j` swaps the timer
in place `j + 1` is the latest so far (`Top`). The order needs a bound on how late and
how far ahead timers are, since `TIME_COMPARE_BIG` is an order only in a window, and the
bound needs the order, since a head that is not due has to mean that nothing is:
so `TimerInv` has both. Lateness is bounded by place (`Fits`: the j-th timer is late by
`Slow(j)` plus the time since the last process), a bound that swaps keep because they
bring later ticks to later places; in the loop the timers that had their turn are one
cycle better than those that wait (`LoopFits`). A timer behind a deleted one loses its
turn and gains a place, and the two cancel out (`RemoveLoopFits`).

**`RingLemmas`.** Three rings of the repository have pointers modulo twice their size and
move the read pointer on when the distance exceeds the size. The lemmas say, for
every size, which sequence such a ring stands for, what writing a slot and moving
a pointer do to it, and that a write to a full ring drops the oldest entry. The
proof needs a size of at least two (`UsedPastFull`): with one slot the distance
after an overrun is 2 modulo 2, which reads as empty, and the entry just written is
lost. `TL_MIC_PACKET_BUFFER_NUM` is a setting of `tl_audio.h`; `RingAssumption` of
`MicPipe` demands at least two.

**`KeyboardProofs`.** `ReleaseOK` relates `release_cnt` to the stages of the debounce filter:
at 4 the last raw matrix is empty, at 3 the debounced one, and only at 0 does the
scan stop. `GhostsNeverReported` follows the loop of `kb_rmv_ghost_key`: a key that
is not down shares its row with a pressed key of another row, both rows show the
columns of both, so the mix of the rows has it. `TypeCorrect` counts the key codes
written: each has fewer than the limit before it.

**`UsbHidProofs`.** `Agree` says that the host expects the toggle of the report in the
endpoint, or of the next one to be written; a bus reset sets both to 0, and until
`usb_handle_irq` has noticed it only the host's half is known. `HostHasLastEvent` needs
`FollowOK`: the last event either is the one `last_data` keeps or has released every
key, in which case `usbkb_not_released` will be empty once its reports are made. This
is why suppressing a repeated event loses nothing on a clean history.

**`MicPipeProofs`.** `BufOK` says what the sample buffer holds before and behind the
hardware; `OnePass` that what is encoded of a half and what is left of it are of one
round; `Behind` that the hardware is not between the two. `caughtUp`, the assumption
that encoding a chunk is faster than recording one, is used there and nowhere else.

### Assumptions on constants

They are named in the modules that declare the constants and TLC evaluates them in
every run: bounds are naturals; the pins of `Keyboard` are finite sets of numbers,
since a scan that never ends is no scan; the sector of `CustomPair` has more than
twice as many records as the table has places; rings have at least two places; the clock of
`SoftTimer` has four quarters and its intervals are below one;
what stands for no device, no item or garbage is not one. None of them bounds the number of steps,
devices, peers, packets, events or power failures.

### Only model-checked

- Liveness (`LinkUp`, `EveryPacketAnswered`, `SettledKeysReported`, `Drained`): outside the
  prover's reach, as is `ENABLED`.
- `SeqAgree` and `NoDuplicate` of `HciH5` through restarts and overruns (`h5_link`). Without
  the restriction of data time-outs to a quiet line they are false (see
  `Win` above).
- `NeverBackwards`, `NoGap`, `NoLoss` and `HciRxBounded` of `HciH5` once `Calm` is over, where the
  relations of `Flow` between the two ends do not survive: TLC checks them
  through overruns (`h5_data`).
  `NoGap` is not meant for restarts and fails there: with three packets, a restart of the
  sender and an overrun, an acknowledgement from before the restart releases a packet
  the peer never had. For windows above one only the first three theorems say anything.

## 6. Not modelled

The BLE stack is a binary; `stack/` holds its headers, which declare types and
prototypes. Drivers and boot code, most of the source lines, are register access,
register definitions and linker scripts per chip: what they do is decided by
hardware that is not in the repository. LED, battery, firmware check, log and RAM
check are pin access, arithmetic or formatting, and so are the audio codecs and
filters. The USB control endpoint and its descriptors, the other modes of
`tl_audio.c` (each repeats the encoder and ring of the modelled one around another
codec) and the dongle side are not modelled. The other demos reuse the modelled
parts. The rest is in the plan above; `components` in `PROJECT.json` has the full
list with reasons.
