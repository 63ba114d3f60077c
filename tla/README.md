# A TLA+ model of the FANET/OGN ground station

The firmware (an ESP32 with an SX1262 radio) receives position packets of
gliders and paragliders, keeps a table of the devices it hears, prints what they
say, and runs an access point with a web page to set the WiFi credentials and to
update the firmware. This directory holds TLA+ modules translated from its
source, configurations that check them with TLC, and theorems about them that
TLAPS checks. Paths below are relative to `src/`; `http_server.c` and `wifi_app.c`
are in `components/network`, `nvs_utils.c` in `components/flash_storage`, `ra01s.c`
in `components/ra01s`, and `rf.c`, `multi_decoder.c`, `fanet_types.c`, `ogn_types.c`
and `ogn_conv.c` in `components/fanet_ogn_decoder`.

## The system

| Component | State | Operations | Talks to |
|---|---|---|---|
| Start-up (`main.c`, `wifi_app.c`, `http_server_configure`) | which tasks and queues exist, the WiFi task's queue, the station's connection | `app_main`, `wifi_app_task`, `wifi_app_event_handler`, creation of the monitor, its queue, the server, its handlers | everything: it creates them |
| Radio chip and receiving task (`ra01s.c`, `rf.c`) | the chip's flags, buffer and last-packet registers; `buf`, `rssi` | `LoRaReceive`, `GetPacketStatus`, `lora_rx_task` | decoder (call) |
| Packet decoding (`multi_decoder.c`, `fanet_types.c`, `ogn_types.c`) | none of its own | `fanet_decoder_decode`, `ogn_decoder_decode` and the unpack functions | device tables (call) |
| Bits and numbers (`read_bits`, `ogn_conv.c`) | a bit cursor | `read_bits`, sign extension, the variable-rate codecs | decoding (call) |
| Device tables (`weatherStore`, `trackingStore`, `ogn_tracking_store`) | three arrays of records, a record with time 0 being free | the three `store...Data` functions, which are the same code | |
| Firmware update (`http_server.c`, `app.js`) | the flash partitions, `g_fw_update_status`, the monitor's queue, the reset timer, the page | upload handler, status handler, monitor task, timer callback, page | HTTP task -> queue -> monitor task -> timer -> restart |
| Network settings (`http_server.c`, `nvs_utils.c`, `app.js`) | `network_data`, the entry in non-volatile storage | POST and GET handlers, save, load | start-up (through the storage) |
| Radio transmission and configuration (`ra01s.c`) | `txActive`, `txLost`, `PacketParams`; the chip's mode, settings, flags and buffer | `LoRaBegin`, `LoRaConfig`, `GFSKConfig`, `LoRaSend`, `ReceiveMode` (the last two as a program that sends would call them, like the emulator that `main.c` has in a comment) | chip, and through its flags and buffer the receiving task |
| Conversions (`ogn_conv.c`) | none | Gray code, TEA, XXTEA, XorShift, Ascii85, coordinates (no callers) | |

`PROJECT.json` lists each of them with its status, and under `hazards` what is
hard to test, at its line.

What is hard here: the radio receives while the task that polls it is half way
through taking a packet; an upload can follow another that has already started
the timer of the restart, and power can fail between any two flash operations; a
request body comes in pieces and with pauses, and the loops that gather it end in
tests that are easy to get wrong; a transmission waits for a flag that the
receiving task clears, in a chip whose mode the driver only believes to know; tasks
and queues are created in an order that only the priorities make safe; a table that
is full must forget the right device.

## Modules

| Module | Models | Builds on |
|---|---|---|
| `DeviceDirectory` | the promise of a device table, without slots: the most recently heard devices, each with its latest report | |
| `DeviceStore` | a device table: search, first free slot, eviction, clock, restart | refines `DeviceDirectory` |
| `DeviceStoreProofs` | theorems about `DeviceStore` | |
| `MultiDecoder` | acceptance of FANET and OGN packets, the three tables | three instances of `DeviceStore` |
| `MultiDecoderProofs` | theorems about `MultiDecoder` | three instances of `DeviceStoreProofs` |
| `Receiver` | the chip and the task that polls it, one step per transfer | |
| `GroundStation` | chip to table, as the firmware is configured today | `Receiver` and an instance of `DeviceStore` |
| `GroundStationProofs` | theorems about `Receiver` and `GroundStation` | an instance of `DeviceStoreProofs` |
| `Transceiver` | setting up the radio, sending, and the receiving task beside it | |
| `TransceiverProofs` | theorems about `Transceiver` | |
| `OgnPacket` | header, bit reader and sign extension, for a layout that is a parameter | |
| `VarRate` | the five variable-rate codecs, for thresholds that are parameters | |
| `OgnReport` | a packet from its bits to the decoders of its fields | `OgnPacket` and `VarRate` |
| `OgnReportProofs` | theorems about `OgnPacket`, `VarRate` and `OgnReport` | |
| `Ota` | upload handler, monitor, timer, status handler, page, boot loader, power | |
| `OtaProofs` | theorems about `Ota` | |
| `NetConfig` | credentials: POST, GET, storage, power | |
| `NetConfigProofs` | theorems about `NetConfig` | |
| `Startup` | `app_main`, WiFi task, server, monitor, priorities of the shared core | |
| `StartupProofs` | theorems about `Startup` | |

The `MC...` modules give the constants values where a configuration file cannot,
and say which instance is checked.

How state and actions correspond to the code, where it is not evident:

* **DeviceStore.** `store` is the array; a record is the device, its timestamp and
  the data. `Stored(s, r)` is the whole of the store function: the slot of the same
  device among the occupied ones, else the first free one, else the first of the
  oldest. `last` is a history variable: the latest report of every device. The
  clock (`time(NULL)`) starts at 0, which also marks a free slot; a packet stored at
  0 is therefore as good as not stored. `Restart` clears the array and the clock.
* **MultiDecoder.** The three tables are `DeviceStore` instances; measurements are left out,
  since no property tells them apart, but the state of a landed aircraft is kept,
  with the list of its names. Length tests are those of the code, with the sizes
  of its packed structs.
* **Receiver.** Packets are numbers in order of arrival. `latest`, `buffer` and
  `rxDone` are the chip's; `pc` names the call the task is about to make. A transfer
  over SPI is one step, before and after which packets may arrive. `Hang` is
  `LoRaError`, which never returns; `ReadBufferFails` is `malloc` returning NULL.
* **Transceiver.** The k-th call of `LoRaSend` is given packet k, so that `base`, the
  packet at the beginning of the chip's buffer, tells whose bytes are there (0: those
  of a packet received). `tx` names the transfer the call is about to make, `rx` the
  one of `LoRaReceive`. `SetTx` may repeat itself as `WriteCommand` does, the
  chip having begun to send all the same. Of the receiving task only the reading and the
  clearing of the flags is here: the rest is `Receiver`. The history says what was
  on the air for a call (`carried`) and in which calls something out of
  the driver's hands interfered (`spoiled`, `robbed`, `repeated`). `SetRx` first puts the
  chip into standby, then commands and looks at the status, and `SetTx` looks up to eleven
  times: each is one step where only one of its transfers changes something, and the exit
  into `LoRaError` is a step of its own (`Hang`, in the set-up `SetUpHangs`).
* **OgnPacket.** One action per turn of the loop of `read_bits`; the layout says where
  fields lie, which the code does not know: it only knows their widths, and the
  property is that the two agree. A field has at most the 32 bits that `read_bits` returns.
* **VarRate.** A tracker encodes, the station decodes and shows; codes also come from
  nowhere. `Printed` are the codecs whose numbers the station prints (speed, climb, heading, turn
  rate: `UR2V8`, `SR2V6`, `SR2V5`). Or-ing disjoint bits is a sum, shifting a division.
* **OgnReport.** `watched` is one of the four fields that have a codec, or 0 when a codec
  is called by itself; `DecoderOf` is the call that the code makes with a field,
  `Cast` the conversions of its argument on the way, `CodecOf` the codec it must be by sign and
  width.
* **Ota.** `pc` is where the upload handler is. `Test` is the loop condition, to which
  `continue` leads as well, and `recvLen` is what it looks at. `NoBlankLine` is
  `strstr(...) + 4` on a null pointer, which ends in a panic and a restart. `promised`
  and `erased` are history variables: the image that was last reported as installed, and
  whether an update partition has been erased since. `esp_ota_begin` may fail before or
  after it has erased the partition.
* **NetConfig.** `left`, `total` and `ret` are the loop's; `ret` is converted to an
  unsigned number in its condition, as in C, and `Unsigned` does that. A body has a length and
  the place where the object it begins with ends (`object`), which may be earlier: `cJSON_Parse`
  does not look further. The two fields are copied with `strcpy` whatever their length;
  credentials that do not fit (`Overlong`) leave `Mangled` ones in `network_data`, which are saved
  and acknowledged like others.
* **Startup.** One step per call that another task can observe. `CanRun` is the scheduler:
  tasks of lower priority do not run while the WiFi task is ready. The WiFi task
  waits for messages, and for the console, which the receiving task on the other
  core may hold.
  `Request`, the look-up of a handler, is one step: the server may begin it in an empty table
  while the WiFi task waits for the console, but then reads a single entry.

## What is checked

| Run | Checks | Instance |
|---|---|---|
| `device_store` | one live record per device, live records first in the array, each the latest report; a device is forgotten only when all those in a full table were heard no earlier; the array implements the directory | 3 slots, 4 devices, 2 payloads, clock to 4 |
| `decoder` | each of the three tables behaves as a device table, whatever packets come | tables of 1 record, 2 devices of each kind, lengths at and below those asked for |
| `station` | packets reach the decoder in order and at most twice, with a signal strength never stale; records are of one packet and its sender; devices never go backwards, the last position stored | 5 packets (one short, one no position), 2 devices, a chip buffer of 2, a table of 1 record, clock to 1 |
| `transceiver` | the chip's parameters are those asked for whenever it receives or sends; what is told of a packet is true; what is told of a packet is true; it goes out undisturbed and, unless spoiled before, as given; driver and chip agree; calls end; with the exceptions `spoiled`, `robbed` and `repeated` that the code makes | 2 calls, 2 attempts at a command; station, sender, or both |
| `ogn_report` | no byte beyond the packet, every field and flag what the bits say, each coded field, through its casts, at the decoder it was coded for; values fit their bits, come back within half a step, in order, and codes are reversible | the firmware's layout, 1187 packets (each single bit, dense patterns, every code in the four coded fields); all five codecs, every value to 3850 and every code |
| `ota` | the running image intact, success only before a restart, the restart brings what was promised and the page counts down only to such a restart (both unless the partition was erased since the report); uploads end, questions are answered, a reported success restarts | 2 images and a broken one, 2 pieces, 1 leaked handle, queue of 1 (the firmware's 3 only makes waiting rarer) |
| `net_config` | acknowledged credentials that fit stay saved, only right objects that came whole are saved, requests end, the buffer holds | 3 credentials, of which one does not fit, a buffer of 5, bodies to 6 with objects up to their length |
| `startup` | the monitor finds its queue, no request meets a half-filled table, the device comes up | the priorities of `tasks_common.h`, 3 handlers, 1 restart |

Where a type invariant says something about the code (the bit cursor, the lengths
of bodies, the room for an upload) it is an invariant of the run; the others are
proved and not run.

The bounds are enough for what can happen: four devices and three slots give
every order of match, insertion and eviction; with a buffer of two packets, one
that is read can be overwritten by the second next; two pieces of an upload
tell the first (which erases) from the last (which completes), and `left` may stop
short of either; five bytes of buffer allow bodies that fit, fill it exactly and
are too long, in pieces that do and do not satisfy the loop's condition. The bit
reader only moves bits, so packets with one bit set show where each one goes. The
codecs are checked for all their inputs. Two calls of `LoRaSend` are enough for one to
be refused, or to follow one that succeeded, was lost or hung; the flags of a third
are cleared as those of the second. With two attempts, a command is repeated once.

### Where code and documents disagree

Four runs expect a violation of what a comment of the repository says
(`PROJECT.json`, `findings`, quotes the lines):

| Run | Said | What the code does |
|---|---|---|
| `ota_timeout` | an upload is continued after a timeout | `continue` in a do-while goes to the condition, which ends it |
| `net_config_body` | the full body is received | a short first piece ends the loop: of an object of two bytes the first is parsed |
| `decoder_name` | a name for each state | states are numbered with gaps, names are not |
| `var_rate_shown` | speeds in 0.1 m/s | shown as m/s (the run has the codec of the speed only) |

Others came up while modelling and need no run to be seen:

* `app.js:96` shows "OTA Firmware Update Complete" for whatever success the device remembers: when
  a second upload has erased the partition and then ended in a receive error
  (`http_server.c:268`), which reports nothing, the page is still told of the first.
* `nvs_utils.h:20-21` has room for 32 and 64 characters; `http_server.c:558-559` copies
  strings of a body of up to 255 bytes there without a test. The device then saves and
  acknowledges something else, and writes beyond the field, for a long body beyond
  `network_data`.
* `http_server.c:541` takes a whole object for a whole body: what follows it, or is missing of
  the body after it, is not noticed.
* `ogn_types.h:80` says "altitude: meters (0..61432)", which the 14 bits that
  `unpack_ogn_tracking` reads as a plain number of metres cannot say: a tracker that sends such
  altitudes codes them. The model reads the bits as the code does.
* `ogn_types.h:21` puts the address type in "bits 0-1 of header byte 4"; `unpack_ogn_tracking`
  takes the two highest bits of the byte, which agrees only if bits are counted from the
  highest. `HeaderIsMeant` counts them so.
* `wifi_app.h:34` has a "Retry number on disconnect" that nothing uses: after
  WIFI_EVENT_STA_DISCONNECTED (`wifi_app.c:80`) nothing connects again.
* A name of the full 32 characters (`nvs_utils.h:20`) loses its last one at `wifi_app.c:181`.
* `fanet_types.c:175` says that turn rate and QNE may be absent; `multi_decoder.c:54`
  drops the packets in which they are.
* `ogn_conv.h` documents ranges (0..3832, 0..952, 0..472) whose largest value the
  codecs exceed by 4.
* `ogn_types.c:177` mentions four reserved bits at the end; the fields before it take all
  160 bits of the packet.
* `SetTx(500)` (`ra01s.c:397`) asks for half a second. `SetTx` divides the microseconds
  by 0.015625 where a unit of the chip is 15.625 microseconds: 32,000,000, of which
  24 bits are sent, so that the chip gives up after 238 s.
* `WriteCommand2` masks the status with 0xe and has a `case 7` (`ra01s.c:1051`), which
  is odd: a bus that only answers ones counts as success.
* `SetTx` asks for the status again after it was right; a packet that is on the air for
  less than the time between the two ends in `LoRaError`, which does not return.
* `LoRaSend` leaves its length in `PacketParams[3]` (`ra01s.c:389`) and in the chip, which takes it
  for the most it accepts: after a short packet was sent, longer ones are not received.
* `EncodeAscii85` (`ogn_conv.c:424`) weighs the bytes of a word with powers of 85,
  `DecodeAscii85` takes them out of a number to the base 256: they are not inverse.
* `README.md:16` says that OGN trackers are not supported; OGN is the mode that
  `main.c:25` configures, and the FANET decoder of `README.md:10` is commented out (`rf.c:63`).

### Fairness

`Receiver`, `GroundStation`: the task runs (weak fairness of its steps), and that is all;
packets need not come, transfers may hang. `Transceiver`: a call that is under way goes on
(weak fairness of `Sending`), and what the chip sends ends, by the chip's timer if nothing
else (weak fairness of `TxDone \/ TxTimeout`); nobody has to send or to call `ReceiveMode`,
and nothing is assumed of the receiving task. `Ota`: the HTTP task, the monitor and the
timer run; the HTTP server goes round its connections, so that a question is not passed over
for ever by uploads (strong fairness of `Answer`); nobody has to post or ask. `NetConfig`:
the handler's task runs; a browser that has begun to send goes on or hangs up (strong
fairness of `Receive \/ ReceiveError`), for the handler itself waits through any number of
timeouts, and without this assumption `RequestEnds` is false. `Startup`: tasks run when they
have the core; the console is freed again and again, and a task waiting for it gets it
(strong fairness of the WiFi task).

## What is proved

For every value of the constants that satisfies the module's `ASSUME`.

**DeviceStore** (`DeviceStoreProofs`). Inductive invariant `IInv`: `TypeOK`, `OneSlotPerDevice`,
`OccupiedIsPrefix`, `RecordsAreLatest`, `ForgottenIsOldest`, and that no time in the table
or in `last` is later than the clock (`ClockIsPast`). The last is needed because a new
record must not be older than those it is compared with. The lemma `StoreWrites`
says what a call of the store function does, in its three cases; the proof of each
conjunct uses it and not the definitions. From `IInv` follow the five invariants,
`EvictsOnlyOldest` (an action property) and `ArrayImplementsDirectory` (refinement: a step
of the array is a step of the directory or a stutter).

**MultiDecoder** (`MultiDecoderProofs`). `EachTableAlone`: the decoder implements three
`DeviceStore`s, step by step (a packet for one table leaves the other two alone, and
what it stores is a report of a device of that table). By `EachTableSound` every
table then has the invariant of `DeviceStoreProofs`, which is instantiated for each, and
by `EachTableImplementsDirectory` a directory of its own.

**Ota** (`OtaProofs`). `IInv` (in `Ota`, checked by TLC before it was proved) joins `TypeOK`
and `RunningIsIntact` with `StepsTaken` (verified before selected, selected before
reported), `SuccessIsKept` and `SuccessIsTimed`. They depend on one another: the
running image is intact because an upload writes to the other partition and the boot
loader takes a partition with an image; a restart keeps the promise because, from the
report on, the selected partition is not the running one and holds the promised image,
or was erased since. The exception is the code's: a second upload in the eight seconds
before the restart erases the partition that was just selected, and of the image
nothing is claimed then but that the device restarts into an intact one. Theorems:
three invariants (`TypeCorrect`, `RunningStaysIntact`, `SuccessIsAhead`),
`RestartKeepsPromiseUnlessErased` and `CountsDownToRestart`.

**Receiver, GroundStation** (`GroundStationProofs`). A packet may be read twice, and the
invariant says why not three times: between the clearing of the flag and the call
of the decoder a flag that is set is that of a packet nobody has decoded (`Fresh`,
second part); so the reading it leads to is of one decoded at most once (`Fresh`,
first part), and what is being read is no older than all that was decoded
and was decoded at most once (`Reading`). `BufferHolds` says that the place a packet was
written to holds it or a later one, for whatever size of the buffer. From these,
by cases of a call that appends to the history, `InOrder`, `SignalNotStale`, and the
count of calls (`Counted`: the i-th is of packet i/2 or later).

The composition keeps this invariant, restarts included. Its table is a `DeviceStore`
(`StationUsesTable`: what is stored is a report of the sender of the packet that was
read), so that the theorems of `DeviceStoreProofs` hold of it and need no second
proof. `RecordsAlwaysWhole` follows from what is handed over at the call.
For `NeverBack` the two halves meet in `Heard`: no device was heard with a packet later
than the one being read, so a report that is stored never replaces a later one.

**Transceiver** (`TransceiverProofs`). `IInv` has two halves. `Under` is what is going on:
which parameters the set-up has reached (`Configured`), the chip's mode as far as the
driver's place tells it (`Tuned`, with `RadioAgrees`), and whose bytes are in
the buffer (`Written`). `Account` is what is known: flags, from the step that clears them,
are about the current call, and its TX_DONE is there if its packet was on the air,
unless `LoRaReceive` took it (`Flagged`); with this a `true` that is returned is true. What the
statements except is what the code lets happen: a packet that is received over the one to be
sent, or memory for it that is missing (`spoiled`; `base <= current` shows that even
then no later packet goes out), the flag cleared by `LoRaReceive` (`robbed`), a repeated `SetTx`
(`repeated`). One lemma per action. Theorems: the four invariants of the run and its two action
properties, for any number of calls and attempts.

**OgnPacket, VarRate, OgnReport** (`OgnReportProofs`). The cursor is at the field that is read
(`CursorAtField`) and byte and bit are the cursor plus what has been taken (`Progress`),
from which `InBounds` follows for every layout whose fields follow one another and fit.

What the reader reads is proved for every packet, too. The packet's meaning (`Number`) is
a sum over bits by recursion, the reader takes up to eight bits at a time by shift and
mask; the invariant `ReadSoFar` says that in the loop `value` is the number of the bits
taken so far. The lemmas under it are about numbers: a number of bits is that of its
first bits, shifted, plus that of the others (`NumberSplit`); the number of bits of one
byte is what shift and mask give (`NumberInByte`); the sign is the first bit (`FirstBit`).
They are proved by induction in the form of `SetInduction` (a set that has 0 and with each
number the next one has them all, by the least element of the others), and the recursive
functions are unfolded once, in `PowStep` and `NumStep`. From them `ReadsWhatIsMeant`,
`ReadsHeader`, and `NoBitIsLost`: what is read fits the 32 bits of the variable.

For the codecs, first what a code and a value stand for, range by range (`DecodeIs`,
`EncodeIs`, `SeenIs`), then round trips in both directions and monotony for any
threshold (`RoundTrip`, `CodeTrip`, `NextIsNoLess`), then the sign (`ThroughCodec`, `AnyCode`).
The invariant of the specification only says where the code and the decoded value
came from. From it `TypeOK`, `Precise`, `Ordered` and `Reversible` of the codecs by
themselves.

The composition implements the specification of the codecs (`ReportIsCodec`), so that
these hold of what a packet brings, and need no second proof. The step that needs one
is the reading of the watched field: what is passed to the decoder is the code that was
in the packet (`ReadSoFar`), and the decoder is the one of the only codec with that sign
and number of codes (`CodecIs`, from the widths of the four fields, which are an assumption
of `OgnReport` with the values of the code). `EachToItsDecoder` follows from the same invariant.

**NetConfig** (`NetConfigProofs`). `Progress`: what was read and what is left make up the body, and
what is about to be saved comes from a right object that was read whole. With it the
buffer is never written beyond its end (in `TypeOK`), acknowledged credentials stay saved, and
nothing but such objects is saved (an action property), for any size of the buffer and any
body. Of credentials that do not fit their fields neither of the two says more than that they
disturb no others.

**Startup** (`StartupProofs`). `Order` says which steps of the WiFi task have the server, the
monitor and the table of handlers in which state. Where one of them is half
done, the WiFi task is ready and not waiting for the console, so that neither monitor nor
server can run: this is all that keeps the monitor from its missing queue. It holds
for all priorities in the order of `tasks_common.h`, which is the module's assumption, and
any number of handlers.

## What is only model-checked

All liveness: TLAPS does not reason about fairness and `ENABLED` here (`PositionIsStored`,
`CallEnds`, `SuccessRestarts`, `UploadEnds`, `QuestionAnswered`, `RequestEnds`, `ComesUp`).
Every safety property of a passing run is a theorem. That the firmware's own layout and
codecs satisfy the assumptions is what TLC evaluates in `ogn_report`.

## What is not modelled

The conversions without callers (Gray code, TEA, XXTEA, XorShift, Ascii85, coordinates):
nothing calls them, and no property of the station depends on them. Of the radio's
configuration, the values of registers, bandwidths and frequencies, which the chip gives
their meaning; of the bus, the polling of the busy line and the repetition of
commands that have the same effect twice. `http_server_stop` and `rf_rx_stop` have no
callers either. Static files, the address query, debug output and the list of
stations of the page change no state. Coordinates and temperatures are floating
point. The flash, the storage, the WiFi driver, the HTTP server, cJSON and FreeRTOS
are not part of the repository and are modelled from how the code uses them;
definitions for them are marked external in `PROJECT.json`.

## Plan

1. Done: device tables with their abstraction, firmware update, reception, bit reader
   and codecs, all with proofs; decoding, packet path, settings, start-up.
2. Done: `Transceiver`, the transmit side with the receiving task beside it; `OgnReport`, the
   packet and its codecs composed.
3. Done: proofs for `Transceiver`, `MultiDecoder`, `GroundStation`, `NetConfig` and `Startup`; the
   theorems about the device table used through `INSTANCE` wherever there is one; what the
   bit reader reads, by induction over bits, and packets with their codecs as a refinement.
4. Left: Gray code and Ascii85 as functions against a reference definition, should
   something come to call them; the hazards in `PROJECT.json` without a property, once
   the code does something about them: each is something that the code lets happen, and its
   note says where the model has it and which property makes it an exception.
