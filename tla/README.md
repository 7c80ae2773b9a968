# A formal model of the GNSS-R logger firmware

The firmware in `firmware_src/` runs on an Actinius Icarus board (nRF9160,
Zephyr). It logs the NMEA sentences of the built-in GNSS receiver to
LZ4-compressed files on an SD card, starts a new file every day, and uploads
finished files to a WebDAV server over LTE-M. This directory holds TLA+ models
of its control logic and of the LZ4 code its logs go through, the TLC runs that
check them on small instances, and theorems that TLAPS proves for every value of
the constants.

Source references are to `firmware_src/src/` unless a path is given;
`lz4file.c`, `lz4frame.c`, `lz4.c` and their headers are those of
`firmware_src/modules/lz4stream/lib/`.

## 1. Inventory

### Components, their state and operations

| component | state | operations | depends on / used by |
|---|---|---|---|
| **main loop** (`main.c`) | `events[2]`, `rollover_event_sem`, the static `lz4fid` | `main` (start-up, poll loop), `rollover_lz4log`, `sync_files` | calls every other component; the only thread that touches the card after start-up |
| **GNSS handler** (`gnss.c`) | `pvt_data`, `last_day`, `gnss_fixed`, `nmea_queue` | `gnss_event_handler` (PVT, NMEA, A-GPS), `gnss_get_current_datetimestr`, `init_gnss`, `start_gnss`, `stop_gnss` | interrupts the main thread; gives the semaphore, fills the queue, sets the led |
| **buttons and leds** (`led_buttons.c`) | `led_status` | `button_pressed_callback`, `led_button_checker` (own thread), `set_led_status`, `get_battery_voltage` | the callback gives the semaphore; the status is written by main and the GNSS handler |
| **log stream** (`lz4file.c`) | `lz4streamfile`: name, buffer, context, `isOpen` | `lz4open`, `lz4write`, `lz4close` | called by main; drives `lz4frame.c` (vendored) and the FAT layer |
| **LZ4 frames** (`lz4frame.c`) | `LZ4F_cctx`: stage, `tmpBuff`, `tmpIn`, sizes; `LZ4F_dctx`: stage, header, `tmpIn`, `tmpOut`, dictionary | `LZ4F_compressBegin`, `Update`, `flush`, `compressEnd`, `compressFrame`, the bounds; `LZ4F_decompress`, `getFrameInfo`, `resetDecompressionContext` | called by the log stream; compresses blocks with `lz4.c` |
| **LZ4 blocks** (`lz4.c`) | `LZ4_stream_t`: hash table, offset, dictionary; `LZ4_streamDecode_t` | the `LZ4_compress_*` entry points, streams and dictionaries; the `LZ4_decompress_safe*` family | called by `lz4frame.c`; the decoder reads the logs on a PC |
| **upload client** (`uploadclient.c`) | `http_fd`, `last_http_status`, buffers | `webdavUploadFile`, `open_http_socket`, `close_http_socket`, `upload_cb`, `response_cb`, `cert_provision` | called by `sync_files`; uses the modem's sockets and the card |
| **modem** (`modem.c`) | `lte_ready` | `setup_modem`, `lte_connect`, `lte_disconnect`, `enable_gnss_mode`, the LTE event handler | called by main and `init_gnss` |
| **configuration, device status** (`config.c`) | `confdata`, `dev_status`, `jsonbuf` | `read_config`, `get_jsonstatus`, `update_device_status` | read by main, upload client; the status is written from the PVT interrupt |
| **SD card helpers** (`featherw_datalogger.c`) | mount point, a static directory entry | `mount_sdcard`, `initialize_sdcard_files`, `fs_gets`, `lsdir_*`, `file_size` | used by main, configuration, upload client |
| **SUPL client** (`supl_support.c`) | `supl_fd`, `assistance_active` | `assistance_request` | compiled out (`CONFIG_SUPL_CLIENT_LIB=n`) |

Outside the firmware's own logic, and not modelled: the boot loader and board
files, the auxiliary programs under `aux_src/`, the scripts under `debugtools/`,
and the parts of the LZ4 library that section 5 names.

### What is hard here

- *Interrupts against one thread.* The GNSS handler and the button callback run
  between any two steps of the main thread, also while it is minutes away in
  an upload. They share `pvt_data`, `led_status`, `dev_status`, the semaphore
  and the queue with it; only the last two are kernel objects.
- *Sampled events.* `k_poll` marks two events once; the code acts on the marks
  later, when both conditions may have changed.
- *Power.* The board runs on a battery and is reset by hand: every write to the
  card, and every rename, may be the last.
- *Results nobody looks at.* `fs_write`, `fs_sync`, `fs_rename`, `stop_gnss`,
  `start_gnss`, `lte_connect` may fail, and the code goes on.
- *State that outlives a call.* The compression context, the bytes in `srcbuf`,
  `last_http_status`, `http_fd`, `filename` are statics carried from one log or
  upload to the next.
- *What a reset leaves.* The card, its `config.json` and the modem's certificate
  store survive a reset that comes in the middle of changing them.
- *Memory shared with the caller.* Linked LZ4 blocks refer back into buffers the
  caller may reuse; encoder and decoder save, move and join windows of 64 KB, cut
  at any byte, and copy in strides that run past what they are asked for.
- *Small pools.* Ten places in the queue, a 16 kB heap, a few sockets and FAT
  handles.

`PROJECT.json` lists each hazard with its line and the properties that cover it.

### What makes each component correct

- log stream: a file under its final name is a complete frame with exactly what
  was written, in order; a crash costs at most one chunk of the open log.
- main loop and GNSS handler: no sentence of a new day among those of the day
  before, none twice or out of order; every request for a rollover is served; receiver and
  LTE take turns, and the receiver comes back.
- NMEA blocks: one owner each, bounded heap.
- LZ4 blocks: a block decodes to what was compressed, whatever is left in the
  hash table, the ring or the dictionary; nobody leaves a buffer; the bound
  suffices.
- LZ4 frames: blocks are the content in order, the dictionary is what the decoder
  will have; the decoder returns the content and accepts whole frames only.
- upload client and modem: `.lz4_ok` means the server has the file; no socket is
  lost; a rollover always ends; no host is looked up before the modem is
  registered.
- start-up and configuration: a board that logs has its directories, the
  settings of its `config.json` and its certificate; one that does not shows an
  error.
- SD helpers: the pieces `fs_gets` returns are the file, none lost and none read
  twice; the walk of `sync_files` sees each log once while it renames some.

## 2. Modules

| module | models | composition |
|---|---|---|
| `LogFile` | what a log stream promises: the abstract specification | |
| `Lz4Stream` | `lz4open`, `lz4write`, `lz4close`, the context, the FAT card | implements `LogFile` (refinement mapping at its end) |
| `GnssLogger` | interrupt handlers, poll loop, `rollover_lz4log`, `sync_files` | uses `LogFile` for the log stream |
| `NmeaQueue` | who owns the heap block of a sentence | the handler and the loop of `GnssLogger`, with memory |
| `Lz4Format` | the constants of the block format, `LZ4_compressBound` | |
| `Lz4Compress` | the compressor of `lz4.c` byte by byte, its streams and dictionaries | |
| `Lz4Decompress` | the decompressor of `lz4.c` | |
| `Lz4RoundTrip` | a caller that compresses blocks and decodes them | composes `Lz4Compress` and `Lz4Decompress` |
| `Lz4FrameEncoder` | compression in `lz4frame.c`, a block being the range of content it holds | |
| `Lz4FrameDecoder` | decompression in `lz4frame.c`, a frame being its fields | |
| `UploadClient` | `webdavUploadFile`, the loop over files, `lte_connect` and the modem's registration | one `SyncStopGnss` to `SyncDisconnect` of `GnssLogger` in detail |
| `SdHelpers` | `fs_gets`, `lsdir_init`, `lsdir_next`, the renaming of `sync_files` | |
| `Boot` | `main` before its loop, `initialize_sdcard_files`, `read_config`, `cert_provision` | ends where `GnssLogger` starts (`Init`, `PowerLoss` of `GnssLogger` are its last state) |
| `Lz4StreamProofs`, `MainThreadProofs`, `UploadClientProofs`, `GnssLoggerProofs`, `SdHelpersProofs`, `Lz4RoundTripProofs`, `Lz4FrameEncoderProofs`, `Lz4FrameDecoderProofs` | theorems about the module of that name | extend it |
| `MainThread` | `main` from power-up into its loop, with the blocks of sentences it gets there | composes `Boot` and `NmeaQueue` |
| `MC...` | constants for TLC | |

### Lz4Stream

A piece of data given to `lz4write` is a token with a size; a frame is `Header`,
tokens, `EndMark`. Compression keeps tokens and order, so `front` (what went
through `lz4id->fid`) and `srcbuf` are sequences of tokens. `disk[n]` is what
the card keeps of `<n>.tmp` and `<n>` after a loss of power: FAT updates the
length of an open file at `fs_sync`. `lz4open` does not truncate: `tail` is the
rest of an older, longer `.tmp` file beyond what has been overwritten. `cStage`
is `LZ4F_cctx.cStage`, `ctx` the pointer, possibly dangling.

Actions: `OpenSucceeds`, `OpenFindsNoFile` (`fs_open` fails), `OpenFailsOnHeader`
(the handle stays open), `Write`, and `lz4close` in its steps, between which
power can be lost: `CloseFlush`, `CloseEnd`, `RenameUnlink`, `RenameMove`
(the FAT rename removes an existing target first). `PowerLoss` resets RAM.
An assert that fails sets `pc = "aborted"`.

`fs_open` failing makes `lz4open` call `k_free` on the static `lz4streamfile`
(`lz4file.c:80`). What that does depends on the heap's build options; the model
takes the two visible outcomes, nothing and a reset.

### GnssLogger

`pc` is the place of the main thread; one action per stretch between two points
where an interrupt matters. `ready` is the set of `events[]` marked by `k_poll`
and not reset yet. Time is counted in PVT periods; `pvt` is the time in
`pvt_data`, 0 while it is all zeros, and `Calendar` and `TimeOfDay` say what its
fields are at that time. A file name is the record of those fields, read one by
one in any order (`ReadField`: the order in which `sprintf`'s arguments are
evaluated is the compiler's), because the PVT interrupt may write between any two
of them. Between January 31 and February 1 the name may so become one of
January 1; such a log gets the one sentence that `k_poll` has already marked, and
the rollover that the new day has asked for closes it. `DayBoundary` says that this is
all that can happen. A sentence is a record of its
number and the day `pvt_data` said when it was queued. `lastDay` is compared by
whole days; `last_day` is the day of the month, which differs only after a gap
of exactly a month without PVT. `lteOn` is LTE activated, with or without a
network: a `lte_connect` that times out leaves it on. `Asked` is a call to the modem that may fail
without anybody noticing.

### NmeaQueue

The handler is four steps (allocate, read, put or free) that the main thread
never interrupts; the main thread's `k_msgq_get` and `k_free` are two, between
which the handler may run. Pointers are elements of `Frames`; {} is NULL.
`MainThread` runs it where the code does: only after `start_gnss` has succeeded,
and a reset loses heap and queue.

### Lz4Format, Lz4Compress, Lz4Decompress, Lz4RoundTrip

Memory is an array of bytes, addresses are numbers. All constants of the format
are parameters - the lengths of a match, of the last literals, of the strides,
the bits of a token, the window, the limits of the hash tables - so that every
comparison in the code is a comparison here, with a window of 12 bytes in the
place of 64 KB. `MaxByte` is the largest byte: a two-byte offset and the run of
255s in a length are then short. `Hash` is any function on the first bytes of a
position; collisions are part of the instance.

`Lz4Compress` is `LZ4_compress_generic_validated` with its labels as `pc`:
`Search` (`_next_match` and the loop that finds a match), `EncodeLiterals`,
`EncodeMatch`, `TestNext`, `LastLiterals`; `call` holds the template parameters
(`outputDirective`, `tableType`, `dictDirective`, `dictIssue`). The entry points
set them and prepare the table: `LZ4_compress_fast_extState`, its `fastReset`
variant, `destSize`, `LZ4_compress_fast_continue` with `LZ4_renormDictT`, a
dictionary that the source overlaps, one in front of the source, elsewhere or
attached; `LZ4_loadDict`, `LZ4_saveDict`, `LZ4_attach_dictionary`.

`Lz4Decompress` is `LZ4_decompress_generic` without the fast loop
(`LZ4_FAST_DEC_LOOP` is 0 on 32-bit ARM): `Shortcut` (the two-stage shortcut),
`DecodeLiterals`, `CopyMatch` from this block, from the prefix, from an external
dictionary or across both, with the end of every strided copy. `high`, `dhigh`,
`dread` are the furthest cells an operation has touched; what a stride writes
behind its data is `Junk`.

`Lz4RoundTrip` is the caller, within the rules of `lz4.h`: single blocks (`"one"`),
blocks in a ring (`"ring"`) of any fill, which wraps when a largest block might not
fit any more, decoded in the smallest ring `LZ4_decoderRingBufferSize`
allows, and blocks that overwrite each other with `LZ4_saveDict` in between
(`"saved"`). A stream may be begun on one that was dropped at any point.

`lz4.h:332` (note 4) lets a ring have any size. In a small one the block that wraps
may reach the end of all the data the stream refers to: `Covers`.
`LZ4_compress_fast_continue` shortens a dictionary only when the block ends before it
(`sourceEnd < dictEnd`, `lz4.c:1591`); here it keeps all of it and matches the new block
against itself in its place. The model takes that step like any other, and `covered`
remembers it until the stream begins again: `RoundTrip` and `DictionaryIsHistory`
claim nothing of such a stream (both are violated by it), `WithinBuffers` and
`BoundSuffices` hold throughout. `AssertsHold` leaves out only the block that starts
where that dictionary does (`Ambiguous`): `lowLimit == dictionary` is then true of a
match in either, and `assert(dictEnd > match)` behind `lz4.c:1078` fails.

### Lz4FrameEncoder

The content of all frames is numbered; a memory cell holds the number of the
byte in it. A block is therefore the range of cells it was made of, together
with the dictionary at that time, and `BlocksInOrder` and `DictionaryIsContent`
compare numbers. `pc` walks through `LZ4F_compressUpdate` (complete the buffered
block, whole blocks of the source, save the dictionary, keep `tmpIn` within
limits, buffer the rest) and `LZ4F_flush`. Between calls the caller may write
over its sources, unless it set `stableSrc`. `DictionaryFor`, `DictionaryAfter`
are what `LZ4_compress_fast_continue` does to its dictionary; `Lz4RoundTrip`
checks the same code in full.

### Lz4FrameDecoder

One action per `case` of `LZ4F_decompress`; a `switch` stage that falls through is
an action that goes on. The input is a sequence of fields (header, block header,
block, checksum, end mark, skippable frame), each a record of the same shape with
a size, a place, the header over it, and `ok` telling whether it is undamaged;
`Field` is the field that a stretch of bytes is, or `Other` when the bytes are not
one. `StreamsAssumption` says what an input is: whole frames one after another,
each field where the one before it says it should be, damaged or not. TLC checks
that its inputs are such; the theorems hold for all that are. A decoded block is right if the
dictionary holds the content in front of it, which is read from the model's
memory. The caller picks how much input and room each call gets, whether its
output stays (`stableDst`), and continues behind the last output or elsewhere.
Output that stays is always contiguous here, so the lines of `LZ4F_updateDict` for
stable output that goes on elsewhere (`lz4frame.c:1329-1341`, `1354-1361`) are in
the model but are not reached.

Between streams the caller makes the context anew or resets it (`StartOver`).
`LZ4F_resetDecompressionContext` sets three fields and leaves `frameRemainingSize`;
`carried` remembers a reset that left something there. Its only effect on a good
frame is that one without a content size is refused at its end: `GoodFrameAccepted`
says so, and `ResetStartsClean`, what the header promises, is violated by it.

### SdHelpers

A file is a sequence of characters, `line` the buffer with what earlier calls
left in it. A directory is a sequence of entries, some free, and `at` the place
of the open listing; renaming frees the entry and takes the first free one, as
FAT does with a name that needs as many entries. `fs_readdir` may fail at any
entry (`failed`): `lsdir_next` then returns what it returns at the end, and the
listing stops early.

### UploadClient

`lteReady` is the semaphore of `modem.c`. `LteRegisters` is the modem's handler;
`"late"` is a modem that may take longer than the 30 seconds, `"unsteady"` one that
may lose its registration.

The loop over the files is the one of `sync_files`. `faults` is fixed at the
start of a behaviour to one of `FaultSets`; every trouble outside the board that the
code meets is one of them. `upload_cb` sends the whole file (`BodySent`) or not
(`BodyCut`): it cannot open it, for want of a handle or because the card fails, or
it cannot read or send all of it and leaves it open. Its `UPLOADCLNT_ERROR` = 1 is
taken for a number of bytes, so the request goes on. Four things may come of it: the
server stores the file and answers (`RequestStored`), answers something else
(`RequestRefused`), closes the connection without an answer (`RequestUnanswered`:
`http_client_req` returns 0, which is no error, and the code goes on to
`last_http_status`), or the request ends with an error (`RequestLost`, which returns
without closing). The server answers a PUT of something new with 201 and of something
it has with 204, the only thing assumed about it. `close()` may fail wherever
`close_http_socket` is called (`CloseFails`); it then leaves `http_fd` as it was.
`freeaddrinfo` of the unset `info` (`uploadclient.c:373`) may be harmless or reset
the board: `ResolveFails`, `PowerLoss`.

What the properties except is what breaks them in the code. `OkMeansStoredIfServed`
excepts refusals, broken sending, hang-ups and a failing card, all of which meet a
`last_http_status` left at 201; `SocketsReturnedIfAnswered` failing closes and
requests that end with an error; `WaitsForNetwork` a modem that does not obey,
registers late or loses the network. `SyncReturns` excepts nothing.

### Boot

`pc` is the next call of `main`; every step but the parsing may be refused
(`Faults`), and `PowerOff` comes between any two. `configFile` and `modemCert`
survive it. A configuration is a record of the settings that `read_config` and
`set_defaults` treat specially: `agps` (written from `upload`), `usetls` (forced
to 0 without `CONFIG_NET_SOCKETS_SOCKOPT_TLS`), `tlscert` (`$` for line ends in
the file and in the defaults, line ends once read); `pvt_low` and `upload` stand
for those that are copied as they are. `Unreadable` is a file `cJSON_Parse`
refuses: an empty one, one cut short, or one longer than `jsonbuf`. `file_exists`
is also false when `fs_stat` fails for a reason of its own (`SeemsAbsent`): then
`CreateConfig` and `WriteConfig` write the defaults over a `config.json` that is
there. A certificate that cannot be compared is deleted and written like another one
(`CertDelete`). `EditConfig`
is the user with a card reader. A file in which a key is missing, which
`read_config` would dereference as NULL, is left out.

## 3. Runs

| run | shows | bounds |
|---|---|---|
| `lz4` | `TypeOK`, `NothingLost`, `ContextReady`, `BufferFits`, `CrashLosesAtMostOneChunk`, `FinalIsComplete`, `ImplementsLogFile` with power loss anywhere, opens and headers that fail, leaking handles | one name (a second log of the same name is the hard case; files of other names do not interact), sizes 2 and 3 in a chunk of 4: one pair fits exactly, the others overflow; 4 pieces, so several flushes |
| `block` | `RoundTrip`, `WithinBuffers`, `BoundSuffices`, `DictionaryIsHistory`, `AssertsHold` | window 12, strides 3, minimal match 2, bytes 0 to 3 so that lengths and offsets carry; every single block of 8 bytes of two values, those of up to three runs of 11 and 16, an empty one and one whose match is found late; capacities from 0 to the bound; streams of three blocks, enough for an index of the first to be met in the third after the ring wrapped, was saved or was renormalised; a ring of 10 for blocks of up to 9, so that a block that wraps covers part of the dictionary or all of it |
| `frame_enc` | `BlocksInOrder`, `DictionaryIsContent`, `TmpInFits`, `CapacityIsEnough`, `EndedFrameIsWhole` | window 2, blocks of 2 and 4: the buffer is window-aligned, or not; pieces of 1, 2 and 5 (part of a block, one, more than one); 7 bytes of content, enough to fill `tmpBuff` and move the window |
| `frame_dec` | `OutputIsContent`, `BuffersFit`, `CompleteMeansWhole`, `Progress`, `GoodFrameAccepted` | window 2, blocks of 2 and 8, linked and independent, with and without checksums and content size, a damaged block or sum, two frames, skippable ones, a frame given up anywhere and the context reset or made anew; calls with 5 bytes or all of the input and 1 or 8 of room: every field is cut somewhere, and the output is smaller or larger than a block |
| `frame_reset` | violation of `ResetStartsClean` | the frames of `frame_dec` |
| `logger_safe` | `DayBoundary`, `OnceInOrder`, `RadioHandedOver` | the last day of a month and the first of the next, of two periods each; two date fields, as year is to month what month is to day; queue of 2 and 2 sentences: one on each side of midnight, both queued while the name is read; any sentence may be dropped, as a full queue does; a press, a power loss |
| `logger_live` | `RolloverServed`, `DayGetsLog`, `GnssBackOn`, `LedTellsLogging` under fairness | one sentence, names of date fields only; `stop_gnss`, `lte_connect`, `lte_disconnect` may fail |
| `logger_same_name` | violation of `NewLogIsUnused` | nothing uploaded, so nothing else removes the name |
| `upload` | `OkMeansStoredIfServed`, `SocketsReturnedIfAnswered`, `WaitsForNetwork`, `SyncReturns` | three files (one empty), 4 attempts to resolve (as in the code), 2 addresses, 2 sockets, 2 handles: both pools run out; 2 rounds, so that what the first leaves meets the second; each trouble alone, each pair, all, all but each one, and the largest sets that each property allows: a set of troubles has all behaviours of its subsets, so the invariants hold for every set |
| `upload_stale` | violation of `OkMeansStored` | two files |
| `main_thread` | `Prepared`, `CertInModem`, `BootEnds`, `OneOwner`, `HeapDemand` | two certificates of the user's beside the default one, any number of resets and edits (no bound: the state space is finite), every call may fail; a queue of 3, one block more than needed |
| `sd_helpers` | `PiecesMakeTheFile`, `EveryLogOnce` | every text of up to 5 characters with line ends and zeros in a buffer of 3; every directory of up to three entries, free ones and directories among them |

`CHECK_DEADLOCK FALSE` is in `block` and `frame_enc`: a caller that has made its
`MaxCalls` calls, or given its `MaxContent` bytes, is done. Every other run checks
deadlock.

**Fairness.** Weak fairness of the main thread as a whole (`Main`, `Boot`), and in
`UploadClient` of the registration of a modem that is not late; nothing of
interrupts, resets or users: Zephyr runs the thread whenever no interrupt does, its calls return
(`getaddrinfo`, `connect` and `http_client_req` have timeouts, `lte_connect`
waits 30 s at most), and the button or the receiver owe nothing.

### What the code does that its text does not say

1. `upload_stale`: after the first 201, any answer counts as success; a refused
   file is renamed to `.lz4_ok` and its data never leaves the card
   (`uploadclient.c:647`).
2. `logger_same_name`: a second rollover before the next PVT update (two quick
   presses) or before the time is known (a press right after power-up)
   reuses the name, and `lz4close` removes the finished log.
3. `frame_reset`: `LZ4F_resetDecompressionContext` (`lz4frame.c:1097-1102`) leaves
   `frameRemainingSize`, although `lz4frame.h:471-475` says that it can be used to stop a
   frame and start a new one. After a frame with a content size `LZ4F_decodeHeader`
   sets the field only for a frame that has one, and the end of one that has none is
   refused (`lz4frame.c:1747`). The firmware never decodes.

Seen while modelling and not given a run:

- a full or failing card gives a torn file its final name: `lz4write` ignores
  what `fs_write` and `fs_sync` return (`lz4file.c:136-137`, `161-162`), and
  `lz4close` renames whatever came of it. With `"write"` in `Faults` of `Lz4Stream`
  TLC finds `FinalIsComplete` violated;
- a `start_gnss` that fails once after an upload leaves the receiver off, without
  a red led, until someone presses the button (`main.c:96`): `"start"` in `Faults` of
  `GnssLogger` violates `GnssBackOn`;
- a request that times out returns without `close_http_socket`, and the next
  `open_http_socket` overwrites `http_fd` (`uploadclient.c:635`, `340`):
  `SocketsReturned` without its condition is violated;
- power lost while the defaults are written (between `fs_open` and `fs_close`,
  `config.c:215-224`) leaves an empty `config.json`; the board stops with a red led
  at every boot until the file is removed;
- `lte_ready` keeps the token of a registration that comes after the 30 s, or a
  second time, and the next `lte_connect` returns at once, perhaps before the modem
  is registered (`modem.c:54`); `WaitsForNetwork` excepts such modems;
- `fs_gets` looks for a line end only when the buffer is full: a file shorter than
  the buffer comes back as one piece of many lines, and a line that fills the
  buffer has no terminator. `read_config` depends on the first: its buffer holds
  the whole of a normal `config.json`, and one of `JSONBUFLEN` (`config.h:13`) bytes
  or more would be cut at its first line end;
- `get_jsonstatus` reads `dev_status` in the main thread while the PVT interrupt
  writes it: a header may mix two positions (`config.c:237`);
- `lsdir_next` compares a name shorter than the suffix from before its start
  (`featherw_datalogger.c:238`); that is the type of the entry, whose zero bytes
  never match;
- the name of a log may mix two dates (`gnss.c:208-210`): between January 31 and
  February 1 it may be one of January 1, and the sentence of January 31 that was
  already marked goes into that log. Without its exception `DayBoundary` is violated;
- a `fs_stat` that fails makes `read_config` write the defaults over the user's
  `config.json` (`config.c:79`, `featherw_datalogger.c:155`); if opening succeeds and
  writing fails, the board runs with defaults that no file has;
- a ring whose next block covers all the stream refers to, legal by `lz4.h:332`, keeps
  the overwritten dictionary (`lz4.c:1591`): the block does not decode to what it was
  made of. The firmware's frames never do this: `lz4frame.c` keeps its window apart;
- `stop_gnss` or `lte_disconnect` failing leaves receiver and LTE on together
  (`main.c:70`, `94`): `"stop"` in `Faults` of `GnssLogger` violates `RadioHandedOver`;
- `http_client_req` returning 0 (the server closed the connection), and an `upload_cb`
  that could not open its file, go on to `last_http_status` as if they had been
  answered (`uploadclient.c:508-516`, `635-647`): with a 201 left there the file is
  renamed. `OkMeansStored` with `"hangup"` or `"card"` alone is violated as well;
- a `close()` that fails leaves the socket in `http_fd`, which the next
  `open_http_socket` forgets (`uploadclient.c:323-326`, `340`);
- `LZ4F_compressEnd` on a buffer below the bound may flush the last block, empty
  `tmpIn` and then fail: the block is in no buffer and in no count;
- the led of a logging device flashes every 15 seconds (`led_buttons.c:146-149`), where
  `README.md:64` and the comment of the code say 10;
- one PVT event between `set_led_status(LED_UPLOADING)` (`main.c:56`) and
  `stop_gnss` (`main.c:70`) leaves the led green or yellow for a whole upload,
  where `README.md:65` says blue: TLC finds `pc = "upload" => led = "uploading"`
  violated in `GnssLogger`;
- a file the server stored but the board did not rename (a reset in between) is
  sent at every rollover, when the server answers 204 to what it has:
  `response_cb` knows only "Created";
- the first boot and the second differ: the first runs with `agps` 0 and writes
  the value of `upload`, with an `auth` that is not encoded yet, and, without TLS
  in the firmware, with `usetls` 1, which the second forces to 0; it puts a
  certificate with `$` for line ends into the modem, which the second replaces;
- a log that cannot be opened leaves the green led on (`main.c:236`);
- with `reuseContext` false `lz4open` would use a freed context (the firmware
  passes true);
- a `.tmp` file of another name than any later log stays on the card for ever.

## 4. Proofs

| theorem | says | assumes |
|---|---|---|
| `Lz4StreamProofs!TypeCorrect` | `[]TypeOK` | |
| `Lz4StreamProofs!NothingIsLost` | `[]NothingLost` | no write fails |
| `Lz4StreamProofs!FinalNameMeansComplete` | `[]FinalIsComplete` | no write fails |
| `Lz4StreamProofs!ContextAlwaysReady` | `[]ContextReady` | the context is reused, as in `main.c:206` |
| `MainThreadProofs!FramesHaveOneOwner` | `MainSpec => []OneOwner` | |
| `MainThreadProofs!HeapDemandBounded` | `MainSpec => []HeapDemand` | |
| `MainThreadProofs!TypeCorrect` | `MainSpec => []TypeOK` | |
| `MainThreadProofs!LoggingIsPrepared` | `MainSpec => []Prepared`: directories, and the `upload`, `pvt_low`, TLS settings and certificate of `config.json` | (in the property) if both looking at the file and writing it fail, the defaults |
| `MainThreadProofs!CertificateInModem` | `MainSpec => []CertInModem` | |
| `UploadClientProofs!TypeCorrect` | `[]TypeOK` | |
| `UploadClientProofs!RenamedIsStored` | `[]OkMeansStoredIfServed` | (in the property) no refusal, broken sending, hang-up or failing card |
| `UploadClientProofs!NoSocketLost` | `[]SocketsReturnedIfAnswered` | (in the property) no failing close, no request that ends with an error |
| `UploadClientProofs!NetworkFirst` | `[]WaitsForNetwork` | (in the property) the modem obeys, registers in time and stays registered |
| `GnssLoggerProofs!TypeCorrect` | `[]TypeOK` | |
| `GnssLoggerProofs!RadioTakesTurns` | `[]RadioHandedOver` | the modem stops, disconnects and starts when told to |
| `GnssLoggerProofs!DaysStayApart` | `[]DayBoundary` | (in the property) a log whose name was read while the date changed holds one sentence |
| `GnssLoggerProofs!EachOnceInOrder` | `[]OnceInOrder` | |
| `GnssLoggerProofs!GreenMeansLogging` | `[]LedTellsLogging` | logs can be opened (`"log"` is no fault) |
| `Lz4StreamProofs!StreamImplementsLogFile` | `ImplementsLogFile`: the refinement of `LogFile` | no write fails |
| `Lz4StreamProofs!BufferAlwaysFits` | `[]BufferFits` | |
| `Lz4StreamProofs!CrashLossIsBounded` | `[]CrashLosesAtMostOneChunk` | no write fails, the context is reused |
| `SdHelpersProofs!PiecesAreTheFile` | `[]PiecesMakeTheFile` | |
| `SdHelpersProofs!ListsEveryLogOnce` | `[]EveryLogOnce`, also with a `fs_readdir` that fails | `NamesAssumption`: a name is in a directory once, and the suffix of the walk does not end what a log is renamed to (`main.c:80`) |
| `Lz4RoundTripProofs!RoundTripTypes` | `[](CompressorInv /\ DecodeInv)`: types, cursors, sizes, tables | `FormatOfLz4`: the constants of the format have the values `lz4.c` gives them, `LZ4_DISTANCE_MAX` anything from `MFLIMIT` to 65535 |
| `Lz4RoundTripProofs!AssertionsOfLz4` | `[]AssertsHold` | the same; (in the property) but for a block that covers its dictionary from the first byte on |
| `Lz4RoundTripProofs!BoundIsEnough` | `[]BoundSuffices` | the same |
| `Lz4RoundTripProofs!NothingOutside` | `[]WithinBuffers` | the same |
| `Lz4RoundTripProofs!HistoryKept` | `[]HistoryInv` | the same |
| `Lz4RoundTripProofs!DictionaryFollowsHistory` | `[]DictionaryIsHistory` | the same; (in the property) until a ring block covers all the stream refers to |
| `Lz4FrameEncoderProofs!EncoderInvariant` | `[]Inv` | `SizesAssumption`: the optional fields fit into a header, a checksum is no longer than a block's size (`lz4frame.c:212-216`) |
| `Lz4FrameEncoderProofs!BlocksAreTheContent` | `[]BlocksInOrder` | the same |
| `Lz4FrameEncoderProofs!DictionaryIsBefore` | `[]DictionaryIsContent` | the same |
| `Lz4FrameEncoderProofs!TmpBufferHoldsAll` | `[]TmpInFits` | the same |
| `Lz4FrameEncoderProofs!EndedFrameHoldsAll` | `[]EndedFrameIsWhole` | the same |
| `Lz4FrameEncoderProofs!BoundsAreEnough` | `[]CapacityIsEnough` | the same |
| `Lz4FrameDecoderProofs!DecoderInvariant` | `[]Inv` | `DecoderAssumption`: a larger size of block is larger by more than two windows; `StreamsAssumption`: the input is made of frames, damaged or not |
| `Lz4FrameDecoderProofs!DecoderOutputIsContent` | `[]OutputIsContent` | the same |
| `Lz4FrameDecoderProofs!DecoderBuffersFit` | `[]BuffersFit` | the same |
| `Lz4FrameDecoderProofs!DecoderCompleteMeansWhole` | `[]CompleteMeansWhole` | the same |
| `Lz4FrameDecoderProofs!DecoderProgress` | `[]Progress` | the same |
| `Lz4FrameDecoderProofs!DecoderGoodFrameAccepted` | `[]GoodFrameAccepted` | the same; (in the property) but for the end of a frame without a size after a reset that left a size behind |

They hold for all names, pieces, sizes, chunk and queue sizes, and (but for what
is said) all faults; the bounds `MAX...`, `Max...` of TLC are constants like the
others there, any number. Every module also assumes what its constants are (the
`ASSUME` beside them, which TLC evaluates in the module's run). For the block
format that is

- `HashAssumption`: the hash is any function on what four bytes can be;
- `LayoutAssumption`: the caller's buffers do not overlap and lie in its memory;
- `BlocksAssumption`: a block of a stream has 1 to `MaxBlock` bytes, any of them
  (`lz4frame.c` never compresses an empty one);
- `CallerAssumption`: 64 KB and a block stay below the index limit, which
  `LZ4_MAX_INPUT_SIZE` 0x7E000000 (`lz4.h:170`) and 0x80000000 (`lz4.c:1548`) give.

The run `block` and the theorems complete each other: the run has a window, a
least match and strides scaled down, where bytes wrap and windows are left after
a dozen of them; the theorems have the numbers of `lz4.c`, on which the arithmetic of the
bounds depends (`FormatOfLz4`), and blocks of any length. The arguments:

- *types*: an open log holds a handle (`OpenHoldsHandle`), so `handles - 1` at
  the end of `lz4close` stays a number.
- *nothing lost*: every step appends the same token to `given` and to
  `front \o srcbuf`, or moves it from one to the other. It is inductive only
  together with what is known outside a log: between logs the buffer is empty,
  which is why a piece of the log before never shows up in the next, and the
  stage is the one the step of `lz4close` leaves.
- *complete files*: a final name is only given at the end of `lz4close`, when
  what the card keeps under `.tmp` is header, pieces and end mark, followed by
  whatever an older file left; that this is on the card, and not in RAM, is
  the sync of `WriteAndSync`.
- *context*: `cStage = 1` from `compressBegin` to `compressEnd`, and a context
  once allocated stays so.
- *one owner*: inductive as it stands together with the types, a sequence
  without repetition staying one under `Append` of a new element and `Tail`.
- *heap*: from `OneOwner`, `allocated` is the union of the queue's elements and
  at most two singletons.

- *start-up*: each stage remembers what the ones before it established - the
  directories from `read_config` on, the settings from `cert_provision` on (those
  of the file that was read, or the defaults and the file they were written to),
  the certificate at `gnss` - which neither a step nor a reset undoes before the
  next `PowerOn`. The queue's steps leave all of that alone, and start-up leaves the
  queue alone.

- *uploads*: without refusals, broken sending, hang-ups and a failing card an
  answer finds the whole file on the server because `upload_cb` can always open it:
  no handle is ever left open. If closing works and no request ends with an error, a
  socket is held by nobody but a connection being made, used or given up. The token of
  `lte_ready` exists only between the registration and the end of `lte_connect`.
- *radio*: what is on is a function of the stage of `sync_files`.
- *days apart*: `last_day` is the day of `pvt_data`, so a sentence of a new day is
  queued with the semaphore given. While no rollover is asked for, the open log,
  and every field read for the name of the next one, is of the day of `pvt_data`
  (`RequestInv`). A request that comes after `k_poll` has returned does not stop
  the sentence it has marked; but that one stays the head of the queue until it
  is taken, and it is no later than the log it goes to (`MarkedInv`) - unless the
  request came while the fields were read, and then it is the only one that log
  gets (`OpenInv`).
- *order*: a sentence is numbered when it is queued. What is on the card is older
  than the queue, and each number is in one place: `Taken` moves the oldest of
  the queue behind everything in the open log, `lz4close` and the renaming move
  whole logs. That a new log may replace one of the same name only takes away.
- *green led*: green, now or remembered by `sync_files`, means that the receiver has
  told the day; from then on a log is open but for the time a rollover takes,
  because the first day has asked for one (`LedInv`).
- *refinement*: the data between `Header` and `EndMark` of a file with its final name
  is a log of `LogFile`, `given` the current one; each action is the abstract step
  it implements, or changes nothing that the mapping sees. It needs `LostInv`,
  and that `.tmp` holds the frame of `given` from `compressEnd` to the rename (`FrameInv`).
- *sizes and crashes*: the size of a buffer is a recursive function on sequences,
  related to `nsrcdata` append by append. What a power loss leaves is a prefix of
  header and stored pieces, and `given` is the stored pieces followed by `srcbuf`
  (`StoredInv`), so at most the buffer is missing.
- *pieces and walks*: the pieces put together are the file up to the position
  (`ReadInv`), whatever `fs_gets` seeks back over. A walk has returned each log
  once, and those still ahead of it are the others (`ListInv`): renaming puts a
  name into a slot that may be ahead, but not one that `lsdir_next` matches.
- *block, cursors and sizes*: `CursorInv` says where `ip`, `anchor` and the
  search are at each label. `SizeInv` says that what is written for the first n bytes
  of the block is no longer than `Grows(n) == n + n \div 255`, with two bytes more
  from token to offset: literals and match of a sequence pay for their length
  bytes (`SequenceGrows`, `MatchGrows`), and the last run brings it to the bound. A
  budget that ends early was checked before each write; when dest is to be
  filled, the room for five last literals is kept from sequence to sequence (`FillInv`).
- *block, tables*: `Tabled` says that each entry is 0, the index of a position
  already passed, entered under its hash, or one of earlier data that leaves
  room for a match. It is not inductive alone: between calls `Aged` and
  `StreamAged` must say that the indexes of the next call start after all
  entries of the last (`LZ4_prepareTable`, `LZ4_renormDictT` and the gap of 64 KB), and
  where a length was cut, that the positions beyond the cut were taken out.
- *block, matches*: at `found` and `match` the bytes that have been compared agree
  (`MatchInv`), also those between `ip` and `filledIp` by which a match was extended
  back; so the match is at least as long as they are, and the table is never
  filled behind a position it already holds.
- *block, decoder*: `DecodeInv` keeps `dip` inside the block and `dop` inside dest
  at each token; each copy in strides was compared with the end less the stride
  (`MatchCopyEndIs`). It uses nothing of how the block was made.
- *history*: `HistoryInv` says that the bytes of memory before the end of what a
  stream takes for its dictionary are the last ones of its history (`Ends`). While a
  block is laid out over them they may be `Laid` over; `ContinueFrom` gives up
  exactly those (`ContinueHolds`), unless the block reaches the end of them, from
  where on nothing is claimed (`covered`). During a call the stream already counts the block:
  if it follows its dictionary the history grows behind it (`EndsAppend`), otherwise
  the block alone becomes the dictionary (`EndsSuffix`), also when it did not fit.
  An attached dictionary is the whole history of the stream that has it.
- *encoder*: during a frame, `tmpIn` and then the rest of the source hold the content
  from the last finished block on (`ContentInv`), the dictionary holds what is
  right before it and ends where `tmpIn` begins, in buffers that stay, or where the
  source goes on (`DictInv`, `DictPlace`); `tmpIn` is where a dictionary, a
  partial and a whole block fit into the buffer (`FitInv`), and the count and the
  checksum are one call behind (`WholeInv`). Capacity has an invariant of its
  own (`CapInv`): at each place in a call, the room left is enough for the blocks
  that may still come.
- *decoder*: `PlaceInv` names, for each stage, the field of the input that is being
  read, how far, and which of its bytes have been collected; that decides what a
  header says and that a good frame is never misread. `CountInv` ties content
  size and checksum to what was given. `WindowInv` says that the last `KB64` bytes
  of content end where the dictionary ends, but for what `tmpOut` still has to give
  (`OutInv`): each way of `LZ4F_updateDict` to join, move or abandon the
  dictionary, `MakeTmpOut` and the end of a call is a lemma that the window is
  moved whole, without overlap and inside the buffer. `BufferInv` says for which
  size of block the buffers were made; that a smaller one then fits, also with
  its two windows, is the assumption on the sizes.

Only model-checked: liveness (`BootEnds`, `RolloverServed`, `DayGetsLog`, `GnssBackOn`,
`SyncReturns`), which the prover does not reach, and `RoundTrip`. That a block
decodes to what was compressed is an induction over the sequences of the block,
which the prover does not have over data; an invariant in its place would have to
carry the whole parse of the block, and the decoder's window beside the
encoder's. The run `block` checks it on every small block instead. The theorems above say what it rests on: the encoder never takes a stale
or overlapping position for a match, offsets fit, both sides stay in their
buffers, and the dictionary is what the decoder has, but for the covered ring above. The frame theorems take from
`RoundTrip` only that a block decodes to its content when the window before it is
in the dictionary.

## 5. Not modelled

- `lz4hc.c`: `lz4open` compresses at level -1, which never reaches it; `xxhash.c`:
  no checksum is asked for, and a checksum is a field that fits or does not;
- of `lz4.c`: `LZ4_decompress_fast*` and the other deprecated entry points, the fast
  decoding loop (0 on this processor), `LZ4_decompress_safe_forceExtDict`
  called directly;
- of `lz4frame.c`: prepared dictionaries (`LZ4F_CDict`, `LZ4F_decompress_usingDict`),
  levels that select `lz4hc.c`, allocations that fail;
- the text of names, headers and sentences; the device status and its JSON;
  A-GPS and SUPL (compiled out); the led thread and the battery voltage;
- the wear, speed and wiring of the card.

## 6. Plan

Order of work, most important first; done are the modules of section 2.

1. **UploadClient in GnssLogger**: `SyncUpload` as the abstraction of one upload,
   `UploadClient` shown to implement it.
2. **Lz4FrameEncoder under Lz4Stream**: `CompressSrcbuf` and `FrameEnd` as the
   abstraction of the calls the log stream makes.
3. **LedThread**: the periods of the blinks; the hourly device status and its slots.
