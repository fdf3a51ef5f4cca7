# A verification project for SapphireOS and Chromatron

The repository is the firmware of the Chromatron LED controller: SapphireOS, a
small operating system with cooperative threads, its file systems, key-value
store and network services; drivers for the board (an XMEGA128A4U, with an
ESP8266 as its wifi processor, which runs the LED programs); a boot loader; and
the applications, with Python clients. This directory holds TLA+ modules for the
parts whose correctness rests on order, interruption and bookkeeping, the
configurations that model-check them with TLC, and TLAPS proofs.

Run everything here: `tlc -config MCMemory.cfg MCMemory.tla`,
`tlapm MemPoolProofs.tla`. `PROJECT.json` lists components, runs, mutants (a
plausible bug for every property, which TLC must find), the source lines of
every definition, findings, hazards and theorems.

Paths below are relative to `src/src/`, those that begin with `python/` to `src/`.

## 1. The system

### Components

| Component | State | Operations | Module |
|---|---|---|---|
| Memory manager, `sapphireos/memory.c` | heap, handle table, counters, dirty space | alloc, realloc, free, pointer from handle, garbage collection | `MemPool`, `HandleStore` |
| Lists, `list.c` | head, tail and links, in handles | insert, remove, walk | `DList` |
| Scheduler, `threading.c`, `pt.h` | thread list, flags, alarms, signals | create, kill, restart, wait, yield, sleep, alarm, signal; the walks | `Scheduler` |
| Configuration store, `config.c` | EEPROM blocks | set, get, erase, clean up, reset | `ConfigStore`, `ParamStore` |
| Loader, firmware partitions, recovery firmware: `loader_xmega128a4u`, `ffs_fw.c`, `system.c`, `chromatron_recovery` | program memory, two partitions, the boot command | check, copy, repair, store, erase, write | `FirmwareUpdate` |
| Flash file system, `ffs_block.c`, `ffs_page.c`, `ffs_gc.c`, `flash_fs.c`, `fs.c` | blocks with headers, indexes and pages; lists of blocks; the index cache | mount, create, read, write, delete, collect, level | `FlashFS`, `FlashPages`, `FileStore` |
| Sockets and messages, `sockets.c`, `netmsg.c` | one datagram per socket, states, time-outs, ports | bind, send, receive, loop back, close, tick | `Sockets` |
| Catbus, `catbus.c`, `python/catbus` | server, file sessions, links, caches of links | announce, answer, transfer files, publish, follow | `Catbus`, `FileTransfer`, `CatbusLinks` |
| Key-value database, `kvdb.c`, `keyvalue.c` | sorted entries, cached index; file of persistent keys | add, set, get, delete, delete by tag; persist, restore | `KvDatabase`, `KvMap`, `KvPersist`, `PersistStore` |
| Wifi link, `hal/xmega128a4u/esp8266.c`, `chromatron_wifi/src/comm_intf.cpp`, `irq_line.cpp` | ready line, DMA buffer, message in flight, states of both ends | send, respond, time out, flush, reset | `WifiReceive`, `WifiSend` |
| Ports and queues of UDP, `wifi.cpp`, `esp8266.c` | table of ports and its copy, queues | open, close, queue, take | `WifiPorts` |
| Graphics, `lib_chromatron/gfx_lib.c`, `graphics.c` | parameters, pixel arrays, targets and steps of fades | set, fade, index, dim | `Graphics` |
| Pixel driver, `lib_chromatron/pixel.c` | two DMA buffers, frame timer, settings | start a frame, fill, interrupt, reconfigure | `PixelDriver` |
| Program loader, `lib_chromatron/vm.c`, `chromatron_wifi/src/vm_runner.cpp` | loader's state, status, what runs | load in chunks, start, watch, stop, restart | `VmLoader` |
| Script compiler, `python/chromatron/chromatron/code_gen.py` | intermediate code, registers and their addresses | passes 2 to 7: linear code, addresses, instructions, bytes, image | `FxCompiler`, `FxMeaning` |
| Virtual machine, `lib_chromatron/vm_core.c`, `vm_runner.cpp` | data table, program counter, pixels, cycles | every instruction, init and loop, published variables | `FxMachine` |
| Keys shared by the processors, `graphics.c`, `vm_runner.cpp`, `kvdb.c` | one key on both sides, its notifier, messages | set, read, publish, write, load, stop | `KeySync` |
| Commands, TFTP, DNS, SNTP, time synchronisation, automaton, event log, drivers | | | see section 7 |

### How they interact

* Every thread runs from `thread_start` to completion of a step; it calls the
  others directly. Between two passes over the threads the scheduler calls the
  collector, which moves blocks: a pointer obtained from a handle is good until
  the thread waits.
* Threads, their list nodes, sockets' states and messages are blocks of the
  memory manager. A list is walked by handle, so a removed node's handle is dead
  the moment it is freed.
* Interrupts raise signals, advance the clock, log events, and drive the pixels:
  the driver's settings are written by threads between any two of its interrupts.
* The configuration store and the loader share no memory with anybody but the
  boot record (`boot_data`), which survives a reset and not a power loss.
* A script is compiled on a computer, loaded from the file system over the link, and run by the
  ESP8266 once a frame; only its published variables and keys of the database are seen outside.
* The two processors share nothing. All they know of each other comes through a
  serial line with a ready signal: datagrams, tables, programs in chunks, batches
  of keys. Each side has copies of what the other decides, which are late.
* A datagram for the node itself is looped back through the memory it was sent
  from; one for the network goes over the link to the ESP8266's queues.

### What is hard

* The thread list changes under two nested walks of it (threads create, kill
  and end one another, in signal handlers too); destinations of links are removed
  from lists that other threads stand in.
* Clocks wrap: milliseconds, and the 16-bit integers of sizes, pixels and colours.
* The collector's counters are adjusted wholesale, not recounted.
* Power can be lost between any two bytes written to the EEPROM, to the program
  memory and to the serial flash, and recovery code can itself be interrupted.
* Messages are lost, repeated, late; answers are taken for those of the request
  before; batches of keys cross sets of the same keys.
* The compiler gives the addresses of registers away again; one that is given away too early
  changes what is computed much later, and only in scripts that nest calls, loops and expressions.
* One write of several can fail without the code noticing until it checks.

The `hazards` of `PROJECT.json` list these at their lines, with the properties
that catch them, or the reason why none does.

## 2. The modules

`HandleStore` is what callers of the memory manager see: handles with sizes and
contents. **`MemPool`** is `memory.c`: one action per entry point, which are
atomic in the code (`MEM_ATOMIC`), and the collector as its two loops, an
iteration at a time, so that loop invariants can be stated. Addresses, sizes and
all five counters are those of the code; `WordSize` is the range of its 16-bit
integers. A failed assertion stops the system (`asserted`). `held` is a history
variable: pointers a caller may still use according to the comment above
`mem2_vp_get_ptr`.

**`DList`** is `list.c` as operators on head, tail and links. **`Scheduler`** uses
it for the thread list and models `thread_start` and
`process_signalled_threads` as two walks with a control point each thread enters
and leaves. What a thread does between is nondeterministic: create, kill,
restart, raise a signal, set an alarm, and return by each of the macros of
`pt.h`. Interrupts and the clock may act between any two steps.

`ParamStore` is what `config.c` promises: a map in which each key changes at one
instant and a loss of power only cancels. **`ConfigStore`** is the code: seek,
free block, write with the identifier last, erase of the old block, the boot's
clean-up in the code's order, the version check, the wipe and the writing of
defaults. A block whose identifier is partly written or erased is `Torn`: it
belongs to nobody, since no hash of a persisted parameter has the byte of an
erased cell that would make a torn identifier that of another parameter.
A new firmware (`Upgrade`) changes versions and types.

**`FirmwareUpdate`** has the program memory and two partitions as areas of words.
It follows `main.c` of the board's loader label by label (`at`), the loops of
`loader.c` page by page and those of the applications word by word, the first-boot copy of
`ffs_fw_i8_init`, erasing and writing the firmware file, the load commands, and
the recovery firmware's copy of itself. `Reset` may cut any write short;
`CopyFault` is a write that the flash does not take. A CRC is taken to detect
everything that is not a whole image: that is the only assumption about it.
Erasing is complete when its loop is; the button on the board is the choice of
`TryRecovery` at every start.

`FileStore` is what the file system promises: files named and made of pages; a
call that was done has done what it says, one that was not has perhaps done the
first of its pages, and nothing else touches a file. A file whose page was being
written when power was lost is `doubtful`: it may lose pages or vanish when it is next
used or the flash next mounted, and no other may. **`FlashPages`** is `ffs_block.c` and `ffs_page.c` as operators on a
machine `s` (flash, lists, index cache), down to the order of the writes, which
`s.log` keeps. **`FlashFS`** runs a call of `fs.c` or a block of the collector's
work on it as one action, since nothing interrupts one but the end of the
power, which leaves the flash as after some write of the log (`CutShort`) and nothing of the
memory. A failed assertion, or a walk of a list that never ends and wakes the
watchdog, is a restart. A block is its header's state, its file and place, and
the pages in the order of its index; the contents of a block nobody
reads again are forgotten. `shown` and `call` are auxiliary: what reads return
(or would after a mount), and the last call; `FileStore` is mapped to them.

**`Sockets`** has every socket's state word and memory blocks by name, and the
owner of each block: `sock_i16_sendto` with its loop back through
`netmsg_v_receive`, the time-outs, ports that are assigned in order and skip
those in use. **`Catbus`** EXTENDS it with the server thread: announcements, requests by
key, which may be addressed to its own socket, file sessions with their time-out, file checks that a thread
does page by page. **`FileTransfer`** is one file session with the Python client's
loop against it, over a network that loses, repeats and reorders. **`CatbusLinks`** has a
source, destinations that declare a link or are declared by the source, the three
threads of links of the firmware or the Python server in the source's place,
sequence numbers, caches of links that age, restarts.

`KvMap` is a plain map with tags; **`KvDatabase`** is `kvdb.c`: a block of sorted entries
that grows, with the index of the last search cached. `PersistStore` is what the
keys' file promises; **`KvPersist`** is the thread that writes it, the restore at the
start, and the direct writes, with power lost between two writes.

**`WifiReceive`** and **`WifiSend`** are the two directions of the link: datagrams as a
header message and messages of data, each answered or not, the ready line, the
time-outs and flushes of both processors, with bytes lost or damaged at any
moment (`MaxFaults`); `WifiLink` sets them side by side. **`WifiPorts`** is the table of ports, the copy of it on the ESP8266
and on the main processor, and the two queues, with a port that closes while
datagrams for it wait.

**`Graphics`** is the library's pixel arrays in integers of `Modulus` values: setting, fading
with steps rounded away from zero, the way round the circle of hues, coordinates
to indexes. **`PixelDriver`** has the two DMA channels with their interrupts, the
frame timer and the settings that threads write between them. **`VmLoader`** has the
thread of `vm.c` stage by stage, the messages of a program's chunks, what the
ESP8266's runner does with them and the reports that come back. `clean`, `frame`,
`loaded` and `running` are auxiliary: what was sent and what was loaded.

**`FxCompiler`** is the script compiler, pass by pass, from the tree of a script: intermediate code and
folded constants (2), jumps and limits (3), addresses of registers (4, a few instructions at a time), instructions (5), places
in the code (6), the data table and entry points (7). **`FxMachine`** EXTENDS it with the interpreter,
an instruction a step, on an image the compiler has made or on one made by hand
with the instructions that it never makes. Loading puts the keys that the image lists (written,
read, published) into the database with 0, beside those that others have there; a store to any other key is lost.
For `FxMeaning` a store always takes effect and `init` reads 0 from a key it has not set, so a list that lacks a key
shows in `ScriptsMean`. The database is taken to have room (`KVDB_MAX_ENTRIES` is 128). `FxMeaning` reads the same tree without registers, jumps or
addresses: it is what a script means, and the reference both are checked against.

**`KeySync`** is one variable of a program that is also a key of the main processor:
the batch a load sends, the frames that carry published keys, the notifier of the
database that echoes a set, and the queue of `comm_intf.cpp`.

MC modules give the constants values. Several components are checked by one run
when they share no state: the MC module declares the variables of all,
instantiates them, and the initial state chooses a `subject` which runs while
the others rest (`MCMemory`, `MCPower`, `MCKeys`, `MCWifi` with `MCShow`, `MCSharing`). The
`*Proofs` modules hold theorems.

## 3. The runs

| Run | Shows | Bounds |
|---|---|---|
| `memory` | heap, table, counters and held pointers are consistent at every iteration of the collector; callers see `HandleStore`; dirty space is reclaimed; a damaged canary stops the system at the next collection | 3 handles, 26 bytes: four blocks of one byte fill it, fragments of two sizes; beside it 2 handles with shrinking and sizes near the wrap |
| `memory_shrink` | **violation**: a realloc to a smaller size damages its own canary | 2 handles |
| `scheduler` | neither walk follows a freed node; nobody is skipped or stranded; alarms and the causes of waking are right; every thread runs again until it is killed | the main thread and one more, a signal, a clock of 4 ticks that wraps all the time |
| `power` | firmware: never bricked, runs complete images only, changes only when asked, comes back. Store: atomic map, clean after every boot, a valid version means all defaults are there | 2 images (one ends within a page), 3 words in 2 pages, 2 resets, 1 failed write; 4 blocks, parameters of one and two, 3 versions, 2 types, 2 losses of power |
| `fw_recovery` | **violation**: the recovery firmware accepts a partition without its CRC | as above, no failed write |
| `ffs_files` | blocks are in one list each, free ones are blank; files are as in `FileStore` | 4 blocks of 2 pages and a spare, a user's file of up to 2 pages (two blocks with its name) and the collector's, 1 loss of power after any write but one |
| `ffs_mount` | **violation**: power lost at that one write, and the mount loses a block of a file | 5 blocks: one more, so that the copy can come before the last block |
| `keys` | one owner per block and port; the server answers to its own address and holds a file as long as its session; its waits end; the database is a map, the file of keys is what was set; a transfer that is done is whole, and ends | 2 sockets, 2 blocks, ports that wrap over 3; 2 clients, 2 files; 3 keys in a block that grows twice; 2 kept keys and a direct one, 1 loss of power; 3 units in pages of 2, window 2, a fault at any message |
| `kvdb_cache` | **violation**: the cached index names another key after a sort | 3 keys |
| `wifi` | datagrams come out whole and once in both directions; queues are counted; neither side waits for ever; fades end in time, by the shorter way; coordinates name their pixel; frames are whole, one after the other; what runs is a whole program, and one runs in the end; what the machine computes is what the script means | 2 datagrams of a header and 2 messages, 2 faults; 2 ports, queues of 2; 4 pixels, 8 levels, an array of 2 in an array of 4; 5 pixels in buffers of 1 and 2; 2 chunks, 2 faults, 1 request; 16-bit numbers, 60 cycles, 2 frames, the scripts of the compiler's tests and all 762 expressions of three leaves |
| `pixel_gap` | **violation**: the next frame begins in the middle of the last buffer | 5 pixels, 2 buffers |
| `sharing` | with nothing on its way and nothing lost, both processors have one value; keys settle; a destination has the source's value in the end; who walks a list of destinations stands on one | 3 values, one set, one change, one loss, two loads; 1 destination with 2 faults, 2 without |

Why the bounds are enough: two blocks or threads make an order, and the third is
the one between or the one that stays; a second reset interrupts the
repair, and a third would find the state after one reset again. Where that is not
an argument (sizes, clocks, numbers of threads, of resets, of sets of a key) there is a proof:
the invariants of `memory`, `scheduler`, `power` and `keys`, `KeysAgree`, `DatagramsWhole`,
`QueuesAccounted`, `PixelsTrue`, `FramesWhole` and `ProgramWhole` hold for every value of the constants. A faulty link has two faults: one that damages, one that hits the
repair of it. A fade is judged from every reachable pixel, not along one path.

In the `ffs` runs `VIEW` leaves out `call`, which no action reads: transitions,
and so the refinement, are still checked with it. One page of meta data stands
for two (`FFS_FILE_PAGE_DATA_0`): the state between them is a file without
a name, and so is the one before the first. Only the collector writes to its file, nobody deletes it.
`CHECK_DEADLOCK FALSE` is in runs whose clients, faults and requests are bounded
and used up.

## 4. Fairness and assumptions

* `MemPool`: the collector runs again and again (`thread_start` calls it after
  every pass) and its loops go on. Callers owe nothing for that. That they do not use a pointer
  after a yield is their side of the contract and assumed: `EndPass` drops what is held, and
  `HeldPointersValid` says that within a pass nothing else moves or frees a block that is in use.
* `Scheduler`: the walks go on, a thread that was resumed returns, and time passes.
  Protothreads return by construction of `pt.h`; a thread that loops for ever is outside of
  what a cooperative scheduler promises.
* `ConfigStore`, `FirmwareUpdate`: the processor runs. Resets and power losses
  are bounded, so they end.
* `Catbus`, `KvPersist`, `VmLoader`, `PixelDriver`: the thread runs again and
  time passes; an interrupt that is pending is served.
* Links and transfers: a thread's round is strongly fair, since in a round in which
  nothing is lost it is heard: a message that is sent again and again arrives, which is all that a network
  with losses can owe. Faults are bounded where a count is given, else a loss is a
  choice each time and `SF` says that it is not made every time.
* `WifiReceive`, `WifiSend`: both processors' loops, and the bytes on the line.
* `KeySync`: `KeysSettle` assumes frames `paced`, that is, that there is time for messages
  between them. `sharing` gives weak fairness to the two processors as one system,
  which is weaker than `KeySync`'s own specification.

Assumptions: callers of realloc do not shrink a block (`Shrinking`; the finding is
what happens if one does) and sizes do not wrap (dropped in the second heap of
`memory`); a delay is below half the clock's range and a pass takes at most
`PassTime`, a quarter (2 × `PassTime` ≤ half): in the code 2³¹ ms, 24 days; a pass
creates at most `MaxSpawns` threads, without which a pass need not end; an EEPROM
cell takes what is written; the serial flash keeps what is written, power is not lost
between the two copies of one index entry (after that the mount finds no index and
deletes the file), nor, in `keys`, between the header and the value of a new block of the keys' file
(`Faults` without `"torn"`; see the observations); a page written over what is not erased is spoilt; a client writes
at least one word to the firmware file (a write of no bytes would set its size to 0
over what is there: see the hazards); the driver's buffers hold a message (`BuffersFit`).

## 5. Findings

* `sapphireos/memory.c:554`: `_mem2_i8_realloc` copies the old size into a smaller block,
  over its canary, and reports success. Its one caller (`kvdb.c:249`) only
  grows blocks; the function's contract allows both.
* `chromatron_recovery/app.c:267`: the recovery firmware compares its partition with
  itself without the trailing CRC. If power is lost just before the CRC is
  stored, the partition is reported as good for ever after, and the loader
  refuses it: the unit has no recovery firmware, and says it has.
* `sapphireos/ffs_page.c:205`: the mount resolves two blocks for one place in a file by moving
  one to the dirty list while it walks the file's list. The walk then ends, and the
  rest of the file is lost: cut off, its blocks in no list, or, if the file now
  has a gap, deleted by a walk that does not end until the watchdog bites.
  One loss of power between `block_copy` and `set_dirty` (line 766) suffices.
* `sapphireos/kvdb.c:300`: adding a key sorts the entries and keeps the cached index of
  the last search, as do the deletions (which reset it first and then go on); the next call for the
  cached key reads or writes another key's entry.
* `lib_chromatron/pixel.c:438`: the timer between frames starts when one channel has nothing
  more to send, while the other may have a whole buffer left: for slow strips the next
  frame begins in the middle of it.

### Observations

Made while modelling or when a constant is changed; the runs above exclude them.

Operating system.
* `SignalRunsRemove = TRUE` in `scheduler` breaks `CursorLive`: a thread
  run *for a signal* that ends, or that kills the thread the main walk stands on,
  leaves `thread_start` with a freed handle. No thread in the repository waits for
  a signal yet (`THREAD_WAIT_SIGNAL` has no user).
* `VersionSeals` of `ConfigStore` makes an exception (`wiping`) without which it fails: `CMD2_RESET_CFG`
  wipes a store whose version is valid, and power lost within the wipe leaves
  the version and takes the parameters; the next boot writes no defaults. The other way,
  `cfg_v_reset_on_next_boot`, erases the version alone and is safe.
* `MaxWrite = 2` in `ffs_files` lets a write need two blocks while one is free. `alloc_block`
  and `replace_block` answer with a status, which the caller compares with
  `FFS_BLOCK_INVALID`, and an assertion stops the system (`ffs_page.c:575`). A page
  that was cut short ends the same way when its block is next replaced.
* A persistent key's block that is torn by a loss of power is read back as it is
  (`Faults` of `KvPersist`); with `Batches = TRUE` the database meets no `kvdb_cache` case.

Network.
* A datagram of no bytes is never sent. A port that is opened again while it has
  datagrams queued loses count of them (`Reopens` of `WifiPorts`). The busy check of the
  transmit side uses the *remote* port (`esp8266.c:1753`, `hal_cmd_usart.c:402`).
* A client that does not answer in time can lose its message to a late
  query, and a link that is deaf stays so until the next reset.
* File transfers: a write whose first DATA is lost is asked for again from offset 1, for ever; with a
  window of 1 a lost request leads to a duplicate that is not acknowledged again; a write that
  is short is acknowledged all the same; an empty file loops. `WorkEnds` says `short` and `lost` for this reason.
* `SET_KEYS` leaks its message when the answer cannot be sent; the answer to a file check goes to
  whoever asked last.
* Links: `hashes_published` in `catbus.c` is a local array used across a wait (undefined;
  the model chooses). Bidirectional links echo for ever. A restarted source may reuse the sequence
  number a destination has cached; firmware's next publish heals it, the Python server resends the
  same number until the value changes. Its `_handle_link` says "remove current entries for this host"
  (`python/catbus/catbus/server.py:494`) and removes every host's, so two destinations of one
  key starve each other: `LinksFollow` of the pair fails with `python = TRUE`.

Show.
* Coordinates: an array used with one index on a transposed or interleaved matrix gets
  y = 65535, which is odd. Hues overshoot by less than a step at the seam of the circle; a fade may take
  almost twice its time. A short `virtual_array_length` divides by zero (`gfx_lib.c:1000`).
  `is_fading` of an array computes the index and tests the pixel `i` (`gfx_lib.c:1187`).
* Driver: a mode written before `pixel_v_init` leaves the old buffer size with larger pixels;
  a count that shrinks in the middle of a frame wraps, and rubbish is sent until the watchdog; the count is
  out of range between two atomic parts of a set; the second bounds test of
  `pixel_v_load_rgb` cannot fail. `comm_intf.cpp:545` sends one bogus message after a shrink.
* Programs: a reset or shutdown asked for during a load is forgotten (`vm.c:558`); restricted keys and
  metadata are checked after the program's init has run (`vm.c:344`); a stale report is taken for the new program's.
* Compiler: the address of a temporary register whose last use is twice in one instruction is given
  back twice (`code_gen.py:2513` looks for the index of the instruction among addresses), which harms the next expression
  after a bare `a() + b()`. Locals of one name in two functions are one variable, though the comment at line 2354
  says that all are prefixed. Constants are folded as Python computes them: `-3 / 2`, `2 and 3` differ
  from the device, and a constant division by 0 stops the compiler. `not (1 + 2)` in an expression reads a register
  nobody writes; `while x` without an operator does not compile; `pixels.is_fading` needs the constant 65535 in the script.
  A variable to the left of a call is read after it. Recursion shares the locals, and the C stack.
* Machine: halt in a function does not stop its caller; an array of numbers is divided by 0 unchecked, and a
  negative index goes before it (the compiler makes neither).
* Shared keys: a set of a published key can be undone by a batch already on its way; a counter
  may step back; an old program's batch can start a new program's key; read keys beyond `WIFI_KV_BATCH_LEN` are never sent;
  frames without pauses and a stale echo can chase two values for ever (hence `paced`).

## 6. The proofs

TLAPS proves, for every value of the constants that satisfies the assumptions:

* **`MemPoolProofs`**: `TypeOK`, `HandlesNameBlocks`, `Tiled`, `SpaceAccounted`,
  `HeldPointersValid`, `NoAssertFires`, and that `MemPool` implements `HandleStore`.
  The layout is inductive with the types; the counters are not, since the collector
  adds `dirty_space` to `free_space` without looking. The
  invariant needs `dirty_space` to be the total size of the dirty blocks. Sums over
  sets are out of the provers' reach, so it says instead that a
  *prefix-sum function* exists, which grows over dirty blocks and ends at `dirty_space`.
* **`SchedulerProofs`** (under `~SignalRunsRemove`): `TypeOK`, `CursorLive`,
  `NoneSkipped`, `NoneStranded`. A list is ordered by some function from
  nodes to positions; removal keeps it, insertion at the tail extends
  it. The main walk's cursor splits the positions: those who still wait
  are at it or behind it, and this also holds of the link of a node just freed.
  `AlarmsTrue`: how far an alarm lies in the future or the past is bounded by half
  the clock's range because the waits are, and a pass is at most a quarter; differences
  modulo the range then decide as true differences do. The cause a thread is told
  needs that an alarm that was not set is never taken for one that has passed (`CauseTrue`).
* **`PowerProofs`**, of the firmware: `TypeOK`, `NeverBricked`, `AppIntact`, `OnlyWhenAsked`, `ErasedIsBlank`.
  Always, the area being replaced is not the one that holds the image of last
  resort; a damaged program memory is the trace of a request. That copies end whole
  rests on the arithmetic of pages (`PagesCover`); that a size of 0 means blank, on what each
  erase, copy and first boot has left behind it (`Partition`).
* **`KeysProofs`**: of the sockets, types, and `SocketsSound`: owners of blocks are a function of the
  sockets' states, and the search for a free port ends on one that nobody has. `ServerSound`: while a request waits, the
  address of the server's socket is its asker's unless a file check started meanwhile (`RequestInv`). This needs that requests come
  from other nodes, so that nothing the server sends is looped back. `WholeTransfer`: a message on its way, however old, was true of
  the file when it was sent (`ToNodeTrue`, `ToClientTrue`), so what is acknowledged was stored, and both sides hold a beginning
  of the content. Of the database of keys: `WellKept` and `CacheTrue` (`KeysAreSorted`), and that it implements `KvMap`
  (`ImplementsMap`), both under `Batches`, without which the run `kvdb_cache` refutes `CacheTrue`. A sorting order exists by insertion; the binary search
  ends since its ranges become shorter, and with `KvInv` finds exactly what is stored. The map is a function of the *set* of
  entries, which sorting and growing leave alone. Of persistence: that it implements `PersistStore` (`ImplementsPersist`), and
  `WholeBlocks`, under `"torn" \notin Faults`: a block cut short leaves its header without a value, so that every
  later block is out of step (section 5). The headers are at the odd places of the file, each once (`WholeFile`): so the seek of the
  writer, that of the reader and the scan at the boot meet the same block, and a write changes what one key has.
* **`ShowProofs`**, of the shared keys: types, and `KeysAgree`: with values that differ, something on its way or lost says why,
  for each pair of the batch, the echo and the queue.
* **`ShowProofs`**, of the pixels: `PixelsTrue`, which looks ahead from every state over the runs of the faders that a fade
  may take. The invariant (`Painted`) says how many runs each pixel has left: what is ahead of it, around the circle, is less than its step
  times the runs but one, or the next run arrives (`Ends`). A step just computed makes this twice the runs of the fade and
  one, since it is the difference divided by the runs and rounded down, but never 0 (`StepIs`); each run then takes one off
  (`EndsMoved`), and whatever a program aims or sets meanwhile has the step computed anew. So the course from any
  state ends in time (`RunDone`). What a hue has gone and what it has ahead are together the distance, until it goes past the
  target at the seam by less than a step, and back (`Tally`). That coordinates are different pixels is the uniqueness of
  division with remainder, by the width of the matrix and by the number of pixels. The only assumptions on the constants are that the
  pixels are fewer than a word counts and that the word's range is even. The courses are recursive functions; that they exist is
  `CourseIs` of `Loops`, and what holds along them is shown by the least run at which it would fail.

* **`PowerProofs`**, of the configuration store: types, `StoreSound` (a store that is not being written has no duplicate and no
  invalid block; one version at most, and never without the defaults), and that `ConfigStore` implements
  `ParamStore`. The EEPROM must have room for the defaults (`NSlots` above their blocks). The invariant names the
  blocks the code is busy with (`Suspects`); all others are free or the one valid copy of their key (`Tidy`). A boot
  makes all blocks suspects again, so what must outlive losses of power is stated apart (`Sealed`). When the
  version is written the store holds the defaults written so far and nothing else (`Resets`); their keys are distinct, so
  a free block was found for each: a pigeon-hole argument. A lookup that finds two copies takes the lower one; the map
  changes when that one does, with the new identifier or with the erasure of the old block.
* **`NodeProofs`**, of the link and the ports: `DatagramsWhole`, and `QueuesAccounted` under `~Reopens`. The messages on a wire are in the
  order of datagram and part, all before the next to be sent and newer than what came out; faults, flushes and full
  buffers take bytes from the front only, which keeps this. What follows the last part of a datagram
  then belongs to a later one, so a sum of parts that is right is one datagram. The counts of ports need that a
  port has one place, the same in the table, its copy and the sockets, and that nothing waits for one yet to be opened.
* **`NodeProofs`**, of the show: `FramesWhole` under `BuffersFit` (which the code leaves to the choice of `pix_clock`; `pixel_gap`
  shows what happens without). Of the frame, what was sent, what the sending channel holds and what the
  other one holds are adjacent segments (`UnderwayAt`), and the timer has as many ticks left as the line needs at least; so it
  goes off at the end of the frame. `ProgramWhole`: what a load does is a recursive
  function over the messages. That it exists, and what holds after all of them, is shown by the least
  number for which it would fail (`LeastOf`, from the well-founded order of finite sets), since the library's rules of induction
  cannot be used.

* **`FlashProofs`**, under `"replace" \in Safe`: `BlocksAccounted` and `FreeErased`, for any number of blocks, files and
  losses of power. The assumption leaves out one instant, between the header of a copied block and the
  mark of the block it replaces: a loss of power there breaks `BlocksAccounted`, as `ffs_mount` shows. Every other write
  of every call may be the last before a loss.
  * The invariant (`FlashInv`) has two parts. The flash, always: valid blocks have different places in files, and at
    most one block looks free and is not blank (`FlashOK`). The lists, while mounted: each holds blocks of its
    mark, in a file's list at their place, none twice, none left out (`Tables`).
  * Within a call the lists do not hold all blocks: one that has been taken out of a list and not yet put into another is
    *loose*. Lemmas say of each operator what it does to the tables and the loose blocks (`Good`, `Sound`),
    and of each entry of its log that the flash is `FlashOK` after it (`LogOK`): that is what a loss of power leaves.
  * A mount starts from any flash that is `FlashOK`, not only from one that some run leaves. The scan of headers makes all blocks that are
    not valid free or dirty; of the free ones the one that is not blank is moved; the blocks of a file have
    different numbers; if none is missing there is one for each place (a pigeon-hole argument), and a file with a gap, or
    one that cannot be read, is deleted whole: its blocks become dirty.
  * **`Loops`** is the induction that this needs. The operators fold over sequences; the library's rules of
    induction take an operator as a parameter, which no installed prover can instantiate, and instantiating a *module* does it
    instead: `Loops` has the body of a loop and what it keeps as CONSTANTS, and its theorem `LoopKeeps` is proved once, by the
    least number of elements after which it would fail. `FlashProofs` instantiates it for each loop.

`PowerProofs` and `NodeProofs` take together what `MCPower` and `MCWifi` check together.
The inductive invariants were checked with TLC first; `FlashOK` also from every small flash that satisfies it, not
only from those that calls and losses of power make.

Only model-checked: all liveness properties and what needs ENABLED (out of the prover's reach); the
refinements of `FileStore` (what reads return is a property of the pages' contents, not of the
lists the proof is about); links between nodes, and the compiler with its machine
(`ScriptsMean`), whose operators are recursive.

## 7. Not modelled

* `timesync.c` (`ENABLE_TIME_SYNC`), `automaton.c`, `event_log.c` and `command2.c` are switched
  off in the target; so are the links of `catbus.c` (`ENABLE_CATBUS_LINK`, `target.h:33`), which are modelled all
  the same (`CatbusLinks`), with the Python server that speaks the same protocol; `tftp.c`, `dns.c` and `sntp.c` are started by nobody. Read nevertheless: with
  time synchronisation the normal frame message is never sent, and no master is elected after one's death;
  a DNS name whose tries are used up is resolving for ever.
* Loading the ESP8266's ROM (`esp8266.c`), registers and pure I/O of drivers, the vendor's wifi library,
  the vendored USB stack and CuTest, and the older generic `loader`, which is not the board's.
* Pass 1 of the script compiler, the errors it reports, and the Python simulator of the machine.
* Formatting, conversion between types, names, the virtual files, command-line tools.
* Within modelled components: the notes in `PROJECT.json`.

## 8. What is left

1. The refinement of `FileStore`: the contents of pages over every call. Loss of power between the copies of an index entry.
2. The interval functions of `timers.c` against a reference definition; the thread
   that hands pixels to the driver.
