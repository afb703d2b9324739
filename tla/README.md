# Appletini One: specifications and proofs

Appletini One is a card for the Apple //e: a Zynq-7020 whose programmable logic
sits on the Apple's bus and whose two ARM cores run bare-metal firmware. CPU0
runs services, menus and the compositor in one cooperative loop; CPU1 turns the
stream of captured bus cycles into frames. A separate boot image, Golden,
chooses, verifies and updates the firmware in flash.

This directory holds TLA+ modules of the parts of that system where several
actors, failures or losses of power meet, the TLC configurations that check
them, and TLAPS proofs of what matters most. Paths below are relative to `src/`;
`PROJECT.json` ties every definition to the lines it models.

## 1. The system

### 1.1 Components

| Component | State it keeps | Operations | What makes it correct |
|---|---|---|---|
| **Framebuffer handoff** `ps_sources/frontend/apple_fb_handoff.c` | three shared words (published slot and mode, publish_seq, reader_active), a slot on each side | publish a frame (CPU1), claim one (CPU0) | no torn frame, mode and pixels agree, never an older frame than the one shown, the last frame shown in the end |
| **Cycle-record path** `hdl/apple/apple_cycle_capture.sv`, `apple_cycle_egress.sv`, `frontend/apple_cycle_egress.c` | FIFO, pending register, drop flag, stage, AXI state, ring in DDR, producer and consumer pointers | capture, stage, burst, notify, mark a gap; poll, deliver, publish the consumer | legal bursts, order kept, every loss marked ahead of what follows it, nothing accepted lost, no deadlock of a full ring |
| **Frame logic** `frontend/apple_cycle_renderer.c` | armed, resync and frame-end flags, last position | dispatch of a record or a gap | only completely painted frames are published |
| **Video ROM exchange** `frontend/video_rom_service.c`, renderer | shared buffer, generation, mode, acknowledgement, one queued request | apply, menu default, poll, status; apply at a frame start | no mixture of two ROMs, a status that tells the truth, the last request drawn in the end |
| **Multiboot** `lib/multiboot.c` | two metadata sectors, two firmware slots, their headers | install, select, request, default, clear | no partial image is ever authorised, metadata is replaced atomically, no other image is harmed |
| **Golden boot updater** `bootloader/main.c`, `updater.c`, `boot_control.c`, `serial_boot.c` | files on the card, the monitor | batch of update files, selection, boot, monitor commands | some firmware starts if one is usable, files retired only when installed |
| **Golden self-update** `lib/golden_self_update.c` | primary and trial slot, MULTIBOOT register | stage a trial, start it, repair the primary, retire BOOT.BIN | the card can always boot, whatever is cut |
| **PS DMA** `lib/psdma.c`, `hdl/apple/ps_dma_command.sv`, `apple_dma_engine.sv` | command registers, engine registers, PSRAM port, AXI bursts | transfer, abort, acquire, release | bytes exact, nothing else touched, legal bursts, OK means copied, quiet while reserved |
| **PSRAM arbiter and driver** `hdl/apple/psram_simple.sv`, `psram_driver.sv` | write queue, line being patched or parked, two ports, admission window; the command on the chip and its rest | serve a read, queue a write, read-modify-write, port operations, change of the bus's owner | a read returns the last byte written whichever path it takes, in time; no write is lost |
| **Accelerator's bus engine** `hdl/apple/vtw_bus_engine.sv`, `vtw_core_top.sv` | session, /DMA and drivers, queue of posted writes, the request under way | take the bus, post, request, answer, hand back at a reset or stop | the bus changes hands by the Apple's rules, writes and accesses go out once, in order, and are answered |
| **ONE//e mode** `hdl/apple/onee_mode_safety_guard.sv`, `frontend/onee_service.c`, `vtw_service.c`, menu row | capture flops, lockout, hold, request; status as last read, confirmation count, saved choice | watch the bus, stop, isolate, release; poll, start, restore, save | the private machine stops at once on a live bus, does not restart by itself, a glitch does not change the saved choice, a lasting hazard does |
| **Settings file** `frontend/config_menu.c` | file, backup, temporary file, settings in memory, the flag of unsaved changes | save, load, retry, flush, profiles | one whole settings file survives every failure, unsaved changes are known |
| **Firmware switch** `frontend/main.c` | holds, reservations, the request in flash, boot register | quiesce, save media, commit, preselect, reset, or roll everything back | no hold is lost on any failure path, a reset loses nothing |
| **HTTP client and users** `frontend/http_service.c`, `http_download.c`, `net_service.c`, `online_update_service.c`, `main.c` | the one request with its owner, the loan of the Ethernet slot, files on the SD card, who has the card | start, claim, receive, hand over, cancel, restore; lend the card to USB or FTP | the chip has one user and comes back, a file is a whole body, the card is lent only when no download or update uses it |
| **Serial recovery** `bootloader/serial_boot.c` | console, a reception | receive a file, update, boot | modelled only as commands of the boot models |
| **USB, SmartPort, Disk II, emulated cards, menus, compositor, sound, QSPI driver** | see `PROJECT.json` | | |

### 1.2 How they interact

* The bus capture writes records and gap markers to a ring in DDR; CPU1 polls it
  and gives slots back through a register. The renderer paints into one of
  three buffers and publishes it to CPU0 through words in on-chip memory.
* The same memory carries the generation, mode and acknowledgement of the
  character ROM, whose image travels in a shared buffer.
* CPU0 copies between DDR and the PSRAM through the DMA engine; other masters
  of those memories first take a reservation from the driver.
* The PSRAM holds the Apple's extended memory. The Apple's cycles have priority;
  the accelerator and the DMA engine use a window that closes before the next
  one, or all of the time while the accelerator owns the bus.
* The accelerator's core runs the Apple's program and reaches the Apple through
  its bus engine; in ONE//e mode the same core is a computer of its own, isolated
  from the connector by a guard that CPU0 cannot override.
* CPU0's loop calls each service once per round. They share the SD card and the
  Ethernet chip by asking each other whether they are active; a switch of the
  firmware asks all of them, stops the Apple and resets.
* Firmware and Golden share flash and metadata but never run together: a reset
  or a loss of power hands over from one to the other. Golden reads update files
  from the SD card and renames them when they are installed. A new Golden is
  staged in a trial slot, started there, and itself repairs the primary.

### 1.3 What is hard

* Two cores with no lock and no atomic read-modify-write between them.
* Hardware registers that are one or two clocks old when they are used.
* A loss of power, or a failed flash operation, between any two steps.
* Aborts and time limits that race the completion of what they stop.
* A bus that does not wait: a byte that is late, or a driver that is still on, is
  wrong however rarely it happens.
* Services that hand a resource to each other over several rounds of a loop,
  with cleanups that can fail and are tried again.
* Losses at full queues that must still be announced, in the right place.

`PROJECT.json` lists these hazards at their lines, with the properties that
would catch each one, or the reason why none does.

## 2. The models

### 2.1 Framebuffer handoff

`FbHandoff` has one action per load or store of a shared word
(`StorePublished`, `BumpSeq`, `PickNext` on CPU1; `ReadSeq`, `ReadPublished`,
`StoreActive`, `ReadPublishedAgain`, `ReadSeqAgain` on CPU0). The region is
strongly ordered and barriers stand between the accesses, so program order is
the order the other core sees. `pixels`, `offered` and `behind` are history
variables. `FrameExchange` is the promise: an exchange of numbered frames,
whole, monotone, and at least as fresh as the last publication completed when
the claim began. `FbHandoffHistory` adds the history the promise speaks of and
the refinement.

Assumption: the compositor claims at least once in `MaxBehind < SeqMod`
publications (2^32 in the code). A claim during the one period in which
publish_seq has wrapped to 0 answers NO_SLOT although a frame is held; the next
publication ends it. TLC's instance stays below the wrap because freshness
really fails there for one blit, and the refinement is proved under the same
condition; exclusion and mode coherence are proved for
every width, wrap included.

### 2.2 Cycle records

`CycleRing` takes one step per clock: capture, engine, caps and stage all take
their next value from the present one, so registered values have the age they
have in the logic. `Poll`, `Deliver` and `Publish` are CPU1's. `lost` and
`dropped` are history. `MarkedStream` is the promise: a queue that may lose
records, with a marker ahead of every record that follows a loss.
CPU1 keeps a frame record in the ring until its phase lookahead is settled
(`Settled`): two frame records follow, or a gap, a write of $C029 or a jump in the
scan comes first. A full batch of unsettled records is dispatched all the same
(`Forced`). So what arrives last stays in the ring until more comes (`HeldTail`).
`CycleFrames` puts the renderer's frame logic behind `Deliver`. `MCCycleRing` and
`MCCycleTail` state what TLC checks of the whole.

Simplifications: records are numbers, and constants say which of them have no
frame part (I/O, direct writes) and which write $C029; arrivals may come on any clock, which is
more than the bus can do, except that the pending register is found occupied
only while the FIFO is full (Apple cycles are 133 clocks apart); the timers that
flush a partial burst are a free choice; the FIFO macro has no latency;
`cfg_enable` stays on; resets (boot, the Apple's RES#) are not modelled; CPU1's
poll budget is the whole ring and never reached; what the lookahead says of the
phase is pixel data. The renderer is modelled in the clean legacy modes.

### 2.3 Character ROM

`VideoRom` has the loads and stores of generation, mode and acknowledgement as
steps, moves the ROM in two halves (enough to tear it), and covers the menu's
default, `apply`, the poll that runs in the main loop and in the background, the
status word, and CPU1's cold start, at which it has seen no generation.

### 2.4 Multiboot and Golden

`MetadataPair` writes one of two sectors (erase, body, CRC, read-back); each
operation may fail, with or without effect, or be cut. It implements
`AtomicRecord`: one record, replaced all at once, or not. Relying on that,
`Multiboot` has the metadata as one variable whose write may land although it is
reported as failed, and models the slots, five kinds of image (tagged for each
product, restored single-slot Appletini, unidentified old, and old images that
span both slots), Golden's batch, its selection, its monitor and the choices of
running firmware. `FirmwareCatalog` is what this promises the owner.

`GoldenUpdate` models trial, repair and retirement with the BootROM as an
external action: it starts the first slot with a valid header at or above the
MULTIBOOT register, which a loss of power clears and a soft reset keeps. It
implements `AtomicRecord` once more: the image that power-on starts is replaced
all at once by a repair.

Simplifications: an image is seen whole or is junk; transient read errors during
selection are not modelled; `mb_golden_available` is taken to hold. In
`GoldenUpdate` a silent error of programming is possible in the body (the
read-back finds it); the final step covers the message "DO NOT POWER OFF", when
even the renewed invalidation fails: the property holds because that path is
reached only with the verified image in place.

### 2.5 DMA

`DmaEngine` is the engine's state machine byte by byte: line and beat counts,
the offset merge, the read-modify-write of partial lines, bursts limited by a
page and sized by a registered value, the command block and the PSRAM port; AXI
answers when it likes. `PsDma` is the driver over it: at each clock the processor
takes at most one step, and its time limits are a free choice. `MCPsDma` checks
the engine with a processor that writes the registers freely, and with the
driver, which asks for aligned requests only.

Simplifications: a register read takes no time; `vtw_copy_busy` is never set;
requests fit the engine's length register (the callers ask for 512 bytes at
most). `was.clean` is history: whether the engine began its request with nothing
left over of an aborted one. `CopyExact` and `OkMeansCopied` are stated under it
because of the findings below.

### 2.6 PSRAM

The arbiter is modelled twice. `PsramQueue` has its data: strobes, moves of the
state machine and completions are steps of their own, and a completion may come
at any time. It covers the queue of byte writes, forwarding from it, the
read-modify-write with the entries it was flagged for, a patched line that
yields to a served read and is parked, both line ports, an engine that withdraws
its request, and the change of the bus's owner. `CoherentMemory` is the promise:
one memory of bytes in which a reader gets what the memory held when its access
was accepted. That a served read may be missed, or a write find no room, is part
of that promise; that neither happens is the matter of `PsramTiming`, which has
no data but every clock: the strobes of the bus, the admission window of 40
taps, the budget of one background operation per cycle, the command tapes and
the chip's rest, the drain after the accelerator's ownership. Its environment
chooses every mix of accesses, and the ports always press. `DmaEngine` has the
DMA port from the engine's side, byte by byte.

Two facts about `PsramQueue` hold by the widths and the logic around it: entries
are flagged by ring index, so the highest index wins, not the newest (the model
does so; `PatchInv` shows it harmless), and strobes do not coincide.

### 2.7 Accelerator

`VtwBus` steps by strobe (`DriveEn`, `DataEn`) and by clock of the posted
pipeline between them. It covers every state of the session, the handover one
signal at a time, the stock run of the Apple's own processor, the II+ that keeps
the bus over a reset, missed strobes, barriers, the margin of the queue, and the
core's stage, request tracker and answer. `BusMaster` is the promise: writes go
out in their order and none is lost or repeated, an access goes out once, after
the writes it is a barrier to, and gets the answer of its own cycle; a reset may
drop what the core had not seen done. `kept` is history: whether the session has
been enabled ever since the bus was taken; a II+ of which it is true keeps /DMA.

Simplifications: the TURBO video mirror, posts and requests of the ARM, the data
direction on a II+ and a hold of the core in mid-request are left out. RES# and
the enable keep a new level for at least one `drive_en` (a filter, and a register
write per menu action, stand before them). A core that has come out of reset
reaches the bus before it writes to a screen (`awake`): its reset vector is read
there. It takes at least three clocks between a post and the next request.

### 2.8 ONE//e mode

`OneeGuard` is the safety guard clock by clock, with its asynchronous capture of
a pulse that no clock sees. `OneeMode` puts CPU0 on top: the supervisor's poll
reads the status once (`PollRead`) and then acts on it, while the bus goes on; a
register write arrives later (`posted`); the start of the core takes several
steps with a confirmation before each; the menu saves to a card that can fail
and can keep either value. `touched`, `streak` and `consent` are observers; the
consent to run ends with every stop, whoever made it, the restore grace included.

Simplifications: polls are slower than the guard settles (milliseconds against
microseconds), so the clocks of a settled guard are not stepped; the status
shows the lockout as its only hazard; a missing PL, the pause policy, the cold
reboot and the video standard are left out. Two things seen while modelling that
no property forbids: a second press of the row with a status that is one poll old
and a save that fails leaves the choice OFF and the machine ON
(`config_menu.c:6219`); after a stop by the guard the core's control word stays as
it was until CPU0's next poll (`apple_top.sv:2083` isolates it meanwhile).

### 2.9 Settings file

`ConfigFile` has each FatFs operation of a save as one step that succeeds, fails
before or after its effect, or is the last before the power goes: write aside,
verify the size, drop the backup, set aside, install, or put back. Loading, the
rename of a lone backup, retries, profiles and the flush before a switch are
there too. It implements `AtomicRecord`, like `MetadataPair` and `GoldenUpdate`.

### 2.10 Firmware switch

`FirmwareSwitch` has both functions that end in a reset into Golden, one action
per hold or save with its failure, and the rollback, while an Apple, a private
core, a foreign bus or nothing runs on beside them. What is committed to flash is
Multiboot's matter. Assumed: the guard does not trip during the work, the
ONE//e pause is otherwise the menu's, and one request is served at a time.

### 2.11 HTTP client

`HttpService` has one action per service call of one round of CPU0's loop, for
the client and for its users: console, the Apple's requests, the download to a
file, the updater, and the lending of the SD card to a USB host or to FTP. The
card is lent only when no request is active and no file of the download or the
updater is open or half written; SmartPort images stay open, and are not part of
the claim. A call of the chip, a close and an unlink can fail; a chip whose
receive layout could not be restored has any layout. Bodies are counted in units.

Simplifications: the pages of FTP and USB are modal, so the SmartPort is not
served, no slot is edited under FTP, and USB is not mounted under it; DNS, TCP,
TLS, retained bodies, the benchmark and the probe are left out; the updater's
cancellation is a failure of its next poll; that a firmware switch stops the
polling for good is not modelled.

## 3. Runs

| Run | Instance | States | Checks |
|---|---|---|---|
| `fb_handoff` | two modes, four frames, sequence below its wrap | 114 371 | exclusion, mode coherence, refinement of `FrameExchange`, the last frame shown |
| `saved_records` | metadata: three values, six sequence numbers; settings: three values; three Goldens, three losses of power | 58 161 | all three refine `AtomicRecord`; always bootable, repair resumes |
| `multiboot` | six images of all kinds, two files, one loss of power | 532 044 | no partial image authorised, refinement of `FirmwareCatalog`, firmware starts |
| `dma_copy` | lines of 4 bytes, bursts of 2, pages of 4 beats; one free request of any offset and length up to three lines, or two calls of the driver | 119 839 | bytes and nothing else, bursts, driver results, termination |
| `dma_left` | the same | | what an abort leaves behind BUSY |
| `cycle_ring` | ring of 4, bursts and pages of 2, FIFO of 1, six records, lookahead of 1, direct port and stalls | 451 601 | bursts, whole frames without drops, refinement of `MarkedStream` |
| `cycle_tail` | ring of 6, lookahead of 3, five records: three of the frame, two others | 258 187 | arrival, but for the tail that waits for its lookahead |
| `cycle_torn` | ring of 5, bursts of 1, nine records, frames of 3, lookahead of 2 | | a torn frame is published after a drop |
| `psram` | data: two lines of two bytes, queue of 2; clock: cycles of 130 and 131 clocks, queue of 8 | 985 635 | refinement of `CoherentMemory`, served in time, no write dropped |
| `vtw` | bus: stock run 2, queue of 4, margin 1, two writes, a plain access and a barrier; ONE//e: quiet 1, confirmation 2, grace 2 | 281 590 | handover, a II+ keeps the bus over a reset, stock run, refinement of `BusMaster`, answers; stop in time, no restart, saved choice, isolation, OFF saved |
| `services` | two ROMs and the built-in one, generation modulo 3; the switch; bodies of 2 units, a ring of 1, one redirect | 700 295 | ROM never torn and the latest drawn; holds returned, nothing lost at the reset; one user of the chip, which comes back, whole files, no download or update on a lent card |
| `config_flush` | settings: three values | | an unsaved change is forgotten |

`saved_records` (`MCRecords`), `psram`, `vtw` and `services` each check two or three modules
that do not interact: a variable says which of them a behaviour shows, the others
stay in an initial state, and fairness is stated for each by itself. A state of
such a run is a state of one of its modules, so the modules are checked side by
side and not multiplied.

Why the bounds are enough. *Handoff*: four frames give every rotation of three
slots plus one, with two publications inside one claim. *Metadata*: each commit
depends on the two present sectors only; the six numbers make every pair of
successive numbers occur, the one across the wrap included. *Settings*: the file,
its backup and a save in progress hold at most three different settings.
*Multiboot*: two files give every order of two updates, an update after a cut one
among them; one loss suffices to reach every intermediate content of the flash,
and the proofs hold for any number. *Golden*: a repair, its resumption and the
resumption of that can each be cut. *DMA*: up to three lines cover a first, a
middle and a last line, from every beat of a page, hence bursts on each side of
a page edge; two calls let one find what the other left. *Cycle ring*: six
records wrap a ring of four, fill it (two slots stay reserved), overflow the
FIFO, and make two markers; with a lookahead of one, a frame record waits for
another record. The stream of `cycle_tail` is frame, frame, frame, write, $C029:
its records are settled by two frame records, by a full batch, by $C029 and by
markers, it stops at any point, and its four last records fill the ring. The lossless renderer instance is in the configuration;
the lossy one of `sdd_bus_tap.sv` is covered by the proofs. *PSRAM*: the Apple uses two
bytes of one line, or one byte of two lines, since lines interact only through
the queue and bytes only within a line, and two queue entries give an order; the
refinement is proved for any sizes. The clock's constants are those of the
hardware, with the two lengths of an Apple cycle; it is proved for every length
beyond the data strobe. *Accelerator*: three usable
entries fill the queue with one more on its way; a stock run of 2 distinguishes
none, one cycle and enough. *ONE//e*: the counts are the smallest for which one
glitch and a lasting hazard differ. *HTTP*: two units with a ring of one make a
body that is received, read and finished in different steps and can be cut
between them; one redirect repeats the opening.

`CHECK_DEADLOCK FALSE` stands in the three cycle-record configurations, which stop
when the bounded supply of records is exhausted and delivered, and in `Services`,
where the firmware switch ends at the reset.

### 3.1 Fairness

* `fb_handoff`: CPU1 finishes a publication it has begun and CPU0's loop goes on
  (`WF` of each): both cores run endless loops and no step of the handoff waits.
  Nothing forces CPU1 to begin a frame, since the Apple may be off.
* `multiboot`, `saved_records`: Golden, or the BootROM, takes its next step. No
  fairness on operators, on losses of power, or on a flash operation's success.
* `dma_copy`: while some clock edge can move the engine or the PSRAM port, one
  does. AXI and PSRAM always answer; the driver's own steps need no fairness for
  a command to end.
* `cycle_tail`: clocks go on, AXI answers, the flush timers expire while records
  wait, and CPU1 polls.
* `psram`: none. Its properties of time count clocks.
* `vtw`: the bus has its cycles and the logic its clocks; in ONE//e mode the
  local clock runs and CPU0's loop goes round. `SF` stands for one thing: a save
  to the SD card that is tried again in round after round succeeds at some time;
  on a card that refuses every write the OFF cannot be durable, and the menu says
  so.
* `services`: CPU0 polls the ROM exchange in its loop and CPU1 begins frames; the
  HTTP deadline, which every poll looks at, passes (`WF` of `Fails`), and a chip
  that is asked in every round to take its layout back does so in the end.

### 3.2 Findings

* `dma_left` (`hdl/apple/apple_dma_engine.sv:395`): an abort in one of the states
  that write a line goes to its end without looking at the beats of the burst
  that are still to come, as the neighbouring branch does. They stay on the read
  channel after BUSY clears, and the next transfer takes them.
* `dma_left`, in a second way (`:397`): `dma_ready` is registered, so an abort at
  the edge at which the PSRAM admits a line does not see that it was admitted.
  TLC reports whichever counterexample is the shorter.
* `cycle_torn` (`hdl/apple/apple_cycle_egress.sv:410`): a marker overtakes the
  records staged and queued before the hole; a frame edge among those re-arms
  the renderer, which then publishes the frame with the hole. Comments in
  capture and renderer say that an overflow invalidates the frame.
* `config_flush` (`ps_sources/frontend/config_menu.c:4161`): saving a profile
  clears the flag that says the global settings are not on the card; the flush
  before a firmware switch then saves nothing, and an edit whose own save had
  failed is lost at the reset.

Without a run: `pick_third` calls one of its branches "shouldn't happen"
(`apple_fb_handoff.c:205`), but it is the normal and harmless answer to a claim
between the two publication stores.

## 4. Proofs

All are proved for every value of the constants that the named assumptions
admit. Each proof names an inductive invariant, a conjunction of named parts, and
shows that it holds at first and that every action keeps it. A refinement is
proved step by step: each action of the detailed specification is an action of
the abstract one or changes none of its variables.

| Module | Theorems | Argument |
|---|---|---|
| `FbHandoffProofs` | `TypeCorrect`, `Exclusion`, `ModeCoherence`; `ExchangeRefined` | publish_seq minus the last claimed value counts the publications in between, so an equal value means an unmoved writer; a slot found published after it was reserved is one that the writer has left and will avoid. The properties alone are not inductive: they say nothing while a claim is under way. Exchange (`HistInv` = `Painted`, `Counting`, `Current`, `Shown`): while publish_seq has not moved, the word that was read leads to a frame not older than the last complete one; a frame shown before its publication was complete is the one the next claim returns, until it is. |
| `RecordsProofs` | metadata: `PairTypes`, `Unambiguous`, `NeverLost`, `PairRefines`; settings: `SavedWhole`; Golden: `GoldenTypes`, `Bootable`, `TrialFirst`, `BootBinRetired`, `GoldenRefines`; `ThreeRecords` | Metadata: two records that decode are successive, and what is erased is the older one or does not decode. Settings (`FilesInv` = `Files`, `Saves`): at each point of a save it is known which of the three names holds the old settings and which the new, so a load finds one of the two. Golden: while the primary's header is invalid or being rewritten, the trial is whole and is what runs. |
| `MultibootProofs` | `TypeCorrect`, `Authorised`, `HeaderLast`, `Renamed`; `SlotsAsPromised` | a record is withdrawn before its slot is touched and written only from the live slot; in between the header stays withdrawn until the body is whole. Catalog (`CatalogInv`): with a record a slot offers what the record says, so of an update only the two writes of the record show; without one nobody has made a choice, and adopting live slots takes nothing away, but for an old image that reaches into the other slot, where `mb_update_begin` refuses |
| `ServicesProofs` | character ROM: `TypeCorrect`, `NeverTornAlways`, `Honest`; switch: `HoldsGivenBack`, `NothingLostAtReset`; HTTP: `EthernetSafe`, `CardSafe`, `DownloadsWhole` | ROM: the buffer is CPU0's between a poll that saw the acknowledgement and its store of the generation, CPU1's from there to its acknowledgement; the cold start is a case of its own. Switch (`RebootInv`): what is held is noted before the hold can fail, and each step settles something nobody left running can unsettle. HTTP (`NetInv` = `Ether`, `Card`, `Body`): a request owns the chip from its claim to its restore, while a USB host waits for the card or has it nothing that uses the card starts, and the units written and those in the ring are all that came. |
| `VtwProofs` | `HandoverSafe`, `StockFirst`, `Implements`; `StopsSoon`, `QuietFirst`, `NoRestart`, `GlitchKept`; `BothLives` | Bus engine (`BusInv` = `Session`, `Signals`, `Levels`, `Owned`, `Pipeline`, `OneRequest`): each state of the session fixes /DMA and the drivers, the session of a II+ is in release only if it was disabled since it took the bus, the stock run is counted under the state that waits for it, and writes lie in the pipeline in their order with at most one request behind them. ONE//e (`OneeInv` = `Captured`, `Held`, `Wanted`, `Counted`): a pulse is in the capture flops until it locks the guard, a machine that runs has been wanted, and the supervisor's confirmation counts no more than the polls with a hazard in a row. |
| `PsDmaProofs` | `Reserved`; `EngineInvariance`, `BurstsLegal`, `CopiesExact`, `OkTruthful` | see 4.1 |
| `CycleRingProofs` | `LossesAnnounced`, `BurstsLegal`, `FramesWhole`, `PathKeepsOrder` | see 4.2 |
| `PsramProofs` | data: `TypeCorrect`, `PatchedLineCurrent`, `Coherent`; clock: `ServedOnTime`, `RoomForWrites`, `ScheduleSide` | Data: the abstract memory is the chip's line with the queued bytes laid over it in their order; while a line is patched, it equals the chip's with exactly the flagged bytes, and a byte it lacks is still queued. What a port or the Apple was promised at admission is kept because no later write can get between. Clock: see 4.3 |

The properties of a component are proved of that component's own specification
(`Spec`, `PsSpec`, `Golden!Spec`, `Net!Spec`, ...). `ThreeRecords`, `BothLives` and
`ScheduleSide` say that a behaviour of the combined model that TLC runs is one of
each.

### 4.1 The copy

The properties of the engine are far from inductive: at the end of a command the
destination is right because of where every byte was at each clock before.
`EngineInv` says it for every state: `Counted` ties the counters to the lines and
beats of the request and to what the AXI slave has still to do; `Exact`, under
`was.clean`, says that only the destination differs from what the memories held
at the start (`OnlyDestination`), that the port carries what its line holds or
shall hold (`Ported`), that the two holding registers carry the bytes around the
seam of two lines (`CarriedIn`, `CarriedOut`), and that all bytes below the
counter have arrived (`Ends` at the end). TLC was run with this invariant on the
states of `dma_copy` before it was proved. The proof goes over the clock edges by
name, one lemma each, with an arbitrary processor beside them. A beat is W bytes:
addresses are products with W, which the provers do not handle, so `At` hides the
product behind the few facts the argument uses.

`CallInv` adds the driver: COMPLETE belongs to the command that ended
(`Reported`), and that command to the call that waits for it (`Called`). It gives
the theorems for `PsSpec`; `Reserved` needs only its control part, `IInv`.

### 4.2 The cycle records

`LossesAnnounced`: the pending bit falls only with the acknowledged burst of a
marker, one clock before the drop flag; a drop in between keeps the flag up,
which sets the bit again.

`RingInv` (`Shape`, `Pointers`, `Fresh`, `Sized`, `Contents`) measures every
pointer by its distance from the consumer, so that nothing is said twice because
of the wrap, and says how old each registered cap is. `WholeInv` adds where the
renderer stands in its frame; while nothing was dropped, the records that lie
anywhere in the path are consecutive.

The refinement of `MarkedStream` maps the queue to everything between the
capture and CPU1, `Unconsumed \o stage \o fifo \o held`. `PathInv` adds that it is
in order and that a loss not yet marked is remembered ahead of what follows it
(`Landed`, `Ordered`, `Owed`). TLC was run with it for the lossless and the lossy
build before it was proved. The abstract specification had to allow a record and
the loss of its successor in one clock, since the capture block can do both.

### 4.3 The clock of the PSRAM

`ClockInv` has four parts. `Tape` says where the driver's tape stands, `Jobs` which
command the arbiter's state has given it. So every state has a number of clocks
until the arbiter is idle (`Left`) and until the chip has rested as well (`Quiet`),
and every clock takes at least one away (`MachineMoves`): the longest chain, read,
rest and write behind another rest, has 57. `Scheduled` puts these numbers against
the clock `t` of the cycle: what was admitted in the window ends before the data
of the cycle, 65 + 57 < 124; a read is answered by 60, though the card drives at
90 only; what the accelerator left when it gave the bus back is over by 70 of its
guard cycle. `Room` adds that a byte still in the queue when the next write is
announced is being patched or is the next thing to be admitted (`Retiring`), so
it is gone when the data come. It follows that one entry of the queue would do: the
eight of the hardware hold at most one at a time in the model. TLC was run with
`ClockInv` on cycles of 125, 130 and 131 clocks and a queue of one before it was
proved.

### 4.4 Assumptions

Each is a named ASSUME in the module that declares the constants, and TLC
evaluates it in a run. Those with more to them than typing:

* `FramesAssumption` (`FbHandoffHistory`): fewer frames than publish_seq counts, 2.2
  years of them. Only `ExchangeRefined` needs it: at the wrap a claim answers that
  there is nothing yet (2.1).
* `SeqAssumption` (`FbHandoff`): the reader claims once in `MaxBehind < SeqMod`
  publications.
* `WidthAssumption`, `RequestsAssumption` (`DmaEngine`): a page is a whole number
  of the longest bursts (4096 bytes and 16 beats of 8); a request has at least
  one byte and lies in both memories; `psdma.c:109` checks this for the PSRAM, and
  the DDR side is a buffer of the caller's.
* `CycleRingAssumption`: the ring is a whole number of pages and a page at
  least a burst, as `apple_cycle_egress.sv` is instantiated, and leaves more than
  its two reserved slots and one batch of the lookahead (131072 slots, 256 records).
* `ImagesAssumption` (`Multiboot`): an image is of one product; old ones that reach
  into the other slot, or are not known, are not of the installable kinds.
* `VtwAssumption`: the margin lies inside the queue; the tags of the queue's
  entries are not themselves writes.
* `OneeAssumption`: confirmation and grace are not zero.
* `FilesAssumption`: a missing or cut file is not a set of settings.
* `ClocksAssumption` (`MCPsram`): the queue has an entry, and a cycle of the Apple is
  longer than the 124 clocks up to its `data_en`; the strobes, the window and the
  tapes are those of the hardware.
* `GenAssumption`, `HalfAssumption`: the generation and the sequence have more
  values than one protocol step uses.

### 4.5 What remains

Some of what is proved no run checks, because a deeper property is checked in its
place: the type invariants, `Unambiguous`, `NeverLost`, `HeaderLast`, `Renamed`,
`TrialFirst`, `BootBinRetired`, `Honest`, `Reserved`, `LossesAnnounced`,
`PatchedLineCurrent`, the combined models' `ThreeRecords` and `BothLives`, and
that the slot of a held frame stays reserved (a part of `FbHandoffProofs!IInv`).

Only model-checked: all liveness properties and fairness (outside the prover's
reach: `LatestFrameShown`, `RepairResumes`, `StartsFirmware`, `CommandEnds`,
`EverythingArrives`, `AccessAnswered`, `OffReachesCard`, `LatestDrawn`,
`EthernetComesBack`). Every safety property that a passing run checks is a theorem.
No module declares a RECURSIVE operator.

## 5. Not modelled

Pixel computation, sound, instruction sets, USB and TCP stacks, file systems and
signal timing: either data rather than control, or third-party code, or I/O with
no protocol of its own. Contents of images and their CRCs are abstracted to
equality. `PROJECT.json` gives the reason for each component.

The models cover a small share of the repository's lines, because most of those
lines are of such kinds: `disk2_sound_samples.c` (26 000 lines) and other tables
are data, `lodepng.c` and what lies under `validation/` are other people's
programs, and `config_menu.c` (10 000 lines), `uart_control.c` and the printer
and screenshot services lay out text and pixels in one thread. What can be wrong
there is a value, not an order of events, and a model would repeat the code line
by line. What is left of a protocol among several actors, and is not modelled:
the mailboxes of the SmartPort, the re-entrancy of the USB poll, the Disk II
track cache under a drive that is stepped, RES# in the capture path, and the
Xmodem receiver.

## 6. Plan

What a continuation would do, in order:

1. `SmartPort` (`frontend/smartport_service.c`, `hdl/apple/smartport_card.sv`):
   capture of a command, its execution in the loop, and the answer the Apple polls.
2. Disk II: the dirty track against stepping, eject, and the flush.
3. RES# in `CycleRing` and `CycleFrames`.
