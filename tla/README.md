# Tab5Dos: specifications, model checking and proofs

Tab5Dos runs DOS on an M5Stack Tab5: an interpreter for the 8086, a BIOS written
in C++ that answers software interrupts, models of the PC's devices, disk images
on an SD card, and FreeRTOS tasks that run the machine and connect it to a USB
keyboard, a touch panel, a display and a speaker. This directory specifies the
parts of it whose correctness depends on the order of events, and the processor
and display logic on which every guest program depends. Each module is
translated from the C++ under `src/`; `PROJECT.json` gives, for every definition,
the lines it models.

Paths below are short: `pc_*` files are in `src/components/tabdos_pc/pc/`, the
others in `src/main/`.

## 1. Inventory

Three tasks touch the machine: `cpuTask` runs slices of `stepCpu` holding
`app->mutex`; the USB task and the touch task deliver input under the same mutex;
the display task copies the screen under it. So interleaving happens *between
slices* for input, and *between instructions* for interrupts and guest code.

| Component | State | Operations | Hard behaviour | What makes it correct |
|---|---|---|---|---|
| EMS manager (`pc_machine.cpp` 3216-3559) | page owners, handles, page frame with cached pool pages, saved maps, window flag in the CPU | INT 67h 40h-4Dh, 58h; reads and writes at E000:0 | stale caches and saved maps after releases and re-use of handle numbers; pool exhausted; fragmented pool | every open handle has private pages; a slot never shows a page its handle lost; a restored map shows what was saved |
| Keyboard controller (`pc_keyboard_controller.cpp`) | command byte, disable flag, code set, expected parameter, last and deferred report, byte queue, interrupt line | ports 60h/64h, HID report, disconnect, acknowledge, reset | reports while disabled, code-set changes between press and release, queue overflow inside a code, line recomputed by hand | what the guest reads decodes to the keys reported; the line follows the queue |
| Keyboard interrupt delivery (`pc_machine.cpp` 1046-1071, `pc_i8086.cpp` `step`, `pc_bios.cpp` INT 09h, 16h, 79h) | pending slot, interrupt flag, halt, in-service flag, INT 09h vector, BDA ring, shadow key | `stepCpu`, INT 09h, guest handlers, INT 16h, EOI | the vector changes between acceptance and delivery; timer and keyboard share one slot; chaining and complete handlers cannot be told apart | keys in order, none twice, losses explained, no starvation |
| Disk write-back (`pc_disk_image.cpp`, `flushDisks`, `cpuTask`) | file, dirty flag, write counters, next flush time | INT 13h 03h/43h, flush, slice end | failed or partial writes, failed `fsync`, power loss before the flush | an acknowledged write is on the card within one interval |
| Disk geometry and catalog (`pc_disk_image.cpp` 119-170, `pc_disk_catalog.cpp`) | none | CHS to LBA, geometry detection, ordering and choice of images | zero and boundary values | the mapping is one-to-one inside the image |
| CPU (`pc_i8086.cpp`) | registers, flags, prefix counts, pending slot, halt and trap state | about 70 decoded opcode groups; `step`; `pc_interrupt` | two implementations of the short forms; length tables; words that straddle the EMS window; prefixes, faults and traps that interrupts fall between | results, flags and lengths as the processor's; an interrupt falls between instructions and is invisible to the program |
| PIT and timer interrupt (`pc_machine.cpp` 866-1043) | three channels: mode, latch, byte phase, reload; next tick time | ports 40h-43h, 61h; `serviceTimerInterrupt` | latch and byte phase shared by reads and writes; falling behind | a latched count is read whole; no storm of ticks |
| VGA, CGA, Hercules (`pc_machine.cpp` 359-740, 1098-1160, 1249-1320, 1393-1569, 1654-2890) | attribute flip-flop, DAC index and phase, CRTC, sequencer, graphics controller, latches, planes, the renderer's settings | ports 3B0h-3DFh, video memory, drawing of lines | index/data protocols shared by reads and writes; settings copied to the renderer by hand; four addressings of one memory | the renderer draws what the registers say; a byte written reaches the pixels a VGA gives it |
| BIOS video (`pc_bios.cpp`) | BIOS data area, page, palette switches | INT 10h | drives the same ports as the guest, in the middle of the guest's sequences; save and restore; pixel addresses computed apart from the renderer's | no service disturbs a port sequence; a restored state is the saved one; the page selected is the page shown |
| Mouse driver (`pc_bios.cpp` 643-793, 2363-2515) | position, buttons, counters, event mask, pending callback | touch events, INT 33h, far call into the guest | the callback is delivered later, in the middle of whatever runs; events merge; the mask and handler change meanwhile | the guest can follow the buttons by callback or by polling; the pointer stays in its range; a halted CPU survives a callback |
| BIOS waits and time (`pc_bios.cpp`, INT 15h AH=86h, INT 1Ah) | eight wait slots | start, poll, expire | the slot table at its limit | a wait ends, and not early |
| OPL2 (`pc_opl2.cpp`) | registers, envelopes | ports 388h/389h, mixing | samples are arithmetic | not state protocol |
| Renderer (`pc_text_renderer.cpp`, fonts, cursor overlay) | settings: rows, columns, cell, palette, cursor | setters, draw | the settings are copies | they follow the registers; the rest is pixels |
| Tasks (`main.cpp`) | screenshot flags and frame, the touch loop's memory of the finger | `cpuTask`, `displayTask`, `screenshotTask`, `touchMouseTask` | three tasks hand one frame over with atomics | a frame is not overwritten while it is written out; a touch is keys or a click |
| Synthetic keys (`main.cpp` 385-420) | ring of 32 taps, hold and gap timers | touch gesture, service | taps and USB reports are both whole-keyboard reports | every accepted tap is pressed, then released, and leaves nothing pressed |
| USB host (`tab5_usb_keyboard.cpp`) | event queue of 8 | connect, report, disconnect | the queue drops events when full | a connected keyboard is opened |
| LCD, log, speaker, host tool | buffers | output | none | - |

Interactions. A HID report enters the controller, which queues bytes and raises
its line; `stepCpu` turns the line into a pending INT 09h; the CPU takes it when
interrupts are on; the BIOS or a guest handler reads port 60h; keys end in the BDA
ring; INT 16h hands them to the program. The touch task feeds the same controller
(synthetic keys) and the mouse driver. INT 13h writes image files and counts
writes; `cpuTask` compares the count after each slice and flushes. INT 67h changes
the page frame and tells the CPU whether to redirect it.

## 2. Modules

| Module | Models |
|---|---|
| `Ems` | the EMS manager: one action per INT 67h function that changes state (43h `AllocatePages`, 44h `MapPage`, 45h `ReleaseHandle`, 47h `SavePageMap`, 48h `RestorePageMap`), and guest writes through the frame |
| `EmsAbstract` | what it promises: private page arrays |
| `EmsRefinement` | the refinement mapping from `Ems` to `EmsAbstract` |
| `EmsContext` | `Ems` with a history variable for saved maps |
| `KeyboardController` | the 8042: every port command, reports, disconnect, acknowledge, reset |
| `KeyboardGuest` | the controller composed with a guest's scancode decoder and the keys really held |
| `KeyDelivery` | `stepCpu`, the pending slot, INT 09h and 79h, the shadow key, the ring, INT 16h, and a guest that hooks the vector |
| `DiskWriteBack` | INT 13h writes, the dirty flags, the flush check, card errors, power loss |
| `Screenshot` | the three atomic flags and the frame shared by the display, screenshot and touch tasks |
| `SyntheticKeys` | the ring of taps, its timers, and the USB reports that share the controller |
| `TouchTask` | `touchMouseTask`'s loop, composed with the two modules above and the other tasks |
| `CpuReference` | the reference: one-bit-at-a-time arithmetic, decimal digits, the lengths and operands of the 80186's opcode map |
| `CpuArithmetic` | arithmetic, flags, shifts, products, quotients, decimal adjustment; both implementations of the register-only forms; conditional jumps |
| `CpuInstructions` | decoding (lengths, operand addresses, immediates), where a byte, word or fetch lives, string instructions and what they leave in one go |
| `CpuControl` | `step`: trap, request, prefixes, inhibited instructions; `pc_interrupt`, faults, stack, flow, HLT; the guest's program is a constant |
| `VgaRegisters` | video port writes and reads, the register masks, the palette, and the settings the renderer keeps |
| `VideoBios` | `setVideoMode` and INT 10h: modes, pages, cursor, colours, switches, save and restore |
| `VgaDisplay` | video memory: planes, latches, write modes, chain-4, odd/even, CGA and Hercules; the pixel services and the line renderers |
| `Video` | the three composed with a guest |
| `MouseDriver` | the fields of the mouse driver, and what touches, INT 33h and a callback do to them |
| `MouseEvents` | touches, every call of INT 33h that changes that state, and callbacks, in any order |
| `MouseCallback` | `CpuControl` and `MouseDriver` composed as `stepCpu` does: the callback is called before each step |
| `EmsProofs`, `KeyboardProofs`, `KeyDeliveryProofs`, `DiskProofs`, `TouchProofs` (with the mouse driver), `CpuProofs`, `VideoProofs` | theorems and proofs |
| `SequenceInduction` | lemmas for them: induction stated for sets of numbers, and what it gives for flattened sequences |
| `MC*` | values of the constants for TLC |

Each module also holds a few definitions with a suffix (`Store_...`,
`RefreshWindow_OnlyOpens`, ...): variants with one plausible mistake. They are
used by nothing in the specification; `PROJECT.json` pairs each with the property
that TLC reports violated when the mistake replaces the real definition.

### State and actions against the code

**EMS.** `owner`, `active`, `pageCount`, `physName`, `physPool`, `saved` are the
`m_ems...` arrays; `windowActive` is the CPU's `s_emsActive`. A page's 16 KiB are
one abstract value. Pages of a handle are the owned indices in increasing order,
as `emsLogicalToPool` counts them (`Rank`). A call with a bad argument is part of
its action and changes nothing (`Fail`). The query functions only read.

**Keyboard controller.** A report is a set of modifiers and a set of at most
`MaxKeys` keys; its bytes are records (prefix, code, up or down), produced in the
source's order and dropped one at a time when the queue is full. Replies (FAh,
self-test results, ids) are one value: nothing depends on which reply it is. LEDs
are left out: no component reads them. Keys may share a code, as the navigation and
keypad keys, keypad / and * do in set 1 and usages 31h and 32h in both sets
(`pc_keyboard_controller.cpp` 278-279, 292-319, 352-353). The controller sends the
codes of each on its own, so a guest cannot tell such keys apart: with Home and
keypad 7 held, letting go of one tells it that both are up, and a report that swaps
them (presses go out before releases) leaves it with neither. `KeyboardGuest` keeps
in `eclipsed` the keys whose code another key used after they were themselves
pressed or released; the guest is right about all others, Home and keypad 7 too as
long as they are used one at a time.

**Keyboard delivery.** `stepCpu` is three steps, because guest-visible state is
read at different places of it: `Offer` (timer, then the keyboard's request),
`Take` (the CPU takes the pending interrupt), `Execute` (one instruction). CLI and
STI continue with the next instruction (`"inhibited"`), as in `step`. A key is one
byte that translates to a key; `NoKey` is a byte that does not (a release, a
prefix, a shift). The controller is reduced to "line up exactly when the queue is
not empty"; `LineHonest` and `OnlyCommandByteSilences` are the two halves of that
in `KeyboardController`, for a guest that leaves the controller's interrupt bit on.
The guest is an environment with stated habits: a handler reads
port 60h or chains (INT 79h), completes the interrupt (by EOI or by chaining)
and returns; one that fills the ring itself does so with interrupts off and
before its EOI. Reports arrive between steps, as the mutex makes them. The guest's
vector is either the BIOS's or one handler.

**Disk.** `file` is what the program reads and writes back, `card` what survives
power loss. `age` and `torn` are history: how long ago an acknowledged, unsynced
write happened, and which sectors a failed write may have left. `uncounted` is
`diskWriteCount != flushedDiskWriteCount`; `wait` is the time left to
`nextDiskFlush`, 0 when reached. `stranded` marks images whose last `fsync`
failed. A slice lasts 1 to `MaxSlice` ticks. After power loss each unsynced sector
has its old or its new contents. The model's clock does not wrap: `cpuTask`
compares ticks with `>=`, so a wrapped tick counter (497 days at 100 Hz) is outside it.

**Screenshot.** `requested`, `ready`, `busy` are the atomics; `display`, `dumper`
and `touch` say where each task is. `memcpy` into the frame and the dump out of it
are not atomic: each is a step for the top and for the bottom, and the size is
written after the pixels and read before them, as in the source. A picture's size
is part of its value, so a top, bottom or size of different pictures shows. The
claim of the busy flag and the request that follows are two steps. The frame's
allocation succeeded (else `screenshotTask` and the gesture are off), and no mode
is larger than the frame (640x480).

**Synthetic keys and touch.** `releaseIn` and `pressIn` are the times left to the
two deadlines, counted in polls; a poll comes 1 to `MaxLate` after the one before.
`reported` is the report the controller got last, from a tap or from USB. `point`
is what the finger is on; a read error counts as no finger, as in the code. Which
taps a menu item types is `ItemTaps`: the scan of the screen text is data. One
poll is two steps, before and under the mutex. `touched` is history. The clock does not
wrap: `tickReached` compares signed differences, so a deadline more than 2^31
ticks old (248 days at 100 Hz) reads as not reached.

**CPU arithmetic and decoding.** `CpuArithmetic` and `CpuInstructions` are pure: an
action picks an instruction and operands and leaves operands and result in `done`
for the invariants to compare with `CpuReference`. The reference never uses the
code's method: the code computes a rotate through carry with two shifts, the
reference one bit at a time; the code adds four tables to get a length, the reference
lists the opcode map. Widths are the code's, 8 and 16, with wrap-around. Memory is
a small address space with the same regions in the same order; MCCpu's regions are
wider than an instruction fetch.

**CPU control.** A program is a constant, one record per byte. `phase` separates
the head of `step`, where interrupts are looked at, from its loop. `frames`,
`start` and `recent` are history. An instruction's computation is left to the
modules above, so MOV, ADD and LOAD stand for all that only change registers.
Stack pointers count words. A device asks when the slot is free. A guest that
leaves its code, or its stack's words, leaves the model (`Inside`): TLC, which
looks for deadlock, shows that the program checked never does.

**Video.** `vga` is a record of registers with the text renderer's settings
(`text`) and the BIOS data area (`bda`) in it, `bios` the members of `PcBios`.
Each port, each INT 10h service and each access to video memory is one action, as
each is one C++ call from the CPU. `memory` is a function of the bytes that differ
from zero: `<<plane, offset>>` with plane 4 for flat memory. A mode set fills the
text screen with spaces; only those that a CGA mode would show at a sample dot are
kept (`Kept`). A guest is a `deck` of the accesses it makes and their arguments,
chosen in the initial state; `DecksAssumption` says what such a guest may be: it
starts in a BIOS mode, with any writes that do not change the mode, and then writes any bytes to any ports the
adapter has and calls the services with the arguments of `Legal`. The bitwise operators
are written with `\div` and `%` (`And`, `Or`, `Xor`). Every register has its full width, and the palette
its 256 entries of three 6-bit values.

**Mouse.** The event mask is a set. One axis stands for the two, which do not meet,
and the range is that of AX=0007h. `known`, `balance` and `saturated` are history. In
`MouseCallback` the guest's INT 33h is AX=000Ch with constant arguments; the registers
the handler is given are one value; handlers and the stack are in RAM.

## 3. Runs

| Run | Instance | Shows |
|---|---|---|
| `ems` | 2 pages, 2 handles, 2 slots, 2 values (symmetric) | `PageAccounting`, `FrameCoherent`, `WindowFollowsMap`: ownership, slots and the CPU's flag agree through every order of calls. `SavedContextStable`, `RestoreShowsSavedPages`: a saved map shows the same pool pages when restored, until a handle it names is released. `GuestSeesPrivatePages`: `Ems` implements `EmsAbstract` |
| `ems_cache` | as `ems` | `CacheExact` is violated (finding 1) |
| `keyboard` | two keys with one code in set 1, at most both in a report, queue of 4, both code sets, 2 command bytes | `GuestSeesReportedKeys`: the guest's decoder ends with the keys reported; `NewestReportKept`, `DeferredOnlyWhileDisabled`: the deferred report; `DisabledAgrees`: two copies of the flag; `LineHonest`, `OnlyCommandByteSilences`: the line, also after the queue was full |
| `key_delivery` | 2 keys, 1 stuffed key, queue 2, ring of 3, timer every 2 steps, 2 nested handlers | `KeysInOrder`, `LossExplained`, `OrphanedByVectorOnly`, `KeyboardServed` |
| `key_once` | 2 keys, ring of 4, 1 handler | `OneEntryPerKey` is violated (finding 2) |
| `disk` | 2 drives (one immediate, one deferred), 2 sectors, 2 contents, interval 3, slices of 1-2, 2 errors | `DirtyCoversWrites`, `FlushScheduled`, `SyncedWithinInterval`, `CardHoldsTheRest`, `DirtyIsTried` |
| `disk_retry` | 1 drive, 1 error | `DirtyIsSynced` is violated (finding 3) |
| `touch` | 2 pictures, a corner hold of 1 poll, one key, items of 2 taps, ring of 2, hold 2, gap 1, polls 1-2 apart | `WholeFrame`, `RequestAnswered`: a screenshot is one picture with its size, and the busy flag always comes down. `IdleReleases`, `TapsTyped`: no key stays pressed between taps; every pressed tap is released and waiting taps get their turn. `TouchIsKeysOrMouse`: a touch that typed does not click, but for the two stated excuses |
| `cpu` | boundary operands of both widths, shift counts to 31, every opcode, segments of 4 cells | `ArithmeticAgrees`, `DecodeAgrees`, `MemoryAgrees`, `StringsAgree` |
| `cpu_control` | one program of 100 bytes with handlers, 2 requests | `BoundariesKept`: a prefix holds for its own instruction, and a stack switch is not interrupted. `InterruptsTransparent`: IRET finds registers, flags and stack as they were, at the next instruction or at the first prefix of the one that faulted. `TracedOnce`: one instruction per single-step trap. `RequestTaken` |
| `video` | 12 guests of 3 to 8 accesses | `RendererCoherent`, `PixelsShown`, `BytesReachPixels`, `StateKept` |
| `mouse_callback` | a program that waits in HLT, a handler of 3 instructions, 2 touches, 1 request | `WakesPastHlt` is violated (finding 4) |

Why these bounds. *EMS*: two pages and two handles are the least with which a
page changes owner, an allocation fails for want of pages or of handles, the pool
is fragmented, and one handle's saved map names the other; the theorems remove the
bound for the invariants. *Keyboard*: Home
and keypad 7, both in one report or swapped by one, have one code in set 1 and are
told apart by the E0 prefix alone in set 2, so a lost or misplaced prefix turns one
into the other; the longest code has three bytes (E0 F0 code), so a queue of 4 holds
one and also fills inside a code. Two CONSTRAINTs keep the run small. Once the queue
has been full the guest believes nothing that could be wrong, and the run goes on
with Home alone (`OneKeyWhenLost`): the flags, the line and the kept report do not
depend on which keys are held. And it goes no further where one key is forgotten in
silence while another is eclipsed (`OneExceptionAtATime`): the property claims least
there. For its size too it has no modifiers, which go through the same `Emit`. The
theorems on all seven properties have none of these bounds.
*Delivery*: two keys order and overtake
one another, the stuffed key moves the tail between them, a ring of 3 slots holds
two keys and so fills, and two nested handlers interrupt one another; a timer look
every 2 steps is the densest with which a request of the keyboard can still find
the slot free (the source has 1024). *Disk*: with slices of 1 and 2 ticks and an
interval of 3 the flush time is both hit and overshot; two errors hit both images
or one twice; two drives have one of them fail while the other syncs. *Touch*: two
pictures are the least that a torn frame can mix; a ring of two lets an item of
two taps fit, fit in part or not at all; a hold of 2 with polls 1 or 2 apart is
both met exactly and overshot; the one key is also on the USB keyboard, so a tap
meets reports of its own key. *CPU*: the operands lie on both sides of
every carry, half carry, sign and overflow; an address space with ordinary memory
on both sides of each region has every edge; two requests nest. *Video*: two
writes make an index/data pair, one access more disturbs it; each guest starts
where its hazard is near, so three steps reach it, and a fourth sees the restore.
The guests together use every port, service, mode class and write mode; properties
are evaluated at five dots: the corner, both banks, a second byte, a line
below the splits.

Fairness. `key_delivery` assumes weak fairness of `StepCpu`, `disk` of `Slice`:
`cpuTask` is an endless loop whose body always ends, so a next step always comes.
`touch` assumes weak fairness of each task's
loop, `touchMouseTask`, `displayTask` and `screenshotTask`, for the same reason (a
low priority delays `screenshotTask`, every other task sleeps in each round).
`cpu_control` assumes weak fairness of `Step`, `mouse_callback` of `StepCpu`, for
the first reason.
Nothing is assumed of the guest, of input or of the card. `KeyboardServed` is
conditional on a guest that from some point on keeps interrupts enabled or is in a
handler, and on the interrupt not being orphaned (see below): a guest that turns
interrupts off for ever is not served, nor should be.

## 4. Findings

1. *Cached page and name disagree* (`ems_cache`; `pc_machine.h` 339). 48h writes
   the saved names into the slots even when a name's handle was released since. The
   slot keeps the name with pool page -1; when 43h re-uses the number the name
   resolves to a page, the cache still says -1. The guest sees an unmapped slot,
   which `FrameCoherent` allows; the comment's "cached pool page per slot" is what fails.
2. *A shadowed key is dropped* (`key_once`; `pc_bios.cpp` 851-858). A handler reads
   key A and chains while key B waits: the BIOS entry fetches B and moves the
   ring's tail, so `flushShadowKey` believes the handler stored A itself. The
   comment at 840-841 promises one entry per key for both styles. `LossExplained`
   shows that this and a full ring are the only ways to lose a key.
3. *A failed flush is not retried* (`disk_retry`; `main.cpp` 749). The counters
   advance whether or not `flushDisks` succeeded; if the guest writes no more the
   image stays dirty for ever, against README.md:115. `DirtyIsTried` and
   `SyncedWithinInterval` state what does hold.
4. *A callback in HLT loses a byte* (`mouse_callback`; `pc_bios.cpp` 761).
   `dispatchMouseCallback` moves CS:IP to the guest's handler and leaves the CPU
   halted. If an interrupt arrives before the handler has returned, `pc_interrupt` "goes to
   next instruction after HLT" (`pc_i8086.cpp` 881): it adds one to an IP that is
   inside the handler, which resumes one byte too far.

Facts of the code worth knowing, not counted as findings: after a USB disconnect
or a keyboard command F5h, F6h or FFh with keys held, the guest may keep seeing
them held (`orphans` in `KeyboardGuest`); an INT 09h may be delivered with nothing
to read; `stepCpu` decides who owns the interrupt from the vector at acceptance,
so a vector given back before delivery leaves `m_keyboardIrqInService` set until
the next EOI (`OrphanedByVectorOnly` says that is the only way); a write that failed
part of the way has changed the image but neither marks it dirty nor counts; the
release of a tap, an empty report, also releases keys held on the USB keyboard,
and a USB report in the middle of a tap replaces it; a menu title's tap is lost
silently when the ring is full; `suppressMouseButtonUntilRelease` is cleared when
the finger slides off the picture, so a touch that typed can still click when it
slides back (the second excuse in `touched`; the first is an item whose taps did
not all fit).

*Mouse.* The callback is also called between a prefix and its instruction, so that
the handler's first instruction runs under the prefix and the guest's without; it
is called again while it runs, and with interrupts off; and AX, BX, CX, DX, SI and DI
of the interrupted program are overwritten and not restored when the handler returns.

*CPU.* The models reproduce these, and the properties except them where they
speak of them: SAR by 0 clears OF though the comment by the shifts
says a count of zero changes nothing; ROL and ROR by a multiple of the width keep CF; immediate
counts of 32 and more are not masked; a word that straddles an edge of the video
memory is not split; the return address of a BOUND fault is behind its prefixes,
that of a divide fault before them, found by walking back over anything that looks
like a prefix; no request is taken while TF is set; between a prefixed instruction
and the next no interrupt or trap is looked for, so a prefixed POPF or IRET that
sets TF is traced one instruction late; a size or LOCK prefix between a
segment prefix and its instruction uses the override up (the comment at
`pc_i8086.cpp` 1060-1063 calls it harmless), and one between MOV SS and the load of
SP lets an interrupt in.

*Video.* Left out of the properties, or excepted in their comments: INT 10h AH=02h
never writes CRTC 0Eh/0Fh, so a font load or a start-address write moves the drawn
cursor to the CRTC's; a text mode set leaves CRTC 09h while the renderer goes to
16-line cells; a restore in mode 7, like AH=12h BL=32h, overwrites 0463h through the
write to 3C2h; 0484h, 0485h, 0465h, 0466h and the Hercules registers are not saved,
so rows and cell may disagree after a restore, and AH=02h, which goes by 0484h, may
then put the visible cursor below the renderer's last row (`pc_bios.cpp` 1794-1884,
2943-2977; `pc_machine.cpp` 487-489); `updateVisibleCursor` tests for 25 rows
(`pc_machine.cpp` 512), so a cursor the CRTC puts at row 25 or beyond is hidden on a
50-row screen too; services leave their own CRTC
and sequencer index behind; a mode switch by port 3B8h or 3D8h, or a partial
restore, leaves the renderer's settings as they were and `PcBios`'s page out of step
with 0462h; page 7 of 80x50 text falls back to page 0; AH=05h in text takes
the CRTC to count words; in graphics modes it does not load the new page's cursor;
a graphics mode set leaves the blink setting on with bit 3 clear; a mode the BIOS
does not know returns after `m_dacColorPageMode` was cleared and, with palette loading off,
after reading the palette, so the guest's place in the DAC sequence is lost (not modelled:
`DecksAssumption` has the modes that exist).

## 5. Proofs

All theorems hold for every value of the constants that satisfies the named
assumptions of the modules (positive sizes, the string segment's among them; a ring and
a timer period of at least
2; a context marker that is not a page map; a scancode table that gives every key
and modifier a code; operands that fit their width, counts up to 31 and
decimal numbers up to 99; video memory below the EMS window and the window below
the top of memory; in the refinement, a mark of a closed
handle and of an unmapped slot that no page array and no page equals).

* **EMS.** `TypeCorrect`, then `AccountingCorrect`, `FrameNeverStale`,
  `WindowCorrect` from
  `EmsInv == TypeOK /\ PageAccounting /\ FrameCoherent /\ WindowFollowsMap`.
  `FrameCoherent` is not inductive alone: that a mapped slot still resolves after
  an allocation needs that the handle's pages are untouched, which needs the
  accounting. The argument about "the l-th page of a handle" rests on lemmas on
  `Rank` (it is injective, onto 0..n-1, and the first n elements by rank are n),
  proved from the library's facts on finite sets.
  `SavedMapsStayGood` and the action property `RestoreIsFaithful` from `ContextInv`:
  `EmsInv`, the types of the history variable, and that a saved map belongs to an
  open handle. That the pages of a saved map stay the pages they were rests on
  `SamePages`: while a handle is open no other call changes who owns its pages, so
  ranks are unchanged.
  `PagesArePrivate` is the refinement: `EmsAbstract`'s initial state, and for every
  call the abstract call it maps to, or a stutter. What makes the pages private is
  that (handle, rank) to physical page is injective, so the write through a slot
  changes one abstract page; allocation and release change no other handle's ranks.
* **Keyboard controller.** `DisableCorrect`, `DeferredCorrect`,
  `InterruptCorrect`, and the action property `SilenceCorrect`, from `FlagsInv`
  (the three invariants and the type of the command byte); these four do not depend
  on the queue's size or on the scancode tables. `TypeCorrect` adds the reports and
  the queue's bytes. `GuestCorrect` rests on `Sees`, which is stronger than
  `GuestSeesReportedKeys` in that it names the decoder's whole state: reading the
  queue takes it to a set of keys that is right but for the eclipsed ones, and to no
  half-read code. It is preserved because a decoder that reads the codes of a key
  changes that key and its look-alikes only (`KeyRead`, from `KeysOfCode`), so that
  reading what `Transitions` emits presses the look-alikes of the keys pressed and
  drops those of the keys let go (`EmitRead`, `TransitionsRead`), which is right for
  every key not eclipsed by the step (`ReplacedRight`), and because
  a byte read from the head of the queue and a code added at its end compose
  (`DecodedConcat`). `NewestCorrect` needs types only.
* **Delivery.** `OrphansExplained` (an action property) from `SeqInv`, the types
  of the queue, the handler stack and the pressed count: one lemma per group of steps
  says what it does to the stack. `DeliveryTypes` adds the control variables.
  `OrderCorrect` from `OrderInv`: the line of keys the program took followed by
  those in the ring is in order, every key of it came before every key still in
  the controller, and the shadowed key lies between the two as long as it counts,
  that is, while the tail is where it was when the key was shadowed. Two facts make this
  inductive. `Tracks`: the tail is ahead of that place by at most the keys in the
  ring, which a full ring keeps below its size, so it cannot come round and make a stale
  shadow count again. `PendingIsShadow`: a handler that may still fill the ring holds the
  shadowed key and nothing was stored since, because interrupts have been off from
  its start; so whether it or the BIOS stores that key, it is stored once.
  `LossesExplained` (an action property) follows each step that moves a key, from the same
  invariant.
* **Disk.** `DiskTypes`, `DirtyFlagCorrect`, `FlushIsScheduled`, `SyncIsTimely`, `CardCorrect`
  from `DiskInv`, which adds two facts to the four: `OnTime` (an unsynced write's
  age plus the time left never exceeds the interval) and `ImmediateIsClean` (an
  immediate image has no acknowledged unsynced write). `SyncedWithinInterval`
  is not inductive without `OnTime`.
* **Touch.** `ScreenshotIsWhole` from `ShotInv`: `OneToken` says that the busy flag
  is a token in exactly one place at a time (claimed by the touch task, in
  `requested`, with the copy, in `ready`, with the dump), and `FrameProgress` how
  much of the frame each stage has filled or read. `WholeFrame` speaks of the end
  only and is far from inductive. `TapsLeaveNothingPressed` is inductive as it
  stands; `TouchEitherTypesOrClicks` from `KeysInv`, which adds that a touch
  without an excuse is still on the picture with the flag set. `TouchTypes` proves
  the types, the length of the ring of taps among them.
* **CPU control.** `BoundariesHold` from `DecoderInv`: both prefix counts stay within 2, `start`
  is not behind the instruction pointer, and only prefixes move them apart; each
  other instruction, and each interrupt, leaves counts of at most 1 and starts afresh
  (`FreshStart`). The program and the vectors are any. `TracesAdvance` (an action property) from
  `TraceInv`, which says where in the loop the count of instructions since the last trap is 0 and
  where 1, with the first trap inhibited and without. It assumes `TracingStartsPlain`: no
  prefixed POPF or IRET turns tracing on. Without it the property is false of the code
  (section 4, *CPU*); the program of `cpu_control` keeps to it.
* **CPU instructions.** All four properties of run `cpu`, each for every value of the constants
  where the run has samples. There is no state between instructions, so no invariant to find:
  each action establishes the property of what it executed, and the work is arithmetic.
  `MemoryCorrect`: the homes of the bytes of a word, a fetch and a block, by cases
  on which edge of video memory, EMS window or memory an access crosses.
  `DecodeCorrect`: the lengths by opcode ranges (`LengthAgrees`) and the eight rows of the
  addressing table (`OperandAgrees`).
  `ArithmeticCorrect`: a word is the sum of its bits (`And`, `Or`, `Xor` and the parity
  table are those of bits), so a flag read from an exclusive or of operands and result is the carry
  or the overflow of the sum; products and quotients of truncated and sign-extended
  operands are those of integers; decimal adjustments are those of digits. The shifts are the longest
  part: the code moves by n in one expression, the reference by one bit n times. Both are
  brought to one closed form by cutting a word into the bits that stay and
  those that leave (by powers of two), and a rotate is a turn of w or, through CF, w + 1
  places, so that counts above the width are reduced.
  `StringsCorrect`: the loops, which the model has as recursive functions, are brought to the state
  after i steps in closed form, by induction on i (`SameRuns`): `Place` and `StepsTo` are inverse
  to each other on a segment, so the first n places written are those at fewer than n
  steps. A copy onto itself reads behind its own writes: the source of step k was written
  at step k - gap, if at all (`Behind`), so it holds what the step k modulo gap
  read (`SourceRead`). A search ends at the least comparison that contradicts its prefix.
* **Mouse.** `ButtonsFollowed`, `ClicksAddUp`, `PointerStays` and `MouseTypes`, for any
  number of buttons and a touched picture of more than one point, from `MouseInv`. `ButtonsKnown` speaks
  of a handler that asked for the button events; what is inductive is `PictureDue`,
  that where the guest is wrong the event is waiting whether asked for or not,
  since masks and handlers change. `ScaledBound` bounds the scaling of a
  touch to the guest's range. These are proved only: no run repeats them.
* **Video.** `RendererCurrent`, for every guest that satisfies `DecksAssumption`: any
  number of port writes and service calls, not the 3 to 8 of the run. `RendererCoherent` is far from
  inductive: it says nothing in a graphics mode, nor after a mode change through a
  port, and a mode set must make it true from there. `VideoInv` divides the copies in two.
  `Steady` holds throughout: the registers' types, and the copies that every
  mode change leaves current (line graphics, nine dots, panning, display, font, underline, cursor
  shape), whatever the mode. `Current` (colours, blink, columns, the cursor's place) holds in text until the guest
  changes the mode by port or restores a state in part, and `RowsHeld` until it restores any, since
  a saved state has neither field. A snapshot has values that can be restored (`SavedTyped`).
  `Keeps(v, w)` says that going from adapter v to w loses none of the three; it is
  transitive, one lemma per port shows it of that port, and a
  service, being a sequence of port writes, composes them. The place of the cursor is the
  exception: a page change rewrites the CRTC's start before the page's cursor is shown, and a font load
  changes the rows between two placings, so there `KeepsCopies` leaves the place out and `Replaced`
  recovers it from the last step. What must make copies
  current from nothing (a mode set, the registers and data of a restore) has lemmas of its own,
  which end in `Fresh` or `Current`.

Only model-checked: the liveness properties (`KeyboardServed`, `DirtyIsTried`,
`RequestAnswered`, `TapsTyped`, `RequestTaken`), which are out of the prover's reach;
`InterruptsTransparent`, which depends on what a program's handlers do;
`PixelsShown`, `BytesReachPixels` and `StateKept`, which compare whole registers and
addresses bit by bit, not only what a step loses.

What the library defines by recursion (`FoldLeft`, `FlattenSeq`) is reached by
induction on positions of a sequence. The library's induction theorems take an operator, which the
provers cannot instantiate; `SequenceInduction` states induction for a set
of numbers instead, from the well-founded order of the natural numbers.

## 6. What is left out

* *Instructions that are one assignment* (LAHF, SAHF, XCHG, XLAT, LEA, LDS, LES,
  single-byte IN and OUT): decoded in `CpuInstructions`, not executed.
* *Character output*: INT 10h AH=06h-0Ah, 0Eh and 13h, fonts and their
  planes, glyph drawing, the cursor overlay: text content and pixels.
* *Retrace and status bits*, the counting of the PIT, INT 15h AH=86h waits and INT 1Ah: arithmetic on
  the host's microseconds. `KeyDelivery` lets the timer fire at any of its
  looks instead, which includes every catch-up.
* *The mouse cursor* and where a button was pressed last: pixels and values that
  nothing else reads. INT 33h calls that return constants.
* *Disk geometry and catalog*: pure functions of a file's length and of names,
  called once at mount.
* *OPL2*: floating-point signal processing. *LCD, speaker, log, serial and
  printer stubs, host tool*: output or constant replies.
* *USB connection queue*: a FreeRTOS queue filled by the USB library; neither is in `src/`.
