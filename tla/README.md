# TLA+ verification of the CH32V3x DFU bootloader

The bootloader has two stages. Stage 1 (`src/src_stage1`) runs at every reset
and decides between the application and the DFU mode. Stage 2
(`src/src_stage2`) is a USB DfuSe device: it takes commands and blocks over the
control endpoint and erases, programs and compares the flash. Both are single
threaded, have one interrupt (the 1 ms tick) and poll everything else. What
makes them hard is around them: a host that gives up, repeats or starts again, a
bus that loses packets, a flash that fails, and a supply that ends anywhere.

## 1. The parts of the system

| Part | Source | State | Operations | What makes it correct |
|---|---|---|---|---|
| DFU machine | `dfu.cpp` | `state`, `status`, `dfu_address`, `dfu_block_num`, `flash_end` | `dfu_handle_request` (DETACH, DNLOAD, UPLOAD, GETSTATUS, CLRSTATUS, GETSTATE, ABORT), `dfu_handle_data` (SET_ADDRESS, ERASE_PAGE, firmware block), the main loop's tests and reset | the bootloader is never changed; OK means what it says and stays true; bState and bStatus agree; a finished download is followed by the reset; every handler ends |
| Flash driver | `flash.h` | the flash, the FMC registers | erase a page, a 32 KB block or a range; program; compare | a page is programmed only when erased; a failure reaches the caller |
| USB endpoint | `usb.cpp`, `usb.h` | phase, what is left to send or receive, receive buffer, deferred address, toggle, one DMA buffer | `usb_init`, `do_usb_poll` (SETUP, IN, OUT, bus reset), `ep0_send`, `route_request` | one call of the data handler per block, with the whole block; the host gets the answer to its own request; device and host agree on the address; a transfer ends |
| Stage 1 | `main.cpp`, `ch32_crc.c`, `start.cpp` | marker in RAM, CRC unit, header at `APP_ADDRESS` | decide, verify, jump; `reboot_into_bootloader` | nothing is started that the checksum refuses; the marker works once |
| Tick, delays, interrupts | `system_timer.cpp`, `irq.cpp`, `stage2_irq.cpp`, `stage2_entry.cpp` | tick number, timer and interrupt registers, vector table | start-up of stage 2, tick interrupt, delays, `system_reset` | an interrupt finds its vector; every tick is accounted for; a delay ends, and not early |
| Clock | `rcu.cpp`, `clocking.h`, `main.cpp` | RCU registers, wait states, `SystemCoreClock` | up to 144 MHz in stage 1, back to 8 MHz before the application | the core always has a running source and enough wait states |
| Formatted output | `embedded_printf/printf.c`, the descriptors of `usb.cpp` | format, flags, width, precision, index, buffer | `snprintf_`, string descriptors | nothing is written outside the buffer; the text is what the directives mean |
| The rest | `gpio.cpp`, `peripheral.cpp`, `debug.cpp`, `stubs.cpp`, linker scripts, tools | registers only | | |

How they interact:

* The main loop of `dfu.cpp` calls `do_usb_poll()`, then tests `state`.
* `do_usb_poll()` handles at most one event of the USB controller. A SETUP
  packet calls `dfu_handle_request()` through `route_request()`; the OUT packet
  that completes a DNLOAD calls `dfu_handle_data()`.
* `dfu_handle_data()` calls the flash driver and returns only when the whole
  command is done; the controller answers the host with NAK meanwhile.
* `system_reset()` leads back to stage 1. The RAM marker at `0x20000000` is the
  only thing an application can tell it, the flash the only thing that remains.

* Stage 1 leaves the clock at 144 MHz to stage 2, which takes it for granted and
  sets its timer from it. The flash driver masks the tick interrupt around every
  operation; `usb_init()` waits for ticks.

The hard behaviours are the 40 hazards of `PROJECT.json`, each with its line.
They fall into five groups: (1) faults and power failures between the steps of
the data handler; (2) requests in an order nobody meant, across sessions and
resets; (3) lost handshakes, abandoned transfers and bus resets on the control
endpoint; (4) the geometry of the flash, where 256-byte pages, 4 KB sectors and
32 KB blocks meet a bootloader of 16 KB; (5) hardware that works beside the
program: oscillators, the clock switch, the timer, the flash controller.

## 2. Modules

```
Flash        pages, erase, program, compare, faults
  ^ EXTENDS
Dfu          DFU machine, data handler, main loop        <- DfuProofs (TLAPS), MCDfu
  |                                                      (DfuDetach EXTENDS it <- MCDfuDetach)
  ^ EXTENDS
DfuHost      the list of commands of an update           <- DfuHostProofs (TLAPS)
  ^ EXTENDS                ^ EXTENDS
Update                   Link                            <- MCUpdate, MCLink
<- UpdateProofs (TLAPS)  <- LinkProofs (TLAPS)
+ stage 1, user, supply  + Usb (INSTANCE), dfu-util, bus
implements AppSlot

Usb          control endpoint, controller, host          <- UsbProofs (TLAPS), MCUsb
             implements DnloadPipe

Clock        clock tree up and back
  ^ EXTENDS
Tick         start of stage 2, tick interrupt, delay
  ^ EXTENDS
Fmc          flash driver, register by register (EXTENDS Flash too)
  ^ EXTENDS  implements FlashDevice (the operations of Flash)
Board        all of them with the hardware beside        <- BoardProofs (TLAPS), MCBoard

Printf       snprintf, a directive in several steps
  ^ EXTENDS
Directives   what a directive means
  ^ EXTENDS
Descriptor   the string descriptors                      <- PrintfProofs (TLAPS),
                                                            MCDescriptor
```

### Flash

`flash` gives each 256-byte page a content: a datum of the host, `Erased`,
`Junk`, `BootCode`, or what is left of a datum that has lost no more than words
which stage 1 does not look at (`Scarred`: the first word of an image, the last
bytes of an odd size). A garbled page is `Junk` or such a page. An operation is
an action formula over `flash` and `faults` with the C function's return value
as its second parameter. Undisturbed it does its work and returns true. At most
`MaxFaults` times in a behaviour it may leave a page as it was or garbled, raise
an error flag although it worked, or report an end although it did not. What
differs between the operations is what the driver looks at, and this is kept:
`fmc_erase_page` reads the page back, `fmc_erase_32k` and `fmc_write_block`
trust the flags, programming a page that is not erased garbles it. A disturbed
32 KB erase or a power failure gives every page at work a fate of its own
(`Disturbances`). `fmc_erase_range` and `fmc_write` are loops of
`dfu_handle_data` in the model, so that a failure can come between two pages.

### Dfu

| Model | Code |
|---|---|
| `state`, `status`, `dfu_address`, `dfu_block_num` | the statics of `dfu.cpp:28-32` |
| `Detach` ... `Abort` | one per case of `dfu_handle_request` |
| `SetAddress`, `ErasePage`, `FirmwareBlock`, `UnknownCommand`, `IgnoredData` | the branches of `dfu_handle_data` up to its first flash operation |
| `RangeStep`, `BlockStep`, `EraseStep`, `ProgramStep`, `VerifyStep` | its loops, one page at a time; `wa`, `i`, `rx` are its locals and arguments, cleared when it returns |
| `MainCheck` | `dfu.cpp:333-350` |
| `Restart` | a reset or power cycle back to `stage2_main` |
| `PowerFailure` | external; leaves the pages being worked on in any state |
| `awaiting` | `usb.cpp` will call the data handler; a SETUP packet withdraws it (what `DnloadPipe` promises) |
| `asked`, `promised` | history: what the last data stage was to leave in the flash, and what a poll answered with status OK has confirmed. No guard reads them |

Every request is followed by `MainCheck`, as every poll is by the tests of the
main loop. Abstractions: addresses are multiples of a page and blocks are whole
pages; block numbers go to `MaxBlock` and page numbers wrap at `AddrSpace`
(2^32 bytes in the code); the LED is left out; `GETSTATUS` is the whole handler
but only `state` and `status` of its reply are kept. `Detach` has no parameter, as
the code does the same for every wTimeout; `DfuDetach` adds the time, for what
the comment beside it says (`detach_timeout`). Two assumptions on the host
appear as guards or constants: the addresses it names are in `CommandPages`, and
it names one before it sends firmware (the pointer starts at 0, inside the
bootloader, and the code tests no lower bound; `boot_sectors` shows what follows
if it does name a boot sector).

### DfuHost, Update and AppSlot

`DfuHost` is what a session of dfu-util asks for: step `n` of an update erases a
sector, sets the address, or sends a block. It assumes that the host may name
every page of the application (`HostAssumption`: the map of `usb.cpp:225-229`
offers them all) and that no image is longer than the application.

`Update` adds `Stage1` (the whole of `main.cpp:122-206` in one step: nothing
else runs then, and a power failure in it has the same effect as one before it),
the marker, the application's `reboot_into_bootloader`, a host and a user. The
host is external: `dfu-util -s 0x4000:leave -D`, which looks at the state and
clears it, erases sector by sector, then sends SET_ADDRESS and one block each,
polls twice after every command, and leaves with a zero-length DNLOAD. (The
SET_ADDRESS dfu-util repeats before leaving is skipped.) A user may start an
update of any version, stop the host, retry after a failure, and hold the
button; a host whose device loses its supply has failed.

`ImageAccepted` looks at what the code looks at. The checksum runs from the
fourth word of an image (`main.cpp:167`); the first, where the application is
entered, is read and never tested, and of an odd size the last bytes are left
out. `Passing` are the contents of a page that stage 1 cannot tell from the
right one. On the words that are covered the CRC is exact on the images of a
model: page contents are distinct, a header belongs to one version, and any
other first page has no valid size or checksum. A version
in `Unchecked` has the header value that switches the test off (`main.cpp:166`).

`AppSlot` says what this amounts to: a slot that holds one version or none, is
filled only by the version wanted, and is not changed while the application
runs; the processor runs what the slot holds, or an unchecked version whose
header is there. A version is in the slot when its checksum is right, and
`intact` says whether the rest of it is there too: words that were lost without
a sign come back only when the slot is emptied and filled again. The refinement
mapping reads slot and running version off the flash, so a mixture of two
versions counts as an empty slot.

### Usb and DnloadPipe

| Model | Code |
|---|---|
| `ctrl_phase`, `ctrl_data`, `ctrl_data_remaining`, `dfu_rx`, `usb_dev_addr`, `ep0_tog`, `current` | the statics of `usb.cpp:63-83` |
| `ep0_buffer`, `tx`, `DEV_ADDR`, `transfer`, `bus_rst` | the DMA buffer and registers the driver and the controller share |
| `do_usb_poll` with `HandleSetup`, `HandleIn`, `HandleOut`, `HandleBusReset` | one call of `do_usb_poll`, an event at most |
| `leaving`, `SystemReset` | the main loop finds a state to reset in, and resets |
| `Begin`, `...Transaction`, `GiveUp`, `BusReset` | external: host and controller |
| `delivered` | history: the block `dfu_handle_data` had for the current request |

The bytes of a transfer are `<<tag, k>>`, with different tags for consecutive
transfers, so that a stale or misplaced byte is recognised. The one buffer for
both directions is kept, with what is left behind new contents. While an event
is pending the controller answers NAK (`USBFS_CTRL_INT_BUSY`), so a poll is one
step. A lost handshake makes the host repeat; the host drops an IN packet whose
toggle it has seen. The host leaves the device alone after a bus reset until the
driver has seen it (10 ms by the standard, against a poll of microseconds). Left
out: suspend, vendor requests, STALL, the contents of the descriptors.

`DnloadPipe` is what `dfu.cpp` relies on: at most one call of the data handler
per DNLOAD request, before any other request, with exactly the announced bytes.
It is the justification of `awaiting` in `Dfu`.

### Link

`Link` puts `Usb` (as an instance, with its variables) and `Dfu` together. Where
`do_usb_poll()` calls `dfu_handle_request()` both step at once (`PollSetup`);
where it calls `dfu_handle_data()` the event stays pending while the handler
runs (`handling`, `EnterHandler`, `Handler`, `LeaveHandler`), and the host may
give up or reset the bus meanwhile. `LoopTests` and `ChipReset` are the rest of
the main loop. The host is `DfuHost` over real control transfers: each command
is a SETUP with its data packets, a status packet and the GETSTATUS transfers
after it. Lost handshakes repeat SETUP, IN and status packets. `Judge` is what
dfu-util does with a status: after a command it insists on dfuDNBUSY, and a
GETSTATUS that was repeated has moved the device past it (`dfu.cpp:115-122`); the
session then fails and is started again from the beginning. `answer` is the reply
to each GETSTATUS, `due` the step the data the device waits for belong to.

`LinkAssumption` bounds what the host sends by the receive buffer, whose size is
the `wTransferSize` it was told (`usb.h:283`, `usb.cpp:59`). `WholeDataAssumption`
says that no OUT handshake is lost: `Command` hands the data to the handler as
the host sent them, and what becomes of a repeated packet is the subject of
`usb_repeated_packet`.

### Clock, Tick, Fmc and Board

| Model | Code |
|---|---|
| `ClkHsi` ... `ClkSwitch` | `lnInitSystemClock`, cut where it waits for the hardware |
| `RevHsi`, `RevSelect`, `RevOff` | `revert_clock_to_hsi` |
| `CTL`, `CFG0`, `SW`, `WS` | the registers the program writes |
| `ready`, `pll`, `SWS` | external: what the hardware makes of them, later |
| `FillTable`, `SetCsrs`, `SetMtvec` | `stage2_irq_init`, in its order |
| `open` | the four gates of the tick interrupt: CSR 0xBC0, `mie`, the PFIC and `mstatus.MIE` |
| `init_timer_irq`, `lnEnableInterrupt`, `lnInterrupts` | the head of `stage2_main` |
| `lnDelay`, `DelayIsOver` | the wait in `usb_init` |
| `SR`, `TimerMatch` | the timer: the flag is set at every match, a match that finds it set is lost |
| `systick_isr` | the interrupt, before the next instruction of the program |
| `Begin` ... `Finish` | `fmc_erase_page`, `fmc_erase_32k` and `fmc_write` of a page, in the steps the controller can tell apart |
| `TakeWord`, `OperationEnds` | external: the controller |
| `Restart` | `system_reset`, or a reset while the application runs; not in the middle of a flash operation, which `Dfu` and `Update` cover |

`at` is the place of the program before and in the DFU loop, `step` its place in
a flash operation. The PLL takes its settings when it is switched on; a write to
`FMC_CTL` while the controller is locked is ignored; an operation started
without a mode does nothing. `FlashDevice` is the driver as its callers see it: a
call is made (`Ask`) and ends in one step (`Answer`) with an effect and the
result that `Flash` gives that operation on that page. `Fmc` implements it with
the running `call`, the last `result`, and `before`, the flash and the faults when
the call began: a call that does nothing and returns TRUE, or works on another
page, is no step of `FlashDevice` unless the controller was at fault.

Time is abstracted to the matches of the timer. The interrupt handler is done
before the next one (`TimerMatch` needs `~ Deliverable`), while a flash operation
may last for any number of them.

### Printf, Directives and Descriptor

`Printf` is `_vsnprintf` as `embedded_printf/CMakeLists.txt` builds it (no
floating point, no `long long`, no `ptrdiff_t`): a character of text, the flags,
the width, the precision, the length and the specifier are steps of their own,
as they change the same locals; a number is converted in one step through the
small buffer of `_ntoa_format`. Integers have the width `IntRange`, which is
256 in the runs, and the conversion buffer `NtoaSize` cells, 10 in the runs,
so that both limits are met; `Characters` are the values of a `char`.
`Directives` says what a directive means without the code, and writes down its
text and its arguments. `Descriptor` builds the memory map with it and doubles it
into a string descriptor.

`_vsnprintf` tests neither its format nor its arguments: a caller who passes too
few, or whose format ends inside a directive, makes it read what is not there.
What a caller owes is therefore an assumption, `FormatAssumption`, and it is what
a compiler checks with `-Wformat`: `Reading` follows a format character by
character through the grammar of the C standard and counts the arguments taken,
and `WellFormed` says that it meets nothing wrong, ends outside of a directive,
and that the arguments are there and of the type the directive names. The grammar
is written without the code, so that the two can disagree.

`RenderedRight` compares the two for directives that are `Regular`. The others
are where this `printf` leaves the C standard, none of which its one caller uses:
`#`, whose prefix takes the place of padding; `-` with a precision, which drops
the zeros of the precision; a negative `*` precision, taken for 0; padding with
zeros beyond the conversion buffer; `ll` and `j`, which print nothing and leave
their argument to the next directive; a `char` is unsigned, so `%hhd` prints no
negative number. `WithinBounds` and `CallAdvances` cover them all.

## 3. Runs

| Run | Question | Instance | States |
|---|---|---|---|
| `dfu` | do the invariants of `Dfu` hold under any request order, does every step of a handler bring it nearer its end, does every handler end and the reset follow? | 4 sectors of 2 pages, 2 sectors per block, blocks of at most 2 pages, 1 fault | 1.3 million |
| `update` | is OK true, is anything started that the checksum refuses, does `AppSlot` hold, does an update end with its version running? | two versions of different length, one unchecked, 3 interruptions | 0.3 million |
| `usb_endpoint` | the endpoint's properties and `DnloadPipe` | packets of 2 bytes, blocks to 4, replies to 5, 2 bus faults | 0.3 million |
| `link` | do endpoint and DFU machine keep what they rely on, is the host told the truth, does a session succeed? | two versions of 2 pages and 1, blocks of a page in two packets, 2 bus faults, 1 flash fault | 0.55 million |
| `board` | clock, interrupts, ticks and flash registers | a page of 2 words, a block of 2 pages, a delay of 2 ticks, 5 ticks in all, 1 flash fault | 0.12 million |
| `descriptor` | is the text right and within its buffer, does every step bring a call nearer its end? | every flag set, width and precision listed, all specifiers, buffers of 0, 6 and 60; 7 builds | 0.5 million |
| `erase_extent`, `boot_sectors`, `detach_timeout`, `entry_unchecked`, `usb_repeated_packet`, `usb_status_phase` | six statements of the comments and documents that the code does not bear out | as above, no or one fault | stop at the violation |

What the properties say is in the comment above each. In short:

* `BootIntact`, `PromiseKept`, `StatusStateAgree`, `ResetIsNext`,
  `ProgramsErasedPages`: safety of the DFU machine; `EveryJobEnds`,
  `ResetFollows`: its liveness. `JobAdvances`: each step of a data handler makes
  `JobLeft`, a number that never is negative, smaller.
* `SuccessMeansInstalled`, `RunsOnlyChecked`, `SuccessLeadsToApp`,
  `ImplementsAppSlot`, `UpdateSucceeds`: the update as its user sees it.
* `BlockWhole`, `ReplyWhole`, `StatusMeansHandled`, `AddressAgrees`,
  `TransferEnds`, `ImplementsPipe`: the control endpoint.
* `ComponentsAgree`, `ConfirmedBlocksHeld`, `StatusIsCurrent`,
  `SessionSucceeds`: the two together, as the host sees them.
* `SourceAlive`, `FlashFastEnough`, `TickIsMillisecond`, `BoardComesUp`: the
  clock; `NoStrayInterrupt`, `TickAccounting`, `TicksServed`, `DelayLongEnough`:
  the interrupt and what is counted with it; `StartsClean`,
  `ImplementsFlashDevice`: the flash driver.
* `WithinBounds`, `RenderedRight`, `DescriptorFits`: formatted output;
  `CallAdvances`: each step of a call of `snprintf_` makes `StepsLeft` smaller.

`JobAdvances` and `CallAdvances` are safety properties behind termination: a
program that takes its steps, and whose model has no deadlock, comes to
the end of the handler or of the call. Unlike `EveryJobEnds` they can be proved.

The types of `Dfu`, `Usb` and `Board` are checked by runs; those of `Update` and
`Link`, which add a host to a machine that is typed already, are proved only
(`UpdateTypeCorrect`, `LinkTypeCorrect`).

Why the bounds are enough:

* Geometry. The first 32 KB block holds both the bootloader and the first
  sectors of the application, as on the chip (16 KB of 32 KB): with one boot
  sector and two sectors per block this remains so, and the three application
  sectors add a sector that starts a block and one that does not. Two pages per
  sector and per block give every loop a first, a middle and a last iteration.
* Addresses. `MaxBlock = 3` reaches the block that ends at the end of the flash
  and the one beyond it. `CommandPages = {2, 5}` has one page that starts a
  sector and one that does not.
* `update`: the first page of each version can lose its first word; their sizes
  are whole words, so no other page can lose anything unseen. `board` has a
  datum that can, the other runs have none, as nothing in them tells such a page
  from `Junk`. `entry_unchecked` needs one interruption, `detach_timeout` a time
  of a millisecond.
* One datum is enough in `dfu`: blocks are compared page by page with
  what was sent, and a page that is wrong is erased, garbled or boot code. That
  pages are not mixed up is checked in `update`, where all contents
  differ.
* One fault in `dfu`, where the host may send anything before and after it, and
  three interruptions in `update`: a fault in one job and another in the
  next, and an update that is retried, retried with the other version, and fails
  again. The theorems about `Dfu` hold for any number.
* Packets of 2 bytes with blocks of up to 4 give a transfer of one short packet,
  one full packet, a full and a short one, and two full ones; the reply of 5 is
  cut off by `wLength` or ends with a short packet. The 16-bit count does not
  come near its limit.

* `link`: the images take one chunk and two, so that a later block meets an
  earlier one in the same sector; a block is two full packets, a command one
  short packet. Two faults give a lost handshake in a session that was given up
  for another. Lost OUT handshakes are left out for the reason given under
  `usb_repeated_packet`.
* `board`: ticks before the delay, in it and after it; `MaxTicks` leaves one for
  the DFU loop, where a flash operation can meet it. A page of two words has a
  first and a last one. With two pages to a block the block erase differs from
  the page erase.
* `descriptor`: a number range of 256 and a conversion buffer of 10 cells make
  eight binary digits with sign and prefix fill the buffer; widths and precisions
  lie below, at and above it. The buffer of 6 cuts most texts, 60 holds all.

Fairness. `Dfu`: only the program's own steps (`Device`); the host owes nothing.
`Update`: stage 1, the program, the host that has begun an update, and a user
who retries after a failure; this is what "the update succeeds" means at all,
and faults are bounded because a supply that always fails lets nothing succeed.
`Usb`: the main loop polls for ever, and a host goes on with its transfer;
`TransferEnds` allows for a device that kept the old address because the
handshake of a SET_ADDRESS was lost, which the host then resets.

`Link`: the program (`Program` covers every step of it), a host that goes on
with its transfer and its list, and the reset of the port of a device that does
not hear its host. `Board`: the program, interrupts that are taken, and hardware
that gets on with its work; not that a flash operation or a reset is ever asked
for. `BoardComesUp` therefore rests on oscillators that start: the waits of
`rcu.cpp:5-9` have no time limit.

`CHECK_DEADLOCK` is never switched off.

## 4. Findings

| Run | What it shows |
|---|---|
| `erase_extent` | ERASE_PAGE at a 32 KB boundary erases eight sectors (`dfu.cpp:208`). The comment at `dfu.cpp:36` says a page; the memory map offers sectors. A host that keeps sectors it does not send loses them; dfu-util erases in ascending order before it writes, so `update` still holds |
| `boot_sectors` | the map sent to the host offers the boot sectors as type `a`, neither erasable nor writable (`usb.cpp:226`); nothing in `dfu.cpp` holds a host to it |
| `detach_timeout` | the time in a DETACH is read and kept nowhere (`dfu.cpp:62-76`): the board resets right after the poll, where the comment at `dfu.cpp:71` has the main loop wait until it expires. `ResetIsNext` says what the code does |
| `entry_unchecked` | the checksum starts at the fourth word (`main.cpp:167`), the first one, where the application is entered, is never tested: an update cut off while it programs the first page may leave an image that is started without it. `ram_layout.html:58` has the checksum prove the application uncorrupted; `RunsOnlyChecked` says what it does prove |
| `usb_repeated_packet` | the toggle of OUT packets is never looked at (`usb.cpp:482`): one lost handshake makes a repeated packet look new. A block that is a multiple of 64 bytes is then handed over early with one packet twice; erase, program and compare agree with each other, the poll says OK, and only the checksum of stage 1 notices. For this reason `usb_endpoint` loses handshakes in every stage but OUT |
| `usb_status_phase` | the chip is reset right after the poll that only armed the status packet (`dfu.cpp:344`); the comment says it gets a moment to go out |

Without a run: `ram_layout.html:62` says that stage 2 clears the reboot marker
when flashing is finished. Stage 1 clears it at every boot (`main.cpp:177`, in
`Stage1`), and stage 2 does not touch it. `SuccessLeadsToApp` needs no more.

## 5. Proofs

`DfuProofs` proves for `Dfu`, for every geometry, block size, set of contents,
number of faults and set of addresses:

| Theorem | Statement |
|---|---|
| `TypeCorrect` | `Spec => []TypeOK` |
| `BootSafe` | `HostKeepsToMap` implies `Spec => []BootIntact` |
| `StatusFollowsState` | `Spec => []StatusStateAgree` |
| `ResetComesFirst` | `Spec => []ResetIsNext` |
| `ConfirmedIsKept` | `Spec => []PromiseKept` |
| `ProgramsOnlyErased` | `Spec => []ProgramsErasedPages` |
| `JobsComeToAnEnd` | `Spec => JobAdvances` |

`UpdateProofs` proves for `Update`, for every geometry, set of images and of
unchecked versions, number of faults and of interruptions:

| Theorem | Statement |
|---|---|
| `UpdateTypeCorrect` | `UpdateSpec => []UpdateTypeOK` |
| `SuccessIsInstalled` | `UpdateSpec => []SuccessMeansInstalled` |
| `OnlyCheckedRuns` | `UpdateSpec => []RunsOnlyChecked` |
| `SuccessIsStarted` | `UpdateSpec => SuccessLeadsToApp` |
| `UpdateImplementsSlot` | `UpdateSpec => ImplementsAppSlot` |

`UsbProofs` proves for `Usb`, for every packet size, receive buffer, set of
transfers, set of handshakes that may be lost and number of bus faults:

| Theorem | Statement |
|---|---|
| `UsbTypeCorrect` | `Spec => []UsbTypeOK` |
| `AddressesAgree` | `Spec => []AddressAgrees` |
| `RepliesAreWhole` | `Spec => []ReplyWhole` |
| `BlocksAreWhole` | no OUT handshake is lost implies `Spec => []BlockWhole` |
| `StatusIsHandled` | no OUT handshake is lost implies `Spec => []StatusMeansHandled` |
| `UsbImplementsPipe` | no OUT handshake is lost implies `Spec => ImplementsPipe` |

`LinkProofs` proves for `Link`, for every geometry, set of images, packet size,
receive buffer, block length, set of handshakes that may be lost without "out",
and number of bus and controller faults:

| Theorem | Statement |
|---|---|
| `LinkTypeCorrect` | `LinkSpec => []LinkTypeOK` |
| `ComponentsSupportEachOther` | `LinkSpec => []ComponentsAgree` |
| `StatusStaysCurrent` | `LinkSpec => []StatusIsCurrent` |
| `ConfirmedStaysHeld` | `LinkSpec => []ConfirmedBlocksHeld` |
| `SessionIsDfu` | `LinkSpec => Spec` of `Dfu` |
| `SessionIsUsb` | `LinkSpec => Spec` of `Usb`, for the transfers of a session |

The last two carry every theorem of `DfuProofs` and `UsbProofs` over to the whole.

`DfuHostProofs` has the lemmas about the list of commands and about one step of
the DFU machine that both `UpdateProofs` and `LinkProofs` rest on.

`BoardProofs` proves for `Board`, for every wait, bound on the ticks, words to a
page, geometry, set of contents and number of faults:

| Theorem | Statement |
|---|---|
| `BoardTypeCorrect` | `BoardSpec => []BoardTypeOK` |
| `ClockNeverStops` | `BoardSpec => []SourceAlive` |
| `WaitStatesSuffice` | `BoardSpec => []FlashFastEnough` |
| `EveryMatchIsCounted` | `BoardSpec => []TickAccounting` |
| `TickIsExact` | `BoardSpec => []TickIsMillisecond` |
| `InterruptsFindTheirTable` | `BoardSpec => []NoStrayInterrupt` |
| `WaitIsWhole` | `BoardSpec => DelayLongEnough` |
| `OperationsStartClean` | `BoardSpec => []StartsClean` |
| `DriverImplementsDevice` | `BoardSpec => ImplementsFlashDevice` |

`PrintfProofs` proves for `Printf` and `Descriptor`, for every well-formed call,
build and name, width of the integers and size of the conversion buffer:

| Theorem | Statement |
|---|---|
| `PrintfInvariant` | `DescriptorSpec => []PrintfInv`: code and grammar agree after every step |
| `PrintfWithinBounds` | `DescriptorSpec => []WithinBounds` |
| `CallsComeToAnEnd` | `DescriptorSpec => CallAdvances` |
| `ConversionFits` | the conversion buffer of `_ntoa_long` is never overrun |
| `DecimalReadsBack` | `_atoi` reads back the decimal digits `_ntoa_long` writes, for every `unsigned int` whose digits the buffer holds |

No theorem assumes fairness. What the proofs take from the constants is named in
the module that declares them, and evaluated by TLC in every run:

* `GeometryAssumption`, `ContentAssumption` (Flash), `ProtocolAssumption` and
  `AddressAssumption` (Dfu: 65536 blocks above the end of the flash stay below
  2^32); for `BootSafe` also that the host names no boot sector.
* `ImageAssumption`, `HostAssumption` (DfuHost) and `BootAssumption` (Update): an
  image fits the application, no other image has its header in any page, and its
  chunks can be addressed and numbered. `Scarred` gives every content that loses
  unseen words another one of its own, and the first page of every image has such
  a word. In the words it covers the CRC is exact on such images; that a real
  one may collide is outside these theorems.
* `PacketAssumption` and `TransferAssumption` (Usb): what a host may ask, by the
  USB standard: `wLength` and `wValue` have 16 bits, an OUT transfer keeps to the
  receive buffer (`wTransferSize`), an address is 1 to 127 and comes without data.
  The three theorems with `"out" \notin Losses` need it: with a lost OUT handshake
  they are false of this code, as the run `usb_repeated_packet` shows.
* `LinkAssumption` and `WholeDataAssumption` (Link), see section 2. What `Usb`
  assumes of the transfers is proved of those of a session (`EndpointFits`).
* `WidthAssumption`, `CharacterAssumption` (Printf): the sizes are not zero, and
  what the code puts out by itself are characters. `FormatAssumption`
  (Descriptor): the calls are well formed, see section 2.
* `TickAssumption` (the bound on the ticks leaves room for the wait),
  `FmcAssumption` (a page has words) and `CallAssumption`.

The arguments for `Dfu`:

* Types need one piece of arithmetic: `BlockAddressExact`, that the wrapped
  address of a block is the exact sum, so that the test against `flash_end`
  keeps a block in the flash.
* `AboveBoot` strengthens `BootIntact`: `dfu_address` is a page the host named
  or still 0, and the first page of a running job is above the boot sectors.
  `CommandsAboveBoot` carries it over from the page named to the start of its
  sector, because the bootloader ends at a sector. The 32 KB erase needs no more:
  it only reaches upwards from there.
* `Control` strengthens `StatusStateAgree` and `ResetIsNext` by what the state
  may be at each place of the program: whoever is going to assign them next, a
  pending data stage or a running job, finds DNLOAD_SYNC and OK.
* `Kept` strengthens `PromiseKept` and `ProgramsErasedPages` by a loop invariant
  for each kind of job: `RangeWork` (the pages before `i` are erased),
  `BlockWork`, `FirmwareWork` and `LoopWork` (erased below `i` while erasing,
  from `i` on while programming), and that nothing promised is in the extent a
  job works on. What is *asked* holds (`Holds(asked)`) whenever a poll could
  confirm it, which is the reason why a poll may promise it. That a page was
  programmed rightly is never assumed: it comes from `VerifyStep`.
* `JobAdvances` needs the types only: `JobLeft` counts the pages of the phase at
  work and of those behind it, and a failure ends the job at once.

For `Update`, whose `UpdateInv` has the invariants of `Dfu` in it:

* Every step is one of the DFU machine (`MachineStep`: its own, a stutter, or an
  interruption that only spends a fault), so `Control` and `Kept` carry over from
  the lemmas of `DfuProofs` without a second proof.
* `Turns` says whose turn it is: a host that talks finds stage 2 running, the
  reset comes after the end of the list and at no other time, a marker exists
  only between an application's request and the boot it asks for.
* `Pointed`: what the commands so far have told the device is where the chunk of
  this step goes, and what it is. `Before`: the chunks of earlier steps are in
  the flash. `OwnBlock`: a block at work is a chunk of the image, at its place.
  Together they say that the erasure at the head of a chunk's job, which
  is what could undo an earlier one, never reaches below the chunk.
* `SuccessMeansInstalled` follows from `Before` at the end of the list. It needs
  the poll: the step is counted only when a poll has answered OK, and `Kept` says
  that what a poll confirms is there.
* `OwnHeader`, for the refinement: while the first chunk is programmed no other
  header can be in the flash, whole or without its first word, so the page that
  completes an image completes the version wanted. `PassingTells` makes this
  possible: what is left of a page still tells which page it was. `NowPasses`: a
  page comes to pass the checksum only by being programmed. `Heals`: an image
  whose checksum is right does not become whole again without being erased,
  as only an erased page takes data. `SlotMoves` lists what a step can do to the
  slot (nothing, empty or damage it, fill it with `target`), and
  `UpdateImplementsSlot` matches each to a step of `AppSlot`.

For `Usb`, whose `UsbInv` follows a transfer through both machines:

* `Addressing`: who knows the new address when, and which requests may be under
  way meanwhile. A bRequest of 5 on the DFU class is GETSTATE, and
  `do_usb_poll` applies the address at the end of either (`usb.cpp:475`): this is
  harmless because a host asks the DFU class nothing before it has given an
  address, and `usb_dev_addr` holds that address from then on.
* `Session`: a SETUP that is under way is the host's own, and once it was handled
  `current` is the request the host is asking.
* `SendsReply` and `ReadsReply`: the packet offered is the next part of the reply,
  and the host either has not seen it (`Fresh`), has seen it and the device does
  not know (`Seen`), or has all of it (`Over`); the toggles tell the three apart.
* `Filling` and `SendsBlock`: the receive buffer is the beginning of the block, and
  what the host has sent is that beginning with at most the packet under way.
  These need that no OUT packet is repeated.
* `PacketContinues` and `RestContinues`, on sequences, are what every step of a
  data stage comes down to.

For `Link`, whose `LinkInv` has the invariants of both machines in it:

* `EndpointMoves` and `MachineMoves`: every step of the whole is one of the
  endpoint or leaves it alone, and one of the DFU machine or leaves it alone. So
  `UsbInv`, `TypeOK`, `Control` and `Kept` carry over (`MachinesStay`) and only
  what relates the two is left to prove (`Together`). `Link` and `LinkProofs` each
  instantiate the endpoint; the `Same...` lemmas say that it is one.
* `Calls`: where `dfu.cpp` may be while `usb.cpp` is inside or outside of its
  handlers. `ComponentsAgree` is part of it. A machine that is on its way to a
  reset has answered no request with data, which is why no host can read
  a status that the main loop then changes.
* `Known` and `Script`: the requests on the bus are those of the session, and the
  step the device has data for is the host's own step, or the host has given
  up and is at the start of a new session.
* `Answered`: what was put into the reply is true of the device from the poll to
  the end of the transfer, because `UsbInv` says that the request the device has
  is the host's own one, and a repeated SETUP writes the reply again.
* `Pointed`, `OwnBlock` and `Before` are those of `Update`, said of the step the
  *device* has (`due`). A handler that a host abandoned may still be at work in
  the next session: it is harmless since a session starts with an erase, behind
  which nothing is confirmed, and the device hears no SETUP before it is back.
* The status packet ties the two proofs together: `StatusMeansHandled` of
  `UsbProofs` says that a host which goes on to poll has had its handler called,
  `Kept` of `DfuProofs` that a poll which then says OK tells the truth.

And for `Board`, where `BoardInv` is the conjunction of three tables over the
places of the program:

* `ClockInv`: which oscillators are on and ready and what SW asks for, place by
  place. The clock in use is left open where a switch may still be under way, so
  that `SourceAlive` and `FlashFastEnough` hold for either answer of the hardware.
* `TickInv`: which gates of the interrupt are open (`OpenAt`), and when the table,
  the vector base and the period are set. The inequality it keeps during the
  delay counts the pending match; it holds on entry only because the program
  does not move while an interrupt is deliverable, so `SR` is clear by then.
* `DriverInv`: what each place in a call knows of CTL, STAT and MIE. It also says
  that a call runs in the DFU loop only, which is why no masking disturbs
  `OpenAt` during the start.
* `FmcTypes` proves the types of the flash registers from the steps alone, and
  `EffectInv` those of the flash, which the controller writes behind the driver.
* `DriverImplementsDevice` needs `EffectInv` besides: up to the end of the
  operation the flash is what it was when the call began, the write cache holds
  as many words as were loaded, and from then on `WorkDone` holds, the effect and
  the faults of the abstract operation with the flags STAT shows.
  `OperationEffect` establishes it, `FinishAnswers` turns it into the answer to the
  call that was asked for, the beginning of a call is `Ask`, and every other step of
  the board stutters there.

And for `Printf`, whose formats, arguments and numbers are data of any length:

* `Least` (a set of naturals that is not empty has a least element) comes from the
  library's well-founded `<`, and `Induction` from it: a *set* that holds 0 and,
  with a number, the next one, holds them all. Every induction here names its
  set. With it the recursive functions `Reading`, `Values` and `Quotients` are
  shown to satisfy their equations (`QuotientsIs` and its like), and the rest of
  the proof unfolds them one step at a time.
* `PrintfInv`: the place of the program says which roles the grammar may have
  given to the character before (`Parsing`), and the argument that is next is the
  one the grammar counts. Where the code takes a run of digits at once
  (`_atoi`), the grammar goes through them one by one with the same result;
  `EndOfDigits` exists because a format ends with a NUL. `LongLong` ties the flag
  of that name to the roles `ll` and `j`, on which it depends whether an argument
  is taken. `Cells` and `Ended` are about the buffer, `FieldTypes` about the locals.
* `WithinBounds` follows from `PrintfInv`; the terminator is in the buffer because
  the last cell is given up for it.
* `StepsLeft` counts six for each character of the format that is left, and at
  most five for the parts of a directive that may be passed without taking one.
* `ConversionFits`: every piece of `_ntoa_format` (digits, zeros, prefix, sign) tests the
  room that is left before it adds, the `#` that takes characters away included.

Only model-checked: every liveness property (ENABLED and fairness are outside
what the prover handles), and `RenderedRight` and `DescriptorFits`. These two
compare whole texts: the meaning of a call is put together by folds over its
directives, and a proof would need an induction over them, and over the digits
in every base, that the numbers written as `Numeral` and as `Quotients` agree;
`DecimalReadsBack` and `ConversionFits` are the part of it that is proved.

## 6. Not modelled, and the plan

Left for later:

1. Proofs: `RenderedRight` and `DescriptorFits`.
2. Blocks whose length is no multiple of a page: the last page is then programmed
   from beyond the data (`flash.h:326`). The models' blocks are whole pages. An
   image of an odd size has its last page among `Scarred`; no run has one.
3. The device, configuration and language descriptors, which are constants; STALL
   and suspend, which change no state the rest depends on.

Left out for good: pins and LED, debug output, linker scripts and build tools,
which have no behaviour the properties of the system depend on; the 64-bit and
microsecond time of `system_timer.cpp` (`lnGetUs`, `lnDelayUs`), `fmc_lock`, the
interrupt priorities of `irq.cpp` and the other entry points of `printf.c`, which
nothing in this tree calls.
