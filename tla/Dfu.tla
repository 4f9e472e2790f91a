-------------------------------- MODULE Dfu --------------------------------
(***************************************************************************)
(* The DFU state machine of the stage-2 bootloader (src_stage2/dfu.cpp):   *)
(* the class requests, the data handler that works on the flash page by    *)
(* page, and the tests the main loop makes after every poll of the USB     *)
(* device.  Addresses are page numbers, a block is a function from offsets *)
(* to page contents.                                                       *)
(*                                                                         *)
(* The program is sequential.  "pc" says where in its loop it is:          *)
(*   poll     about to call do_usb_poll()                                  *)
(*   range    in fmc_erase_range(), page i of the sector at wa             *)
(*   block    about to start the 32 KB erase at wa                         *)
(*   erase    erase loop of a firmware block, page i                       *)
(*   program  fmc_write(), page i                                          *)
(*   verify   about to compare the flash with the block                    *)
(*   check    back in the main loop, about to test the state               *)
(*   reset    in system_reset()                                            *)
(*   off      the supply failed                                            *)
(* The steps inside the data handler are separate so that a fault of the   *)
(* controller or a power failure can come between any two of them.         *)
(***************************************************************************)
EXTENDS Flash

CONSTANTS
  TransferPages,   \* DFU_TRANSFER_SIZE / 256: 16
  MaxBlock,        \* largest wValue of a DNLOAD: 65535
  AddrSpace,       \* 2^32 / 256: page numbers wrap here
  CommandPages     \* pages the host names in SET_ADDRESS and ERASE_PAGE

ASSUME ProtocolAssumption ==
  /\ TransferPages \in Nat \ {0}
  /\ MaxBlock \in Nat
  /\ CommandPages \subseteq Pages

(* Bytes 0 .. 2^32-1 hold the flash and every block number above it: the   *)
(* offset of a block does not wrap past the address space by itself.       *)
ASSUME AddressAssumption ==
  /\ AddrSpace \in Nat
  /\ flash_end + (MaxBlock + 1) * TransferPages < AddrSpace

Blocks == UNION {[0 .. (n - 1) -> Data] : n \in 1 .. TransferPages}

dfu_state == {"DFU_IDLE", "DNLOAD_SYNC", "DNBUSY", "DNLOAD_IDLE",
              "MANIFEST_SYNC", "MANIFEST", "MANIFEST_WAIT_RESET",
              "UPLOAD_IDLE", "ERROR", "APP_DETACH"}

dfu_status == {"OK", "ERR_ERASE", "ERR_WRITE", "ERR_VERIFY", "ERR_ADDRESS",
               "ERR_UNKNOWN"}

VARIABLES
  state, status, dfu_address, dfu_block_num,   \* the statics of dfu.cpp
  pc,         \* where the program is
  awaiting,   \* a DNLOAD was accepted and its data stage is still to come
  wa,         \* first page the running data handler works on
  i,          \* its loop counter
  rx,         \* the block it was called with
  asked,      \* history: what the last data stage should leave in flash
  promised    \* history: what a poll answered OK has confirmed

requestVars == <<state, status, dfu_block_num, awaiting>>
jobVars     == <<wa, i, rx>>
ghostVars   == <<asked, promised>>
vars        == <<flashVars, state, status, dfu_address, dfu_block_num, pc,
                 awaiting, wa, i, rx, asked, promised>>

None == [p \in {} |-> Erased]     \* a promise about no page

Working == {"range", "block", "erase", "program", "verify"}

TypeOK ==
  /\ FlashTypeOK
  /\ state \in dfu_state
  /\ status \in dfu_status
  /\ dfu_address \in Pages
  /\ dfu_block_num \in 0 .. MaxBlock
  /\ pc \in Working \cup {"poll", "check", "reset", "off"}
  /\ awaiting \in BOOLEAN
  /\ wa \in 0 .. (AddrSpace - 1)
  /\ i \in 0 .. (PagesPerSector + TransferPages)
  /\ rx \in Blocks \cup {None}
  /\ pc = "range" => i < PagesPerSector
  /\ pc \in {"erase", "program"} => i \in DOMAIN rx

(* The image of .data and .bss, and a program about to poll.               *)
Init ==
  /\ FlashInit
  /\ state = "DFU_IDLE" /\ status = "OK"
  /\ dfu_address = 0 /\ dfu_block_num = 0
  /\ pc = "poll" /\ awaiting = FALSE
  /\ wa = 0 /\ i = 0 /\ rx = None
  /\ asked = None /\ promised = None

(***************************************************************************)
(* Class requests.  A SETUP packet ends whatever data stage was pending.   *)
(* The history drops what it was going to confirm at every request but the *)
(* two polls.                                                              *)
(***************************************************************************)
Setup == pc = "poll" /\ pc' = "check" /\ UNCHANGED <<flashVars, jobVars>>

SetState(newState, newStatus) ==
  /\ state' = newState
  /\ status' = newStatus
  /\ awaiting' = FALSE
  /\ asked' = None
  /\ UNCHANGED <<dfu_address, promised>>

(* Any wTimeout: the two branches of the code do the same (DfuDetach looks *)
(* at the time).                                                           *)
Detach == Setup /\ SetState("APP_DETACH", "OK") /\ UNCHANGED dfu_block_num

DnloadManifest ==
  Setup /\ SetState("MANIFEST_SYNC", "OK") /\ UNCHANGED dfu_block_num

DnloadBlock(n) ==
  /\ Setup
  /\ state' = "DNLOAD_SYNC"
  /\ status' = "OK"
  /\ dfu_block_num' = n
  /\ awaiting' = TRUE
  /\ asked' = None
  /\ UNCHANGED <<dfu_address, promised>>

Upload == Setup /\ SetState("UPLOAD_IDLE", "OK") /\ UNCHANGED dfu_block_num

AfterPoll == CASE state = "DNLOAD_SYNC"   -> "DNBUSY"
               [] state = "DNBUSY"        -> "DNLOAD_IDLE"
               [] state = "MANIFEST_SYNC" -> "MANIFEST"
               [] OTHER                   -> state

Confirm(f, g) ==
  [p \in DOMAIN f \cup DOMAIN g |-> IF p \in DOMAIN f THEN f[p] ELSE g[p]]

(* The reply carries status: OK confirms what the last data stage asked.   *)
GetStatus ==
  /\ Setup
  /\ state' = AfterPoll
  /\ awaiting' = FALSE
  /\ promised' = IF status = "OK" THEN Confirm(asked, promised) ELSE promised
  /\ UNCHANGED <<status, dfu_address, dfu_block_num, asked>>

ClrStatus == Setup /\ SetState("DFU_IDLE", "OK") /\ UNCHANGED dfu_block_num

GetState ==
  /\ Setup
  /\ awaiting' = FALSE
  /\ UNCHANGED <<state, status, dfu_address, dfu_block_num, ghostVars>>

Abort == Setup /\ SetState("DFU_IDLE", "OK") /\ UNCHANGED dfu_block_num

(***************************************************************************)
(* dfu_handle_data(): the last OUT packet of a DNLOAD arrived.             *)
(***************************************************************************)
DataStage ==
  pc = "poll" /\ awaiting /\ awaiting' = FALSE
  /\ UNCHANGED <<flashVars, dfu_block_num>>

(* The data handler returns; its locals go out of scope.                   *)
Return == pc' = "check" /\ wa' = 0 /\ i' = 0 /\ rx' = None

(* Mutant: the error is reported, the state is left alone.                 *)
Fail_KeepsState(error) == status' = error /\ state' = state /\ Return

Fail(error) == status' = error /\ state' = "ERROR" /\ Return

Finish == status' = "OK" /\ state' = state /\ Return

Forget(extent) == [p \in DOMAIN promised \ extent |-> promised[p]]

SetAddress(p) ==
  /\ DataStage /\ dfu_block_num = 0
  /\ dfu_address' = p
  /\ Finish
  /\ UNCHANGED ghostVars

UnknownCommand ==
  /\ DataStage /\ dfu_block_num = 0
  /\ Fail("ERR_UNKNOWN")
  /\ UNCHANGED <<dfu_address, ghostVars>>

(* Fewer than five bytes for block 0, or any block 1: nothing is done.     *)
IgnoredData ==
  /\ DataStage /\ dfu_block_num \in {0, 1}
  /\ Return
  /\ UNCHANGED <<state, status, dfu_address, ghostVars>>

SectorErased(s) ==
  \A k \in 0 .. (PagesPerSector - 1) : fmc_page_is_erased(s + k)

(* A sector that starts a 32 KB block takes the whole block with it.       *)
EraseExtent(s) ==
  IF s % BlockPages = 0 THEN Span(s, BlockPages) ELSE Span(s, PagesPerSector)

ErasedSector(s) == [p \in Span(s, PagesPerSector) |-> Erased]

(* The history claims nothing for a 32 KB erase: the code does not read    *)
(* the block back.                                                         *)
ErasePage(p) ==
  LET s == SectorStart(p)
  IN /\ DataStage /\ dfu_block_num = 0
     /\ IF SectorErased(s)
        THEN /\ Finish
             /\ asked' = ErasedSector(s)
             /\ UNCHANGED promised
        ELSE /\ wa' = s /\ i' = 0 /\ rx' = None
             /\ pc' = IF s % BlockPages = 0 THEN "block" ELSE "range"
             /\ asked' = IF s % BlockPages = 0 THEN None ELSE ErasedSector(s)
             /\ promised' = Forget(EraseExtent(s))
             /\ UNCHANGED <<state, status>>
     /\ UNCHANGED dfu_address

BlockAddress(n) == (dfu_address + (n - 2) * TransferPages) % AddrSpace

PastEnd(first, len) == (first + len) % AddrSpace > flash_end

(* Firmware data.  The host has named an address first.                    *)
FirmwareBlock(data) ==
  LET first == BlockAddress(dfu_block_num)
      len   == Cardinality(DOMAIN data)
  IN /\ DataStage /\ dfu_block_num >= 2
     /\ dfu_address \in CommandPages
     /\ asked' = [p \in {first + k : k \in DOMAIN data} |-> data[p - first]]
     /\ IF PastEnd(first, len)
        THEN Fail("ERR_ADDRESS") /\ UNCHANGED promised
        ELSE /\ wa' = first /\ i' = 0 /\ rx' = data
             /\ pc' = "erase"
             /\ promised' = Forget(Span(first, len))
             /\ UNCHANGED <<state, status>>
     /\ UNCHANGED dfu_address

(***************************************************************************)
(* The steps of a running data handler.                                    *)
(***************************************************************************)
JobStep == UNCHANGED <<dfu_address, dfu_block_num, awaiting, ghostVars>>

(* The handler goes on at page k of the given phase.                       *)
GoOn(phase, k) ==
  pc' = phase /\ i' = k /\ UNCHANGED <<wa, rx, state, status>>

RangeStep ==
  /\ pc = "range"
  /\ \E ok \in BOOLEAN :
       /\ fmc_erase_page(wa + i, ok)
       /\ CASE ~ok                         -> Fail("ERR_ERASE")
            [] ok /\ i + 1 < PagesPerSector -> GoOn("range", i + 1)
            [] OTHER                       -> Finish
  /\ JobStep

BlockStep ==
  /\ pc = "block"
  /\ \E ok \in BOOLEAN :
       /\ fmc_erase_32k(wa, ok)
       /\ IF ok THEN Finish ELSE Fail("ERR_ERASE")
  /\ JobStep

(* Mutant: the loop counter is not advanced.                               *)
Advance_Stuck(phase) ==
  IF i + 1 \in DOMAIN rx THEN GoOn(pc, i) ELSE GoOn(phase, 0)

(* Mutant: <= for < in the loop over the block.                            *)
Advance_OneMore(phase) ==
  IF i \in DOMAIN rx THEN GoOn(pc, i + 1) ELSE GoOn(phase, 0)

(* Next page of the loop over the block, or on to the phase that follows.  *)
Advance(phase) ==
  IF i + 1 \in DOMAIN rx THEN GoOn(pc, i + 1) ELSE GoOn(phase, 0)

EraseStep ==
  /\ pc = "erase"
  /\ IF fmc_page_is_erased(wa + i)
     THEN Advance("program") /\ UNCHANGED flashVars
     ELSE \E ok \in BOOLEAN :
            /\ fmc_erase_page(wa + i, ok)
            /\ IF ok THEN Advance("program") ELSE Fail("ERR_ERASE")
  /\ JobStep

ProgramStep ==
  /\ pc = "program"
  /\ \E ok \in BOOLEAN :
       /\ fmc_write_block(wa + i, rx[i], ok)
       /\ IF ok THEN Advance("verify") ELSE Fail("ERR_WRITE")
  /\ JobStep

VerifyStep ==
  /\ pc = "verify"
  /\ IF fmc_verify(wa, rx) THEN Finish ELSE Fail("ERR_VERIFY")
  /\ UNCHANGED flashVars
  /\ JobStep

(***************************************************************************)
(* The main loop after do_usb_poll(), and the ways out of it.              *)
(***************************************************************************)
(* Mutant: the test for APP_DETACH is left out.                            *)
MainCheck_NoDetach ==
  /\ pc = "check"
  /\ state' = IF state = "MANIFEST_SYNC" THEN "MANIFEST_WAIT_RESET" ELSE state
  /\ pc' = IF state' = "MANIFEST_WAIT_RESET" THEN "reset" ELSE "poll"
  /\ UNCHANGED <<flashVars, status, dfu_address, dfu_block_num, awaiting,
                 jobVars, ghostVars>>

MainCheck ==
  /\ pc = "check"
  /\ state' = IF state = "MANIFEST_SYNC" THEN "MANIFEST_WAIT_RESET" ELSE state
  /\ pc' = IF state' \in {"MANIFEST_WAIT_RESET", "APP_DETACH"}
           THEN "reset" ELSE "poll"
  /\ UNCHANGED <<flashVars, status, dfu_address, dfu_block_num, awaiting,
                 jobVars, ghostVars>>

BusyPages == CASE pc = "block" -> Span(wa, BlockPages)
               [] pc \in {"range", "erase", "program"} -> {wa + i} \cap Pages
               [] OTHER -> {}

PowerFailure ==
  /\ pc \in Working \cup {"poll", "check"}
  /\ Fault
  /\ CutOff(BusyPages, IF pc = "program" THEN {rx[i]} ELSE {})
  /\ pc' = "off"
  /\ asked' = None
  /\ UNCHANGED <<requestVars, dfu_address, jobVars, promised>>

(* Back in stage 2 after a reset or a power cycle, RAM initialised anew.   *)
Restart ==
  /\ pc \in {"reset", "off"}
  /\ state' = "DFU_IDLE" /\ status' = "OK"
  /\ dfu_address' = 0 /\ dfu_block_num' = 0
  /\ pc' = "poll" /\ awaiting' = FALSE
  /\ wa' = 0 /\ i' = 0 /\ rx' = None
  /\ asked' = None
  /\ UNCHANGED <<flashVars, promised>>

DataSteps == RangeStep \/ BlockStep \/ EraseStep \/ ProgramStep \/ VerifyStep

Device == DataSteps \/ MainCheck

Requests ==
  \/ Detach \/ DnloadManifest \/ Upload \/ GetStatus
  \/ ClrStatus \/ GetState \/ Abort
  \/ \E n \in 0 .. MaxBlock : DnloadBlock(n)

Transfers ==
  \/ \E p \in CommandPages : SetAddress(p) \/ ErasePage(p)
  \/ UnknownCommand \/ IgnoredData
  \/ \E data \in Blocks : FirmwareBlock(data)

Next == Requests \/ Transfers \/ Device \/ PowerFailure \/ Restart

Spec == Init /\ [][Next]_vars

(* Only the program's own steps are owed: it never waits inside them.      *)
FairSpec == Spec /\ WF_vars(Device)

(* The host keeps to the sectors the memory map of usb.cpp:225-229 offers  *)
(* for erasing and writing.                                                *)
HostKeepsToMap == CommandPages \cap BootPages = {}

(***************************************************************************)
(* Properties.                                                             *)
(***************************************************************************)

(* While the host keeps to the map: whatever commands, faults and power    *)
(* failures come, no page of the bootloader changes.  dfu.cpp has no test  *)
(* for a lower bound, and the 32 KB erase (208-211) reaches beyond the     *)
(* sector named.                                                           *)
BootIntact == \A p \in BootPages : flash[p] = BootCode

(* A poll answered OK is true and stays true: the pages of the block it    *)
(* confirmed hold what the host sent (or are erased) until a later command *)
(* that covers them starts (dfu.cpp:238-279 and 113-139).  Programming can *)
(* fail without a flag, and an unfinished block is confirmed by nothing.   *)
PromiseKept ==
  \A p \in DOMAIN promised : p \in Pages /\ flash[p] = promised[p]

(* bState and bStatus of one reply never contradict each other: they are   *)
(* two variables that dfu.cpp assigns at seventeen places.                 *)
StatusStateAgree == state = "ERROR" <=> status # "OK"

(* No request is handled between the one that ends a download (or detaches)*)
(* and the reset: a poll in between would move MANIFEST_SYNC to MANIFEST   *)
(* (dfu.cpp:123-126), which the main loop does not know (335-350).  A      *)
(* DETACH with a time to wait is no exception, which is what the code does *)
(* and not what its comment says (see DetachWaits in DfuDetach).           *)
ResetIsNext ==
  pc = "poll" => state \notin {"MANIFEST_SYNC", "MANIFEST",
                              "MANIFEST_WAIT_RESET", "APP_DETACH"}

(* A page is programmed only when it is erased, whatever the erase loop    *)
(* (dfu.cpp:250-262) met: pages in any state, faults, a garbled page.      *)
ProgramsErasedPages ==
  pc = "program" =>
    \A k \in DOMAIN rx : k >= i => fmc_page_is_erased(wa + k)

(* A bound on the steps a running data handler may still take: the pages   *)
(* of the phase it is in, and of those that follow.                        *)
JobLeft ==
  LET pages == Cardinality(DOMAIN rx)
  IN CASE pc = "range"             -> PagesPerSector - i
       [] pc \in {"block", "verify"} -> 1
       [] pc = "erase"             -> (pages - i) + pages + 1
       [] pc = "program"           -> (pages - i) + 1
       [] OTHER                    -> 0

(* Whatever the controller answers, and wherever the supply fails: every   *)
(* step of a data handler leaves it fewer steps (dfu.cpp:170-280,          *)
(* flash.h:326-338).                                                       *)
JobAdvances == [][(pc \in Working) => JobLeft' >= 0 /\ JobLeft' < JobLeft]_vars

(* The data handler ends: the main loop is reached again unless the supply *)
(* fails (dfu.cpp:170-280, flash.h:326-338).                               *)
EveryJobEnds == pc \in Working ~> pc \in {"check", "off"}

(* An accepted manifest or detach request is followed by the reset unless  *)
(* the supply fails first (dfu.cpp:335-350).                               *)
ResetFollows ==
  state \in {"MANIFEST_SYNC", "APP_DETACH"} ~> pc \in {"reset", "off"}

(***************************************************************************)
(* What the comments say of the same program, and it does not do.          *)
(***************************************************************************)

Keeps(pages) == \A p \in pages : flash'[p] = flash[p]

(* dfu.cpp:36: ERASE_PAGE erases the "256-byte page at given address".     *)
(* Not even the sector the memory map offers bounds it (dfu.cpp:206-211).  *)
EraseStaysInSector ==
  [][(pc \in {"range", "block"})
       => Keeps(Pages \ Span(wa, PagesPerSector))]_vars

(* usb.cpp:226 offers the sectors of the bootloader as "Ka", which DfuSe   *)
(* reads as neither erasable nor writable.                                 *)
BootSectorsReadOnly == [][Keeps(BootPages)]_vars
=============================================================================
