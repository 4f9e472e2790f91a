------------------------------- MODULE Flash -------------------------------
(***************************************************************************)
(* The program flash of the CH32V3x as src_stage2/flash.h drives it, one   *)
(* value per 256-byte page.  The FMC registers are abstracted to what the  *)
(* driver lets its caller see: what each page holds afterwards and the     *)
(* boolean it returns.  The controller may misbehave MaxFaults times: an   *)
(* operation then leaves a page as it was or garbled, raises an error flag *)
(* for work that was done, or reports the end of an operation it did not   *)
(* carry out.  A garbled page is Junk, or a page that has lost no more     *)
(* than words stage 1 does not look at (Scarred).                          *)
(***************************************************************************)
EXTENDS Integers, FiniteSets, TLC

CONSTANTS
  PagesPerSector,    \* 4 KB DFU sector / 256-byte page: 16
  SectorsPerBlock,   \* 32 KB erase block / 4 KB sector: 8
  BootSectors,       \* sectors of the bootloader: 4 (16 KB)
  AppSectors,        \* sectors of the application: 60 (240 KB)
  Data,              \* page contents a host may download
  Erased,            \* the 0xE339E339 pattern
  Junk,              \* neither erased nor what was to be programmed
  Scarred,           \* a page that has lost only words no check looks at
  BootCode,          \* what the bootloader pages hold
  MaxFaults          \* bound on the faults of one behaviour

ASSUME GeometryAssumption ==
  /\ PagesPerSector \in Nat \ {0}
  /\ SectorsPerBlock \in Nat \ {0}
  /\ BootSectors \in Nat \ {0}
  /\ AppSectors \in Nat \ {0}
  /\ MaxFaults \in Nat

ASSUME ContentAssumption ==
  /\ Cardinality({Erased, Junk, BootCode}) = 3
  /\ Data \cap {Erased, Junk, BootCode} = {}
  /\ DOMAIN Scarred \subseteq Data
  /\ \A c \in DOMAIN Scarred :
       /\ Scarred[c] \notin Data \cup {Erased, Junk, BootCode}
       /\ \A d \in DOMAIN Scarred : Scarred[c] = Scarred[d] => c = d

BootEnd   == BootSectors * PagesPerSector
flash_end == (BootSectors + AppSectors) * PagesPerSector
BootPages == 0 .. (BootEnd - 1)
Pages     == 0 .. (flash_end - 1)

(* What may be left of a page that held, or was to hold, one of these.     *)
Scars(contents)   == {Scarred[c] : c \in contents \cap DOMAIN Scarred}
Garbled(contents) == {Junk} \cup Scars(contents)

Content == Data \cup {Erased, BootCode} \cup Garbled(Data)

VARIABLES
  flash,    \* what each page holds
  faults    \* faults the environment may still inject

flashVars == <<flash, faults>>

FlashTypeOK ==
  /\ flash \in [Pages -> Content]
  /\ faults \in 0 .. MaxFaults

(* The board as it leaves production: bootloader programmed, no image.     *)
FlashInit ==
  /\ flash = [p \in Pages |-> IF p \in BootPages THEN BootCode ELSE Erased]
  /\ faults = MaxFaults

(***************************************************************************)
(* Geometry: the extents the two erase commands of the controller cover.   *)
(***************************************************************************)
BlockPages == PagesPerSector * SectorsPerBlock

Span(first, n) == {p \in Pages : first <= p /\ p < first + n}

(* Mutant: aligned to the 32 KB block.                                     *)
SectorStart_Block(p) == p - (p % BlockPages)

(* addr & ~(DFU_SECTOR_SIZE - 1)                                           *)
SectorStart(p) == p - (p % PagesPerSector)

(***************************************************************************)
(* Reading the flash.                                                      *)
(***************************************************************************)
fmc_page_is_erased(p) == flash[p] = Erased

(* Mutant: the last page is not compared.                                  *)
fmc_verify_Short(first, data) ==
  \A k \in DOMAIN data : k + 1 \in DOMAIN data => flash[first + k] = data[k]

fmc_verify(first, data) ==
  \A k \in DOMAIN data : flash[first + k] = data[k]

(***************************************************************************)
(* Operations.  "ok" is the value the C function returns.                  *)
(***************************************************************************)
Fault == faults > 0 /\ faults' = faults - 1

FaultUnless(asIntended) == IF asIntended THEN UNCHANGED faults ELSE Fault

(* Mutant: the page is not read back.                                      *)
fmc_erase_page_Unread(p, ok) ==
  \E left \in {Erased, flash[p]} \cup Garbled({flash[p]}), ended \in BOOLEAN :
    /\ FaultUnless(left = Erased /\ ended)
    /\ flash' = [flash EXCEPT ![p] = left]
    /\ ok = ended

(* Erases one page and reads it back: the result is the end-of-operation   *)
(* flag, no error flag, and 64 words of the erased pattern.                *)
fmc_erase_page(p, ok) ==
  \E left \in {Erased, flash[p]} \cup Garbled({flash[p]}), ended \in BOOLEAN :
    /\ FaultUnless(left = Erased /\ ended)
    /\ flash' = [flash EXCEPT ![p] = left]
    /\ ok = (ended /\ left = Erased)

(* What an operation on these pages may leave when it is disturbed: every  *)
(* page has a fate of its own.                                             *)
Disturbed(erased, scarred, junk) ==
  [q \in Pages |-> CASE q \in erased  -> Erased
                     [] q \in scarred -> Scarred[flash[q]]
                     [] q \in junk    -> Junk
                     [] OTHER         -> flash[q]]

Scarrable(pages) == {q \in pages : flash[q] \in DOMAIN Scarred}

Disturbances(pages) ==
  UNION {UNION {{Disturbed(erased, scarred, junk) :
                   junk \in SUBSET (pages \ (erased \cup scarred))} :
                scarred \in SUBSET Scarrable(pages \ erased)} :
         erased \in SUBSET pages}

Blanked(pages) == [q \in Pages |-> IF q \in pages THEN Erased ELSE flash[q]]

(* Erases the 32 KB block that starts at p; only the flags are looked at.  *)
fmc_erase_32k(p, ok) ==
  LET block == Span(p, BlockPages)
  IN \/ ok /\ flash' = Blanked(block) /\ UNCHANGED faults
     \/ Fault /\ flash' \in Disturbances(block)

(* Programs one page; no read-back.  Cells that are not erased cannot take *)
(* the new data.                                                           *)
fmc_write_block(p, datum, ok) ==
  LET intended == IF flash[p] = Erased THEN datum ELSE Junk
  IN \E left \in {intended, flash[p]} \cup Garbled({flash[p], datum}), ended \in BOOLEAN :
       /\ FaultUnless(left = intended /\ ended)
       /\ flash' = [flash EXCEPT ![p] = left]
       /\ ok = ended

(* The supply fails while the controller works on the pages of "busy", and *)
(* programs "data" there.                                                  *)
CutOff(busy, data) ==
  \/ flash' \in Disturbances(busy)
  \/ \E p \in busy, left \in Scars(data) : flash' = [flash EXCEPT ![p] = left]
=============================================================================
