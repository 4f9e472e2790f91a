------------------------------ MODULE DfuHost ------------------------------
(***************************************************************************)
(* What "dfu-util -s 0x4000:leave -D firmware.bin" asks of a device, as    *)
(* src/ relies on it (outside the repository): the list of DfuSe commands  *)
(* of an update.  Every sector of the image is erased first; then, for     *)
(* every block, the address is set and the data are sent.  Step n of the   *)
(* list is one DNLOAD with a data stage.                                   *)
(***************************************************************************)
EXTENDS Dfu

CONSTANTS
  Versions,     \* the firmware images a user may install
  Image         \* the pages of each, page 0 with size and checksum in it

ASSUME ImageAssumption ==
  \A v \in Versions :
    /\ \E n \in 1 .. (AppSectors * PagesPerSector) : Image[v] \in [0 .. (n - 1) -> Data]
    /\ \A w \in Versions : \A k \in DOMAIN Image[w] :
         Image[v][0] = Image[w][k] => v = w /\ k = 0

(* The map of usb.cpp:225-229 offers the whole application, and wValue has *)
(* room for the number every block of an update is sent under.             *)
ASSUME HostAssumption ==
  /\ BootEnd .. (flash_end - 1) \subseteq CommandPages
  /\ MaxBlock >= 2

Installed(v) == \A k \in DOMAIN Image[v] : flash[BootEnd + k] = Image[v][k]

ImageLen(v) == Cardinality(DOMAIN Image[v])
Parts(n, size) == (n + size - 1) \div size
Erases(v) == Parts(ImageLen(v), PagesPerSector)
Chunks(v) == Parts(ImageLen(v), TransferPages)
LastStep(v) == Erases(v) + 2 * Chunks(v)

IsErase(v, n) == n <= Erases(v)
IsAddress(v, n) == ~ IsErase(v, n) /\ (n - Erases(v)) % 2 = 1

ChunkStart(v, n) == ((n - Erases(v) - 1) \div 2) * TransferPages

Chunk(v, first) ==
  LET len == ImageLen(v) - first
  IN [k \in 0 .. ((IF len < TransferPages THEN len ELSE TransferPages) - 1)
        |-> Image[v][first + k]]

(* wValue of the request.                                                  *)
BlockNumber(v, n) == IF IsErase(v, n) \/ IsAddress(v, n) THEN 0 ELSE 2

(* What the device does when the data of step n reach its data handler.    *)
Command(v, n) ==
  CASE IsErase(v, n)   -> ErasePage(BootEnd + (n - 1) * PagesPerSector)
    [] IsAddress(v, n) -> SetAddress(BootEnd + ChunkStart(v, n))
    [] OTHER           -> FirmwareBlock(Chunk(v, ChunkStart(v, n)))
=============================================================================
