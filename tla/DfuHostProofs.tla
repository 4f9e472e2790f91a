--------------------------- MODULE DfuHostProofs --------------------------
(***************************************************************************)
(* Lemmas about the list of commands of an update (DfuHost.tla) and what   *)
(* its commands do to a DFU machine, for every geometry and every set of   *)
(* images.  UpdateProofs and LinkProofs rest on them.                      *)
(***************************************************************************)
EXTENDS DfuHost, DfuProofs

USE GeometryAssumption DEF flashVars, jobVars, requestVars, ghostVars

(***************************************************************************)
(* The list of commands of an update.                                      *)
(***************************************************************************)
IsData(v, n) == ~ IsErase(v, n) /\ ~ IsAddress(v, n)

(* An image starts at page 0, and fits the application.                    *)
LEMMA ImageShape ==
  ASSUME NEW v \in Versions
  PROVE  \E n \in 1 .. (AppSectors * PagesPerSector) :
           /\ DOMAIN Image[v] = 0 .. (n - 1)
           /\ ImageLen(v) = n
           /\ \A k \in 0 .. (n - 1) : Image[v][k] \in Data
           /\ 0 \in DOMAIN Image[v]
           /\ n \in Nat \ {0}
           /\ BootEnd + n <= flash_end
<1>1. PICK n \in 1 .. (AppSectors * PagesPerSector) : Image[v] \in [0 .. (n - 1) -> Data]
  BY ImageAssumption
<1>2. AppSectors * PagesPerSector \in Nat
      /\ flash_end = BootEnd + AppSectors * PagesPerSector
  BY DEF flash_end, BootEnd
<1>3. n \in Nat \ {0} /\ n <= AppSectors * PagesPerSector /\ n - 1 \in Int
  BY <1>1, <1>2
<1>4. Cardinality(0 .. (n - 1)) = n
  BY <1>3, FS_Interval
<1>5. BootEnd + n <= flash_end /\ 0 \in 0 .. (n - 1)
  BY <1>2, <1>3, GeometryFacts
<1> QED BY <1>1, <1>3, <1>4, <1>5 DEF ImageLen

(* A number of parts of a size that covers n, with none too many.          *)
LEMMA PartsCover ==
  ASSUME NEW n \in Nat \ {0}, NEW size \in Nat \ {0}
  PROVE  /\ Parts(n, size) \in Nat
         /\ n <= Parts(n, size) * size
         /\ \A j \in Nat : j < Parts(n, size) => j * size < n
<1> DEFINE q == (n + size - 1) \div size
           r == (n + size - 1) % size
<1>1. q \in Nat /\ r \in 0 .. (size - 1) /\ n + size - 1 = q * size + r
  OBVIOUS
<1>2. Parts(n, size) = q
  BY DEF Parts
<1> HIDE DEF q, r
<1>3. q * size \in Nat
  BY <1>1
<1>4. ASSUME NEW j \in Nat, j < q PROVE j * size < n
  <2>1. (j + 1) * size <= q * size
    BY <1>1, <1>4, TimesMono
  <2>2. (j + 1) * size = j * size + size /\ j * size \in Nat
    OBVIOUS
  <2> QED BY <1>1, <1>3, <2>1, <2>2
<1> QED BY <1>1, <1>2, <1>3, <1>4

LEMMA PartsOfImage ==
  ASSUME NEW v \in Versions
  PROVE  /\ Erases(v) \in Nat /\ Chunks(v) \in Nat /\ LastStep(v) \in Nat
         /\ ImageLen(v) \in Nat \ {0}
         /\ ImageLen(v) <= Chunks(v) * TransferPages
         /\ \A j \in Nat : j < Erases(v) => j * PagesPerSector < ImageLen(v)
         /\ \A j \in Nat : j < Chunks(v) => j * TransferPages < ImageLen(v)
<1>1. ImageLen(v) \in Nat \ {0}
  BY ImageShape
<1>2. PagesPerSector \in Nat \ {0} /\ TransferPages \in Nat \ {0}
  BY ProtocolAssumption
<1>3. /\ Erases(v) \in Nat
      /\ \A j \in Nat : j < Erases(v) => j * PagesPerSector < ImageLen(v)
  BY <1>1, <1>2, PartsCover DEF Erases
<1>4. /\ Chunks(v) \in Nat
      /\ ImageLen(v) <= Chunks(v) * TransferPages
      /\ \A j \in Nat : j < Chunks(v) => j * TransferPages < ImageLen(v)
  BY <1>1, <1>2, PartsCover DEF Chunks
<1>5. LastStep(v) \in Nat
  BY <1>3, <1>4 DEF LastStep
<1> QED BY <1>1, <1>3, <1>4, <1>5

(* Every step is an erase, or the first or second step of a chunk.         *)
LEMMA StepShape ==
  ASSUME NEW v \in Versions, NEW n \in Nat, ~ IsErase(v, n)
  PROVE  \E j \in Nat :
           /\ ChunkStart(v, n) = j * TransferPages
           /\ n <= LastStep(v) => j < Chunks(v)
           /\ \/ IsAddress(v, n) /\ ~ IsData(v, n) /\ n = Erases(v) + 2 * j + 1
              \/ ~ IsAddress(v, n) /\ IsData(v, n) /\ n = Erases(v) + 2 * j + 2
<1> DEFINE m == n - Erases(v) - 1
           j == m \div 2
<1>1. m \in Nat /\ n = Erases(v) + m + 1
  BY PartsOfImage DEF IsErase
<1>2. j \in Nat /\ (m = 2 * j \/ m = 2 * j + 1)
  BY <1>1
<1>3. ChunkStart(v, n) = j * TransferPages
  BY DEF ChunkStart
<1>4. n <= LastStep(v) => m < 2 * Chunks(v)
  BY <1>1, PartsOfImage DEF LastStep
<1>5. n - Erases(v) = m + 1
  BY <1>1, PartsOfImage
<1>6. IsAddress(v, n) <=> (m + 1) % 2 = 1
  BY <1>5 DEF IsAddress
<1> HIDE DEF m, j
<1>7. n <= LastStep(v) => j < Chunks(v)
  BY <1>2, <1>4, PartsOfImage
<1>8. CASE m = 2 * j
  <2>1. (m + 1) % 2 = 1
    BY <1>2, <1>8
  <2> QED BY <1>1, <1>2, <1>3, <1>6, <1>7, <1>8, <2>1, PartsOfImage DEF IsData
<1>9. CASE m = 2 * j + 1
  <2>1. (m + 1) % 2 = 0
    BY <1>2, <1>9
  <2> QED BY <1>1, <1>2, <1>3, <1>6, <1>7, <1>9, <2>1, PartsOfImage DEF IsData
<1> QED BY <1>2, <1>8, <1>9

(* A sector the host erases is one it may name.                            *)
LEMMA EraseIsNamed ==
  ASSUME NEW v \in Versions, NEW n \in Nat \ {0}, IsErase(v, n)
  PROVE  BootEnd + (n - 1) * PagesPerSector \in CommandPages
<1>1. n - 1 \in Nat /\ n - 1 < Erases(v)
  BY PartsOfImage DEF IsErase
<1>2. (n - 1) * PagesPerSector < ImageLen(v)
  BY <1>1, PartsOfImage
<1>3. (n - 1) * PagesPerSector \in Nat
  BY <1>1
<1>4. BootEnd + ImageLen(v) <= flash_end /\ ImageLen(v) \in Nat
  BY ImageShape
<1> HIDE DEF BootEnd
<1>5. BootEnd + (n - 1) * PagesPerSector \in BootEnd .. (flash_end - 1)
  BY <1>2, <1>3, <1>4, GeometryFacts
<1> QED BY <1>5, HostAssumption

(* So is the address of a chunk, and a chunk is a block of the image.      *)
LEMMA ChunkShape ==
  ASSUME NEW v \in Versions, NEW n \in Nat, ~ IsErase(v, n), n <= LastStep(v)
  PROVE  LET first == ChunkStart(v, n)
             data  == Chunk(v, first)
         IN /\ first \in Nat /\ first < ImageLen(v)
            /\ BootEnd + first \in CommandPages
            /\ data \in Blocks
            /\ \A k \in DOMAIN data : /\ k \in Nat
                                      /\ first + k \in DOMAIN Image[v]
                                      /\ data[k] = Image[v][first + k]
            /\ \A k \in DOMAIN Image[v] :
                 first <= k /\ k < first + TransferPages => k - first \in DOMAIN data
<1> DEFINE first == ChunkStart(v, n)
           data  == Chunk(v, first)
<1>1. PICK j \in Nat : first = j * TransferPages /\ j < Chunks(v)
  BY StepShape
<1>2. first \in Nat /\ first < ImageLen(v)
  BY <1>1, PartsOfImage, GeometryFacts
<1>3. PICK len \in Nat \ {0} :
        /\ DOMAIN Image[v] = 0 .. (len - 1)
        /\ ImageLen(v) = len
        /\ \A k \in 0 .. (len - 1) : Image[v][k] \in Data
        /\ BootEnd + len <= flash_end
  BY ImageShape
<1>4. BootEnd + first \in CommandPages
  <2>1. BootEnd + first \in BootEnd .. (flash_end - 1)
    BY <1>2, <1>3, GeometryFacts
  <2> QED BY <2>1, HostAssumption
<1> DEFINE size == IF len - first < TransferPages THEN len - first ELSE TransferPages
<1>5. size \in 1 .. TransferPages /\ first + size <= len
      /\ \A k \in 0 .. (len - 1) :
            first <= k /\ k < first + TransferPages => k - first \in 0 .. (size - 1)
  BY <1>2, <1>3, GeometryFacts
<1>6. data = [k \in 0 .. (size - 1) |-> Image[v][first + k]]
  BY <1>3 DEF Chunk
<1> HIDE DEF first, size, data
<1>7. \A k \in 0 .. (size - 1) : k \in Nat /\ first + k \in 0 .. (len - 1)
  BY <1>2, <1>3, <1>5
<1>8. data \in [0 .. (size - 1) -> Data]
  BY <1>3, <1>6, <1>7
<1>9. data \in Blocks
  BY <1>5, <1>8 DEF Blocks
<1>10. \A k \in DOMAIN data : /\ k \in Nat
                              /\ first + k \in DOMAIN Image[v]
                              /\ data[k] = Image[v][first + k]
  BY <1>3, <1>6, <1>7
<1>11. \A k \in DOMAIN Image[v] :
         first <= k /\ k < first + TransferPages => k - first \in DOMAIN data
  BY <1>3, <1>5, <1>6
<1> QED BY <1>2, <1>4, <1>9, <1>10, <1>11 DEF first, data

(* What comes after a step: after an erase nothing is sent yet, an address *)
(* is followed by its chunk, a chunk by the address of the next one.       *)
LEMMA StepAfter ==
  ASSUME NEW v \in Versions, NEW n \in Nat
  PROVE  /\ IsErase(v, n) => /\ ~ IsData(v, n + 1)
                             /\ ChunkStart(v, n + 1) <= 0 /\ ChunkStart(v, n) <= 0
         /\ IsErase(v, 1)
         /\ IsAddress(v, n) => ChunkStart(v, n + 1) = ChunkStart(v, n)
         /\ IsData(v, n) =>
              /\ ~ IsData(v, n + 1)
              /\ ChunkStart(v, n + 1) = ChunkStart(v, n) + TransferPages
         /\ ~ IsErase(v, n) => ~ IsErase(v, n + 1)
         /\ ChunkStart(v, n) \in Int
<1>0. n + 1 \in Nat /\ Erases(v) \in Nat /\ TransferPages \in Nat \ {0}
  BY PartsOfImage, GeometryFacts
<1>4. ASSUME NEW q \in Int, q <= 0 PROVE q * TransferPages <= 0
  <2>1. 0 - q \in Nat /\ (0 - q) * TransferPages \in Nat
    BY <1>0, <1>4
  <2> QED BY <1>0, <1>4, <2>1
<1>1. ASSUME IsErase(v, n) PROVE ~ IsData(v, n + 1) /\ ChunkStart(v, n + 1) <= 0
  <2>1. CASE n + 1 <= Erases(v)
    <3> DEFINE q == (n + 1 - Erases(v) - 1) \div 2
    <3>1. q \in Int /\ q <= 0
      BY <1>0, <2>1
    <3>2. ChunkStart(v, n + 1) = q * TransferPages
      BY <1>0 DEF ChunkStart
    <3> HIDE DEF q
    <3> QED BY <1>4, <2>1, <3>1, <3>2 DEF IsData, IsErase
  <2>2. CASE n = Erases(v)
    <3>1. /\ (n + 1 - Erases(v)) % 2 = 1
          /\ (n + 1 - Erases(v) - 1) \div 2 = 0
          /\ ~ (n + 1 <= Erases(v))
      BY <1>0, <2>2
    <3>2. ChunkStart(v, n + 1) = 0
      BY <1>0, <3>1 DEF ChunkStart
    <3> QED BY <1>0, <3>1, <3>2 DEF IsData, IsErase, IsAddress
  <2> QED BY <1>0, <1>1, <2>1, <2>2 DEF IsErase
<1>2. ASSUME ~ IsErase(v, n)
      PROVE  /\ IsAddress(v, n) => ChunkStart(v, n + 1) = ChunkStart(v, n)
             /\ IsData(v, n) =>
                  /\ ~ IsData(v, n + 1)
                  /\ ChunkStart(v, n + 1) = ChunkStart(v, n) + TransferPages
             /\ ~ IsErase(v, n + 1)
  <2>1. ~ IsErase(v, n + 1)
    BY <1>0, <1>2 DEF IsErase
  <2>2. PICK j \in Nat :
          /\ ChunkStart(v, n) = j * TransferPages
          /\ \/ IsAddress(v, n) /\ ~ IsData(v, n) /\ n = Erases(v) + 2 * j + 1
             \/ ~ IsAddress(v, n) /\ IsData(v, n) /\ n = Erases(v) + 2 * j + 2
    BY <1>2, StepShape
  <2>3. PICK k \in Nat :
          /\ ChunkStart(v, n + 1) = k * TransferPages
          /\ \/ ~ IsData(v, n + 1) /\ n + 1 = Erases(v) + 2 * k + 1
             \/ n + 1 = Erases(v) + 2 * k + 2
    BY <1>0, <2>1, StepShape
  <2>4. CASE n = Erases(v) + 2 * j + 1 /\ IsAddress(v, n) /\ ~ IsData(v, n)
    <3>1. k = j
      BY <1>0, <2>3, <2>4
    <3> QED BY <2>1, <2>2, <2>3, <2>4, <3>1
  <2>5. CASE n = Erases(v) + 2 * j + 2 /\ ~ IsAddress(v, n) /\ IsData(v, n)
    <3>1. k = j + 1 /\ n + 1 # Erases(v) + 2 * k + 2
      BY <1>0, <2>3, <2>5
    <3>2. (j + 1) * TransferPages = j * TransferPages + TransferPages
      BY <1>0
    <3> QED BY <2>1, <2>2, <2>3, <2>5, <3>1, <3>2
  <2> QED BY <2>2, <2>4, <2>5
<1>3. ChunkStart(v, n) \in Int
  <2>1. (n - Erases(v) - 1) \div 2 \in Int
    BY <1>0
  <2> QED BY <1>0, <2>1 DEF ChunkStart
<1>5. ASSUME IsErase(v, n) PROVE ChunkStart(v, n) <= 0
  <2> DEFINE q == (n - Erases(v) - 1) \div 2
  <2>1. q \in Int /\ q <= 0
    BY <1>0, <1>5 DEF IsErase
  <2>2. ChunkStart(v, n) = q * TransferPages
    BY <1>0 DEF ChunkStart
  <2> HIDE DEF q
  <2> QED BY <1>4, <2>1, <2>2
<1>6. IsErase(v, 1)
  <2>1. Erases(v) # 0
    <3>1. 0 * PagesPerSector = 0 /\ ImageLen(v) <= Erases(v) * PagesPerSector
      BY PartsOfImage, PartsCover DEF Erases
    <3> QED BY <3>1, PartsOfImage
  <2> QED BY <1>0, <2>1 DEF IsErase
<1> QED BY <1>1, <1>2, <1>3, <1>5, <1>6 DEF IsAddress, IsData

(* Behind the last step the whole image is behind the host.                *)
LEMMA ListCoversImage ==
  ASSUME NEW v \in Versions, NEW n \in Nat, n = LastStep(v) + 1
  PROVE  \A k \in DOMAIN Image[v] : k < ChunkStart(v, n)
<1>0. Erases(v) \in Nat /\ Chunks(v) \in Nat /\ TransferPages \in Nat
  BY PartsOfImage, GeometryFacts
<1>1. (n - Erases(v) - 1) \div 2 = Chunks(v)
  BY <1>0 DEF LastStep
<1>2. ChunkStart(v, n) = Chunks(v) * TransferPages /\ Chunks(v) * TransferPages \in Nat
  BY <1>0, <1>1 DEF ChunkStart
<1> QED BY <1>2, ImageShape, PartsOfImage

(***************************************************************************)
(* What a step of the update is to the DFU machine: one of its own, or a   *)
(* failure that only spends one of the interruptions.                      *)
(***************************************************************************)
Interrupted ==
  /\ Fault
  /\ UNCHANGED <<flash, state, status, dfu_address, dfu_block_num, pc, awaiting,
                 jobVars, ghostVars>>

MachineStep == [Next]_vars \/ Interrupted

(* The commands of the host are commands of the DFU machine.               *)
LEMMA CommandIsTransfer ==
  ASSUME NEW v \in Versions, NEW n \in Nat \ {0}, n <= LastStep(v), Command(v, n)
  PROVE  Transfers
<1>1. CASE IsErase(v, n)
  <2>1. ErasePage(BootEnd + (n - 1) * PagesPerSector)
    BY <1>1 DEF Command, IsAddress
  <2> QED BY <1>1, <2>1, EraseIsNamed DEF Transfers
<1>2. CASE IsAddress(v, n)
  <2>1. SetAddress(BootEnd + ChunkStart(v, n)) /\ ~ IsErase(v, n)
    BY <1>2 DEF Command, IsAddress
  <2> QED BY <2>1, ChunkShape DEF Transfers
<1>3. CASE IsData(v, n)
  <2>1. FirmwareBlock(Chunk(v, ChunkStart(v, n))) /\ ~ IsErase(v, n)
    BY <1>3 DEF Command, IsData
  <2> QED BY <2>1, ChunkShape DEF Transfers
<1> QED BY <1>1, <1>2, <1>3 DEF IsData

(* The DFU machine keeps its own invariants.                               *)
LEMMA MachineNext ==
  ASSUME TypeOK, Control, Kept, MachineStep
  PROVE  TypeOK' /\ Control' /\ Kept'
<1>1. CASE [Next]_vars
  BY <1>1, TypeNext, ControlNext, KeptNext
<1>2. CASE Interrupted
  <2>1. TypeOK'
    BY <1>2 DEF Interrupted, Fault, TypeOK, FlashTypeOK
  <2>2. Control'
    BY <1>2 DEF Interrupted, Control, StatusStateAgree, ResetIsNext
  <2>3. Kept'
    BY <1>2 DEF Interrupted, Kept, PromiseKept, Holds, RangeWork, BlockWork,
       FirmwareWork, LoopWork, ProgramsErasedPages, fmc_page_is_erased
  <2> QED BY <2>1, <2>2, <2>3
<1> QED BY <1>1, <1>2 DEF MachineStep

(***************************************************************************)
(* What a step may do to one page of the flash.                            *)
(***************************************************************************)
Programs(q) ==
  /\ pc = "program" /\ i \in DOMAIN rx /\ q = wa + i
  /\ flash[q] = Erased /\ flash'[q] \in {rx[i]} \cup Scars({rx[i]})

PageStep(q) ==
  \/ flash'[q] = flash[q]
  \/ q \in BusyPages /\ flash'[q] \in {Erased} \cup Garbled({flash[q]})
  \/ Programs(q)

(* One page is changed in the place that is named, and nowhere else.       *)
LEMMA OnePage ==
  ASSUME FlashTypeOK, NEW p, NEW left, flash' = [flash EXCEPT ![p] = left], NEW q \in Pages
  PROVE  flash'[q] = IF q = p THEN left ELSE flash[q]
BY DEF FlashTypeOK

(* A page keeps its contents, is lost to the erase or the fault it is in   *)
(* the middle of, or takes the datum the program loop has for it, or what  *)
(* a fault leaves of that, and then it was erased.                         *)
LEMMA PageEffect ==
  ASSUME TypeOK, Kept, MachineStep, NEW q \in Pages
  PROVE  PageStep(q)
<1>0. FlashTypeOK
  BY DEF TypeOK
<1>1. ASSUME NEW ok, fmc_erase_page(wa + i, ok), pc \in {"range", "erase"}
      PROVE  PageStep(q)
  <2>1. PICK left \in {Erased, flash[wa + i]} \cup Garbled({flash[wa + i]}) :
          flash' = [flash EXCEPT ![wa + i] = left]
    BY <1>1 DEF fmc_erase_page
  <2>2. flash'[q] = IF q = wa + i THEN left ELSE flash[q]
    BY <1>0, <2>1, OnePage
  <2> QED BY <1>1, <2>1, <2>2 DEF PageStep, BusyPages
<1>2. CASE RangeStep
  BY <1>1, <1>2 DEF RangeStep
<1>3. CASE BlockStep
  <2>1. BusyPages = Span(wa, BlockPages)
    BY <1>3 DEF BlockStep, BusyPages
  <2>2. flash' = Blanked(BusyPages) \/ flash' \in Disturbances(BusyPages)
    BY <1>3, <2>1 DEF BlockStep, fmc_erase_32k
  <2>3. CASE flash' = Blanked(BusyPages)
    BY <2>3 DEF Blanked, PageStep
  <2>4. CASE flash' \in Disturbances(BusyPages)
    BY <1>0, <2>4, DisturbedEffect DEF PageStep
  <2> QED BY <2>2, <2>3, <2>4
<1>4. CASE EraseStep
  BY <1>1, <1>4 DEF EraseStep, PageStep
<1>5. CASE ProgramStep
  <2>1. PICK ok \in BOOLEAN : fmc_write_block(wa + i, rx[i], ok)
    BY <1>5 DEF ProgramStep
  <2>2. pc = "program" /\ i \in DOMAIN rx /\ flash[wa + i] = Erased
    <3>1. pc = "program" /\ i \in DOMAIN rx
      BY <1>5 DEF ProgramStep, TypeOK
    <3>2. i >= i
      BY GeometryFacts DEF TypeOK
    <3> QED BY <3>1, <3>2 DEF Kept, LoopWork, ProgramsErasedPages, fmc_page_is_erased
  <2>3. PICK left \in {rx[i], flash[wa + i]} \cup Garbled({flash[wa + i], rx[i]}) :
          flash' = [flash EXCEPT ![wa + i] = left]
    BY <2>1, <2>2 DEF fmc_write_block
  <2>4. flash'[q] = IF q = wa + i THEN left ELSE flash[q]
    BY <1>0, <2>3, OnePage
  <2>5. left \in {rx[i], flash[wa + i]} \cup Garbled({flash[wa + i]}) \cup Scars({rx[i]})
    BY <2>3 DEF Garbled, Scars
  <2>6. CASE q # wa + i
    BY <2>4, <2>6 DEF PageStep
  <2>7. CASE q = wa + i
    BY <2>2, <2>4, <2>5, <2>7 DEF PageStep, Programs, BusyPages
  <2> QED BY <2>6, <2>7
<1>6. CASE PowerFailure
  <2>1. CutOff(BusyPages, IF pc = "program" THEN {rx[i]} ELSE {})
    BY <1>6 DEF PowerFailure
  <2>2. CASE flash' \in Disturbances(BusyPages)
    BY <1>0, <2>2, DisturbedEffect DEF PageStep
  <2>3. CASE flash' \notin Disturbances(BusyPages)
    <3>1. PICK p \in BusyPages, left \in Scars(IF pc = "program" THEN {rx[i]} ELSE {}) :
            flash' = [flash EXCEPT ![p] = left]
      BY <2>1, <2>3 DEF CutOff
    <3>2. pc = "program" /\ left \in Scars({rx[i]})
      BY <3>1 DEF Scars
    <3>3. p = wa + i /\ i \in DOMAIN rx /\ p \in Pages
      BY <3>1, <3>2 DEF BusyPages, TypeOK
    <3>4. flash[p] = Erased
      <4>1. i >= i
        BY GeometryFacts DEF TypeOK
      <4> QED BY <3>2, <3>3, <4>1 DEF Kept, LoopWork, ProgramsErasedPages, fmc_page_is_erased
    <3>5. flash'[q] = IF q = p THEN left ELSE flash[q]
      BY <1>0, <3>1, OnePage
    <3> QED BY <3>2, <3>3, <3>4, <3>5 DEF PageStep, Programs
  <2> QED BY <2>2, <2>3
<1>7. CASE UNCHANGED flash
  BY <1>7 DEF PageStep
<1>8. Requests \/ Transfers \/ VerifyStep \/ MainCheck \/ Restart \/ Interrupted
        \/ UNCHANGED vars => UNCHANGED flash
  <2>1. Requests => UNCHANGED flash
    BY DEF Requests, Detach, DnloadManifest, Upload, GetStatus, ClrStatus, GetState,
       Abort, DnloadBlock, Setup
  <2>2. Transfers => UNCHANGED flash
    BY DEF Transfers, SetAddress, ErasePage, UnknownCommand, IgnoredData, FirmwareBlock,
       DataStage
  <2>3. VerifyStep \/ MainCheck \/ Restart \/ Interrupted \/ UNCHANGED vars
          => UNCHANGED flash
    BY DEF VerifyStep, MainCheck, Restart, Interrupted, vars
  <2> QED BY <2>1, <2>2, <2>3
<1> QED BY <1>2, <1>3, <1>4, <1>5, <1>6, <1>7, <1>8
        DEF MachineStep, Next, Device, DataSteps

(* Only a working handler has pages at stake; those of a block at work lie *)
(* at or above its first page.                                             *)
LEMMA BusyPlaces ==
  ASSUME TypeOK, NEW q \in BusyPages
  PROVE  pc \in Working /\ wa <= q /\ q \in Pages
<1>1. wa \in Nat /\ i \in Nat
  BY GeometryFacts DEF TypeOK
<1>2. wa <= wa + i
  BY <1>1
<1> QED BY <1>2 DEF BusyPages, Span, Working

(* No page changes unless a handler is at work at it or below it.          *)
LEMMA KeepsOthers ==
  ASSUME TypeOK, Kept, MachineStep, NEW q \in Pages, pc \in Working => ~ (wa <= q)
  PROVE  flash'[q] = flash[q]
<1>1. PageStep(q)
  BY PageEffect
<1>2. q \notin BusyPages
  BY BusyPlaces
<1>3. ~ Programs(q)
  <2>1. pc = "program" => wa <= wa + i
    BY GeometryFacts DEF TypeOK
  <2> QED BY <2>1 DEF Programs, Working
<1> QED BY <1>1, <1>2, <1>3 DEF PageStep

(* What a step of the data handler leaves to the rest of the program.      *)
LEMMA HandlerEffect ==
  ASSUME DataSteps
  PROVE  /\ pc \in Working /\ pc' \in Working \cup {"check"}
         /\ pc' \in {"range", "block"} => pc = "range"
         /\ state' \in {state, "ERROR"}
         /\ UNCHANGED <<dfu_address, dfu_block_num, awaiting, asked>>
         /\ pc' \in Firmware => pc \in Firmware /\ UNCHANGED <<wa, rx>>
BY DEF DataSteps, RangeStep, BlockStep, EraseStep, ProgramStep, VerifyStep, JobStep,
   Advance, GoOn, Fail, Finish, Return, Working, Firmware

(* The data stage of a command: one of three, by the step.                 *)
LEMMA CommandCases ==
  ASSUME NEW v, NEW n, Command(v, n)
  PROVE  \/ IsErase(v, n) /\ ErasePage(BootEnd + (n - 1) * PagesPerSector)
         \/ IsAddress(v, n) /\ ~ IsErase(v, n) /\ SetAddress(BootEnd + ChunkStart(v, n))
         \/ IsData(v, n) /\ FirmwareBlock(Chunk(v, ChunkStart(v, n)))
BY DEF Command, IsAddress, IsData

(* What the data stage of a chunk asks for: the pages of it at its place.  *)
ChunkAsked(first, data) ==
  asked = [p \in {first + k : k \in DOMAIN data} |-> data[p - first]]

(* When that holds the chunk is in the flash.                              *)
LEMMA AskedIsHeld ==
  ASSUME NEW v \in Versions, NEW n \in Nat, ~ IsErase(v, n), n <= LastStep(v),
         ChunkAsked(BootEnd + ChunkStart(v, n), Chunk(v, ChunkStart(v, n))),
         Holds(asked), NEW k \in DOMAIN Image[v],
         ChunkStart(v, n) <= k, k < ChunkStart(v, n) + TransferPages
  PROVE  flash[BootEnd + k] = Image[v][k]
<1> DEFINE first == ChunkStart(v, n)
           data  == Chunk(v, first)
<1>1. ChunkAsked(BootEnd + first, data)
  OBVIOUS
<1>2. /\ first \in Nat /\ k - first \in DOMAIN data
      /\ data[k - first] = Image[v][first + (k - first)]
  BY <1>1, ChunkShape
<1>3. k \in Nat /\ BootEnd \in Nat
  BY <1>1, ImageShape, GeometryFacts
<1> HIDE DEF first, data
<1>4. /\ BootEnd + k = BootEnd + first + (k - first)
      /\ BootEnd + k - (BootEnd + first) = k - first
      /\ first + (k - first) = k
  BY <1>2, <1>3
<1>5. BootEnd + k \in DOMAIN asked /\ asked[BootEnd + k] = data[k - first]
  <2> DEFINE base == BootEnd + first
             p    == BootEnd + k
  <2>1. asked = [q \in {base + j : j \in DOMAIN data} |-> data[q - base]]
    BY <1>1 DEF ChunkAsked
  <2>2. p = base + (k - first) /\ p - base = k - first
    BY <1>2, <1>3, <1>4
  <2> HIDE DEF base, p
  <2>3. p \in {base + j : j \in DOMAIN data}
    BY <1>2, <2>2
  <2>4. p \in DOMAIN asked /\ asked[p] = data[p - base]
    BY <2>1, <2>3
  <2> QED BY <2>2, <2>4 DEF p
<1> QED BY <1>1, <1>2, <1>4, <1>5 DEF Holds

(* A chunk is sent as block 2, so that it goes where SET_ADDRESS said      *)
(* (dfu.cpp:240).                                                          *)
LEMMA BlockTwo ==
  ASSUME dfu_address \in Pages
  PROVE  BlockAddress(2) = dfu_address
<1>1. 2 \in 2 .. MaxBlock /\ (2 - 2) * TransferPages = 0 /\ dfu_address \in Int
  BY HostAssumption, GeometryFacts DEF Pages
<1> QED BY <1>1, BlockAddressExact
=============================================================================
