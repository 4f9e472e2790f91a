----------------------------- MODULE DfuProofs -----------------------------
(***************************************************************************)
(* Theorems about Dfu.tla for every geometry of the flash, every set of    *)
(* contents, any number of faults and every number of blocks.              *)
(***************************************************************************)
EXTENDS Dfu, FiniteSetTheorems, TLAPS

USE GeometryAssumption DEF flashVars, jobVars, requestVars, ghostVars

(***************************************************************************)
(* Arithmetic of pages, sectors and blocks.                                *)
(***************************************************************************)

(* Multiplication by a natural number is monotone.                         *)
LEMMA TimesMono ==
  ASSUME NEW a \in Nat, NEW b \in Nat, NEW c \in Nat, a <= b
  PROVE  a * c <= b * c
<1>1. PICK d \in Nat : b = a + d
  BY b - a \in Nat
<1>2. (a + d) * c = a * c + d * c /\ d * c \in Nat
  OBVIOUS
<1> QED BY <1>1, <1>2

(* Rounding down to a sector boundary stays above any boundary below.      *)
LEMMA SectorStartBounds ==
  ASSUME NEW p \in Nat, NEW n \in Nat
  PROVE  /\ SectorStart(p) \in Nat
         /\ SectorStart(p) <= p
         /\ n * PagesPerSector <= p => n * PagesPerSector <= SectorStart(p)
         /\ p < n * PagesPerSector =>
              SectorStart(p) + PagesPerSector <= n * PagesPerSector
<1> DEFINE q == p \div PagesPerSector
           r == p % PagesPerSector
<1>1. q \in Nat /\ r \in 0 .. (PagesPerSector - 1) /\ p = q * PagesPerSector + r
  OBVIOUS
<1>2. SectorStart(p) = q * PagesPerSector
  BY <1>1 DEF SectorStart
<1> HIDE DEF q, r
<1>3. q * PagesPerSector \in Nat /\ n * PagesPerSector \in Nat
  BY <1>1
<1>4. ASSUME n * PagesPerSector <= p
      PROVE  n * PagesPerSector <= q * PagesPerSector
  <2>1. CASE n <= q
    BY <2>1, <1>1, TimesMono
  <2>2. CASE q + 1 <= n
    <3>1. (q + 1) * PagesPerSector <= n * PagesPerSector
      BY <2>2, <1>1, TimesMono
    <3> QED BY <3>1, <1>1, <1>3, <1>4
  <2> QED BY <2>1, <2>2, <1>1
<1>5. ASSUME p < n * PagesPerSector
      PROVE  q * PagesPerSector + PagesPerSector <= n * PagesPerSector
  <2>1. CASE q + 1 <= n
    <3>1. (q + 1) * PagesPerSector <= n * PagesPerSector
      BY <2>1, <1>1, TimesMono
    <3> QED BY <3>1, <1>1, <1>3
  <2>2. CASE n <= q
    <3>1. n * PagesPerSector <= q * PagesPerSector
      BY <2>2, <1>1, TimesMono
    <3> QED BY <3>1, <1>1, <1>3, <1>5
  <2> QED BY <2>1, <2>2, <1>1
<1> QED BY <1>1, <1>2, <1>3, <1>4, <1>5

(* Where the bootloader ends and the flash ends.                           *)
LEMMA GeometryFacts ==
  /\ BootEnd \in Nat \ {0}
  /\ flash_end \in Nat
  /\ BootEnd < flash_end
  /\ flash_end < AddrSpace
  /\ AddrSpace \in Nat \ {0}
  /\ TransferPages \in Nat \ {0}
  /\ MaxBlock \in Nat
<1>1. BootEnd \in Nat /\ PagesPerSector <= BootEnd
  BY TimesMono, 1 \in Nat DEF BootEnd
<1>2. flash_end = BootEnd + AppSectors * PagesPerSector
  BY DEF flash_end, BootEnd
<1>3. AppSectors * PagesPerSector \in Nat /\ 1 * PagesPerSector <= AppSectors * PagesPerSector
  BY TimesMono, 1 \in Nat
<1>4. (MaxBlock + 1) * TransferPages \in Nat
  BY ProtocolAssumption
<1> QED BY <1>1, <1>2, <1>3, <1>4, AddressAssumption, ProtocolAssumption

(* A block is a non-empty run of pages that starts at offset 0.            *)
LEMMA BlockShape ==
  ASSUME NEW data \in Blocks
  PROVE  \E n \in 1 .. TransferPages :
           /\ DOMAIN data = 0 .. (n - 1)
           /\ Cardinality(DOMAIN data) = n
           /\ data \in [0 .. (n - 1) -> Data]
<1>1. PICK n \in 1 .. TransferPages : data \in [0 .. (n - 1) -> Data]
  BY DEF Blocks
<1>2. n \in Nat /\ 0 <= n - 1 /\ n - 1 \in Int
  BY <1>1, GeometryFacts
<1>3. Cardinality(0 .. (n - 1)) = n
  BY <1>2, FS_Interval
<1> QED BY <1>1, <1>3

(* The first page of a firmware block is the address plus the offset: with *)
(* an address inside the flash nothing wraps.                              *)
LEMMA BlockAddressExact ==
  ASSUME dfu_address \in Pages, NEW n \in 2 .. MaxBlock
  PROVE  /\ BlockAddress(n) = dfu_address + (n - 2) * TransferPages
         /\ BlockAddress(n) \in Nat
         /\ dfu_address <= BlockAddress(n)
         /\ BlockAddress(n) + TransferPages < AddrSpace
<1> DEFINE off == (n - 2) * TransferPages
           top == (MaxBlock + 1) * TransferPages
<1>1. n - 2 \in Nat /\ n - 1 \in Nat /\ n - 1 <= MaxBlock + 1
  BY GeometryFacts
<1>2. off \in Nat /\ top \in Nat /\ (n - 1) * TransferPages = off + TransferPages
  BY <1>1, GeometryFacts
<1>3. (n - 1) * TransferPages <= top
  BY <1>1, GeometryFacts, TimesMono
<1>4. dfu_address \in Nat /\ dfu_address < flash_end
  BY GeometryFacts DEF Pages
<1>5. flash_end + top < AddrSpace
  BY AddressAssumption
<1> HIDE DEF off, top
<1>6. /\ dfu_address + off \in Nat
      /\ dfu_address + off + TransferPages < AddrSpace
  BY <1>2, <1>3, <1>4, <1>5, GeometryFacts
<1>7. (dfu_address + off) % AddrSpace = dfu_address + off
  BY <1>6, GeometryFacts
<1> QED BY <1>2, <1>4, <1>6, <1>7 DEF BlockAddress, off

(***************************************************************************)
(* What the flash operations do to the flash.                              *)
(***************************************************************************)

(* Whatever was lost, what is left is something a page can hold.           *)
LEMMA GarbledContent ==
  ASSUME NEW contents
  PROVE  Garbled(contents) \subseteq Content /\ Scars(contents) \subseteq Content
<1>1. Scars(contents) \subseteq Scars(Data)
  BY ContentAssumption DEF Scars
<1> QED BY <1>1 DEF Garbled, Content

(* An erase of one page leaves the others alone and, if it succeeds, the   *)
(* page erased.                                                            *)
LEMMA ErasePageEffect ==
  ASSUME FlashTypeOK, NEW p, NEW ok, fmc_erase_page(p, ok)
  PROVE  /\ FlashTypeOK'
         /\ \A q \in Pages : q # p => flash'[q] = flash[q]
         /\ ok /\ p \in Pages => flash'[p] = Erased
<1>1. PICK left \in {Erased, flash[p]} \cup Garbled({flash[p]}), ended \in BOOLEAN :
        /\ FaultUnless(left = Erased /\ ended)
        /\ flash' = [flash EXCEPT ![p] = left]
        /\ ok = (ended /\ left = Erased)
  BY DEF fmc_erase_page
<1>2. faults' \in 0 .. MaxFaults
  BY <1>1 DEF FlashTypeOK, FaultUnless, Fault
<1>3. p \in Pages => left \in Content
  BY <1>1, GarbledContent DEF FlashTypeOK, Content
<1>4. flash' \in [Pages -> Content]
  BY <1>1, <1>3 DEF FlashTypeOK
<1> QED BY <1>1, <1>2, <1>4 DEF FlashTypeOK

(* So does programming a page, whose outcome nothing guarantees.           *)
LEMMA WriteBlockEffect ==
  ASSUME FlashTypeOK, NEW p, NEW datum \in Data, NEW ok,
         fmc_write_block(p, datum, ok)
  PROVE  /\ FlashTypeOK'
         /\ \A q \in Pages : q # p => flash'[q] = flash[q]
<1> DEFINE intended == IF flash[p] = Erased THEN datum ELSE Junk
<1>1. PICK left \in {intended, flash[p]} \cup Garbled({flash[p], datum}), ended \in BOOLEAN :
        /\ FaultUnless(left = intended /\ ended)
        /\ flash' = [flash EXCEPT ![p] = left]
  BY DEF fmc_write_block
<1>2. faults' \in 0 .. MaxFaults
  BY <1>1 DEF FlashTypeOK, FaultUnless, Fault
<1>3. intended \in Content
  BY DEF Content, Garbled
<1> HIDE DEF intended
<1>4. p \in Pages => left \in Content
  BY <1>1, <1>3, GarbledContent DEF FlashTypeOK
<1>5. flash' \in [Pages -> Content]
  BY <1>1, <1>4 DEF FlashTypeOK
<1> QED BY <1>1, <1>2, <1>5 DEF FlashTypeOK

(* A disturbed operation leaves contents, and harms no other page.         *)
LEMMA DisturbedEffect ==
  ASSUME FlashTypeOK, NEW pages, NEW left \in Disturbances(pages)
  PROVE  /\ left \in [Pages -> Content]
         /\ \A q \in Pages : q \notin pages => left[q] = flash[q]
         /\ \A q \in Pages : left[q] \in {Erased, flash[q]} \cup Garbled({flash[q]})
<1>1. PICK erased \in SUBSET pages :
        left \in UNION {{Disturbed(erased, scarred, junk) :
                            junk \in SUBSET (pages \ (erased \cup scarred))} :
                         scarred \in SUBSET Scarrable(pages \ erased)}
  BY DEF Disturbances
<1>2. PICK scarred \in SUBSET Scarrable(pages \ erased) :
        left \in {Disturbed(erased, scarred, junk) :
                     junk \in SUBSET (pages \ (erased \cup scarred))}
  BY <1>1
<1>3. PICK junk \in SUBSET (pages \ (erased \cup scarred)) :
        left = Disturbed(erased, scarred, junk)
  BY <1>2
<1>4. \A q \in scarred : q \in pages \ erased /\ flash[q] \in DOMAIN Scarred
  BY DEF Scarrable
<1>5. left = [q \in Pages |-> left[q]]
  BY <1>3 DEF Disturbed
<1>6. ASSUME NEW q \in Pages
      PROVE  /\ q \notin pages => left[q] = flash[q]
             /\ left[q] \in {Erased, flash[q]} \cup Garbled({flash[q]})
  <2>1. left[q] = CASE q \in erased  -> Erased
                    [] q \in scarred -> Scarred[flash[q]]
                    [] q \in junk    -> Junk
                    [] OTHER         -> flash[q]
    BY <1>3 DEF Disturbed
  <2>2. CASE q \in erased
    <3>1. q \notin scarred /\ q \notin junk
      BY <1>4, <2>2
    <3> QED BY <2>1, <2>2, <3>1
  <2>3. CASE q \in scarred
    <3>1. q \in pages \ erased /\ q \notin junk /\ flash[q] \in DOMAIN Scarred
      BY <1>4, <2>3
    <3>2. left[q] = Scarred[flash[q]]
      BY <2>1, <2>3, <3>1
    <3>3. Scarred[flash[q]] \in Scars({flash[q]})
      BY <3>1 DEF Scars
    <3> QED BY <3>1, <3>2, <3>3 DEF Garbled
  <2>4. CASE q \in junk
    BY <2>1, <2>4 DEF Garbled
  <2>5. CASE q \notin erased \cup scarred \cup junk
    BY <2>1, <2>5
  <2> QED BY <2>2, <2>3, <2>4, <2>5
<1>7. \A q \in Pages : left[q] \in Content
  BY <1>6, GarbledContent DEF FlashTypeOK, Content
<1> QED BY <1>5, <1>6, <1>7

(* A 32 KB erase changes nothing outside its block.                        *)
LEMMA Erase32kEffect ==
  ASSUME FlashTypeOK, NEW p, NEW ok, fmc_erase_32k(p, ok)
  PROVE  /\ FlashTypeOK'
         /\ \A q \in Pages : q \notin Span(p, BlockPages) => flash'[q] = flash[q]
<1> DEFINE block == Span(p, BlockPages)
<1>1. CASE flash' = Blanked(block) /\ UNCHANGED faults
  <2>1. Blanked(block) \in [Pages -> Content]
    BY DEF Blanked, FlashTypeOK, Content
  <2> QED BY <1>1, <2>1 DEF Blanked, FlashTypeOK
<1>2. CASE Fault /\ flash' \in Disturbances(block)
  BY <1>2, DisturbedEffect DEF FlashTypeOK, Fault
<1> QED BY <1>1, <1>2 DEF fmc_erase_32k

(* A power failure harms the pages being worked on and no others.          *)
LEMMA CutOffEffect ==
  ASSUME FlashTypeOK, NEW busy \in SUBSET Pages, NEW data, CutOff(busy, data), Fault
  PROVE  /\ FlashTypeOK'
         /\ \A q \in Pages : q \notin busy => flash'[q] = flash[q]
<1>1. CASE flash' \in Disturbances(busy)
  BY <1>1, DisturbedEffect DEF FlashTypeOK, Fault
<1>2. CASE \E p \in busy, left \in Scars(data) : flash' = [flash EXCEPT ![p] = left]
  BY <1>2, GarbledContent DEF FlashTypeOK, Fault
<1> QED BY <1>1, <1>2 DEF CutOff

(***************************************************************************)
(* Type correctness.                                                       *)
(***************************************************************************)
LEMMA TypeInit == Init => TypeOK
<1> SUFFICES ASSUME Init PROVE TypeOK
  OBVIOUS
<1>1. FlashTypeOK
  BY DEF Init, FlashInit, FlashTypeOK, Content
<1>2. 0 \in Pages
  BY GeometryFacts DEF Pages
<1>3. wa \in 0 .. (AddrSpace - 1) /\ i \in 0 .. (PagesPerSector + TransferPages)
  BY GeometryFacts DEF Init
<1>4. state \in dfu_state /\ status \in dfu_status /\ dfu_block_num \in 0 .. MaxBlock
  BY GeometryFacts DEF Init, dfu_state, dfu_status
<1>5. rx \in Blocks \cup {None} /\ dfu_address \in Pages /\ awaiting \in BOOLEAN
  BY <1>2 DEF Init
<1> QED BY <1>1, <1>3, <1>4, <1>5 DEF Init, TypeOK, Working

(* A request changes neither the flash nor the variables of a handler.     *)
LEMMA TypeRequests == TypeOK /\ Requests => TypeOK'
<1> SUFFICES ASSUME TypeOK, Requests PROVE TypeOK'
  OBVIOUS
<1> USE DEF TypeOK, FlashTypeOK, dfu_state, dfu_status, Working, Setup, SetState
<1>1. CASE Detach \/ DnloadManifest \/ Upload \/ ClrStatus \/ Abort
  BY <1>1 DEF Detach, DnloadManifest, Upload, ClrStatus, Abort
<1>2. CASE GetStatus \/ GetState
  BY <1>2 DEF GetStatus, GetState, AfterPoll
<1>3. ASSUME NEW n \in 0 .. MaxBlock, DnloadBlock(n) PROVE TypeOK'
  BY <1>3 DEF DnloadBlock
<1> QED BY <1>1, <1>2, <1>3 DEF Requests

(* What a handler that returns leaves behind.                              *)
LEMMA TypeReturn ==
  ASSUME TypeOK, FlashTypeOK', dfu_address' \in Pages, UNCHANGED dfu_block_num,
         awaiting' \in BOOLEAN, state' \in dfu_state, status' \in dfu_status,
         Return
  PROVE  TypeOK'
BY GeometryFacts DEF TypeOK, Return, Working

(* The data stage starts a handler or finishes at once.                    *)
LEMMA TypeTransfers == TypeOK /\ Transfers => TypeOK'
<1> SUFFICES ASSUME TypeOK, Transfers PROVE TypeOK'
  OBVIOUS
<1>0. /\ FlashTypeOK /\ (UNCHANGED flashVars => FlashTypeOK')
      /\ CommandPages \subseteq Pages
      /\ {"OK", "ERR_ADDRESS", "ERR_UNKNOWN"} \subseteq dfu_status
      /\ "ERROR" \in dfu_state
      /\ state \in dfu_state /\ status \in dfu_status /\ dfu_address \in Pages
  BY ProtocolAssumption DEF TypeOK, FlashTypeOK, dfu_status, dfu_state
<1>1. ASSUME NEW p \in CommandPages, SetAddress(p) PROVE TypeOK'
  BY <1>0, <1>1, TypeReturn DEF SetAddress, DataStage, Finish
<1>2. ASSUME UnknownCommand PROVE TypeOK'
  BY <1>0, <1>2, TypeReturn DEF UnknownCommand, DataStage, Fail
<1>3. ASSUME IgnoredData PROVE TypeOK'
  BY <1>0, <1>3, TypeReturn DEF IgnoredData, DataStage
<1>4. ASSUME NEW p \in CommandPages, ErasePage(p) PROVE TypeOK'
  <2>1. SectorStart(p) \in 0 .. (AddrSpace - 1)
    <3>1. p \in Nat /\ p < flash_end
      BY <1>0, GeometryFacts DEF Pages
    <3>2. SectorStart(p) \in Nat /\ SectorStart(p) <= p
      BY <3>1, SectorStartBounds
    <3> QED BY <3>1, <3>2, GeometryFacts
  <2>2. CASE SectorErased(SectorStart(p))
    BY <1>0, <1>4, <2>2, TypeReturn DEF ErasePage, DataStage, Finish
  <2>3. CASE ~ SectorErased(SectorStart(p))
    <3>1. /\ wa' = SectorStart(p) /\ i' = 0 /\ rx' = None
          /\ pc' \in {"block", "range"}
          /\ UNCHANGED <<state, status, flash, faults, dfu_address, dfu_block_num>>
          /\ awaiting' = FALSE
      BY <1>4, <2>3 DEF ErasePage, DataStage
    <3>2. FlashTypeOK'
      BY <1>0, <3>1
    <3>3. wa' \in 0 .. (AddrSpace - 1) /\ i' \in 0 .. (PagesPerSector + TransferPages)
          /\ i' < PagesPerSector
      BY <2>1, <3>1, GeometryFacts
    <3> QED BY <3>1, <3>2, <3>3 DEF TypeOK, Working
  <2> QED BY <2>2, <2>3
<1>5. ASSUME NEW data \in Blocks, FirmwareBlock(data) PROVE TypeOK'
  <2> DEFINE first == BlockAddress(dfu_block_num)
  <2>1. first \in 0 .. (AddrSpace - 1)
    <3>1. dfu_address \in Int /\ dfu_block_num - 2 \in Int /\ TransferPages \in Int
      BY GeometryFacts DEF TypeOK, Pages
    <3>2. (dfu_block_num - 2) * TransferPages \in Int
      BY <3>1
    <3> QED BY <3>1, <3>2, GeometryFacts DEF BlockAddress
  <2>2. CASE PastEnd(first, Cardinality(DOMAIN data))
    BY <1>0, <1>5, <2>2, TypeReturn DEF FirmwareBlock, DataStage, Fail
  <2>3. CASE ~ PastEnd(first, Cardinality(DOMAIN data))
    <3>1. /\ wa' = first /\ i' = 0 /\ rx' = data /\ pc' = "erase"
          /\ UNCHANGED <<state, status, flash, faults, dfu_address, dfu_block_num>>
          /\ awaiting' = FALSE
      BY <1>5, <2>3 DEF FirmwareBlock, DataStage
    <3>2. 0 \in DOMAIN data
      BY BlockShape
    <3>3. FlashTypeOK'
      BY <1>0, <3>1
    <3>4. wa' \in 0 .. (AddrSpace - 1) /\ i' \in 0 .. (PagesPerSector + TransferPages)
      BY <2>1, <3>1, GeometryFacts
    <3> QED BY <3>1, <3>2, <3>3, <3>4 DEF TypeOK, Working
  <2> QED BY <2>2, <2>3
<1> QED BY <1>1, <1>2, <1>3, <1>4, <1>5 DEF Transfers

(* The loops over a block have a block to loop over.                       *)
LEMMA RxIsBlock == TypeOK /\ pc \in {"erase", "program"} => rx \in Blocks
<1> SUFFICES ASSUME TypeOK, pc \in {"erase", "program"}, rx = None PROVE FALSE
  BY DEF TypeOK
<1>1. DOMAIN rx = {}
  BY DEF None
<1>2. i \in DOMAIN rx
  BY DEF TypeOK
<1> QED BY <1>1, <1>2

(* A running handler goes on inside its loop or returns.                   *)
LEMMA TypeDataSteps == TypeOK /\ DataSteps => TypeOK'
<1> SUFFICES ASSUME TypeOK, DataSteps PROVE TypeOK'
  OBVIOUS
<1>0. /\ FlashTypeOK
      /\ {"OK", "ERR_ERASE", "ERR_WRITE", "ERR_VERIFY"} \subseteq dfu_status
      /\ "ERROR" \in dfu_state
      /\ state \in dfu_state /\ status \in dfu_status /\ dfu_address \in Pages
      /\ awaiting \in BOOLEAN
  BY DEF TypeOK, dfu_status, dfu_state
<1>1. ASSUME Fail("ERR_ERASE") \/ Fail("ERR_WRITE") \/ Fail("ERR_VERIFY") \/ Finish,
             JobStep, FlashTypeOK'
      PROVE  TypeOK'
  BY <1>0, <1>1, TypeReturn DEF Fail, Finish, JobStep
<1>2. ASSUME pc \in {"erase", "program"}, JobStep, FlashTypeOK',
             NEW phase \in {"program", "verify"}, Advance(phase)
      PROVE  TypeOK'
  <2>1. rx \in Blocks
    BY <1>2, RxIsBlock
  <2>2. PICK n \in 1 .. TransferPages : DOMAIN rx = 0 .. (n - 1)
    BY <2>1, BlockShape
  <2>3. CASE i + 1 \in DOMAIN rx
    BY <1>2, <2>1, <2>2, <2>3, GeometryFacts DEF Advance, GoOn, TypeOK, JobStep
  <2>4. CASE i + 1 \notin DOMAIN rx
    BY <1>2, <2>1, <2>2, <2>4, GeometryFacts
    DEF Advance, GoOn, TypeOK, JobStep, Working
  <2> QED BY <2>3, <2>4
<1>3. CASE RangeStep
  <2>1. PICK ok \in BOOLEAN :
          /\ fmc_erase_page(wa + i, ok)
          /\ CASE ~ ok                         -> Fail("ERR_ERASE")
               [] ok /\ i + 1 < PagesPerSector -> GoOn("range", i + 1)
               [] OTHER                       -> Finish
    BY <1>3 DEF RangeStep
  <2>2. FlashTypeOK' /\ JobStep /\ pc = "range"
    BY <1>0, <1>3, <2>1, ErasePageEffect DEF RangeStep
  <2>3. CASE ok /\ i + 1 < PagesPerSector
    <3>1. GoOn("range", i + 1)
      BY <2>1, <2>3
    <3>2. i + 1 \in 0 .. (PagesPerSector + TransferPages) /\ i + 1 < PagesPerSector
      BY <2>3, GeometryFacts DEF TypeOK
    <3> QED BY <2>2, <3>1, <3>2 DEF GoOn, TypeOK, JobStep, Working
  <2>4. CASE ~ (ok /\ i + 1 < PagesPerSector)
    BY <1>1, <2>1, <2>2, <2>4
  <2> QED BY <2>3, <2>4
<1>4. CASE BlockStep
  BY <1>0, <1>1, <1>4, Erase32kEffect DEF BlockStep
<1>5. CASE EraseStep
  <2>1. CASE fmc_page_is_erased(wa + i)
    BY <1>0, <1>2, <1>5, <2>1 DEF EraseStep, FlashTypeOK
  <2>2. CASE ~ fmc_page_is_erased(wa + i)
    BY <1>0, <1>1, <1>2, <1>5, <2>2, ErasePageEffect DEF EraseStep
  <2> QED BY <2>1, <2>2
<1>6. CASE ProgramStep
  <2>1. pc = "program" /\ i \in DOMAIN rx /\ rx \in Blocks
    BY <1>6, RxIsBlock DEF ProgramStep, TypeOK
  <2>2. rx[i] \in Data
    BY <2>1, BlockShape
  <2> QED BY <1>0, <1>1, <1>2, <1>6, <2>2, WriteBlockEffect DEF ProgramStep
<1>7. CASE VerifyStep
  BY <1>0, <1>1, <1>7 DEF VerifyStep, FlashTypeOK
<1> QED BY <1>3, <1>4, <1>5, <1>6, <1>7 DEF DataSteps

(* The main loop, a power failure and the way back.                        *)
LEMMA TypeOthers == TypeOK /\ (MainCheck \/ PowerFailure \/ Restart) => TypeOK'
<1> SUFFICES ASSUME TypeOK, MainCheck \/ PowerFailure \/ Restart PROVE TypeOK'
  OBVIOUS
<1>1. CASE MainCheck
  BY <1>1 DEF MainCheck, TypeOK, FlashTypeOK, dfu_state, Working
<1>2. CASE PowerFailure
  <2>1. BusyPages \in SUBSET Pages
    BY DEF BusyPages, Span
  <2>2. FlashTypeOK'
    BY <1>2, <2>1, CutOffEffect DEF PowerFailure, TypeOK
  <2> QED BY <1>2, <2>2 DEF PowerFailure, TypeOK, Working
<1>3. CASE Restart
  <2>1. FlashTypeOK' /\ 0 \in Pages
    BY <1>3, GeometryFacts DEF Restart, TypeOK, FlashTypeOK, Pages
  <2>2. 0 \in 0 .. (AddrSpace - 1) /\ 0 \in 0 .. (PagesPerSector + TransferPages)
        /\ 0 \in 0 .. MaxBlock
    BY GeometryFacts
  <2>3. "DFU_IDLE" \in dfu_state /\ "OK" \in dfu_status
    BY DEF dfu_state, dfu_status
  <2> QED BY <1>3, <2>1, <2>2, <2>3 DEF Restart, TypeOK, Working
<1> QED BY <1>1, <1>2, <1>3

LEMMA TypeNext == TypeOK /\ [Next]_vars => TypeOK'
<1> SUFFICES ASSUME TypeOK, [Next]_vars PROVE TypeOK'
  OBVIOUS
<1>1. CASE UNCHANGED vars
  BY <1>1 DEF vars, TypeOK, FlashTypeOK
<1> QED BY <1>1, TypeRequests, TypeTransfers, TypeDataSteps, TypeOthers
        DEF Next, Device

(* Every variable of the DFU machine keeps its type, and the loops over the*)
(* pages of a sector and of a block stay inside them (dfu.cpp:170-280).    *)
THEOREM TypeCorrect == Spec => []TypeOK
BY TypeInit, TypeNext, PTL DEF Spec

(***************************************************************************)
(* The bootloader stays intact while the host keeps to the memory map.     *)
(* Strengthening: every handler at work, and the address a block is        *)
(* counted from, lie above the bootloader; address 0, the value at boot,   *)
(* is never used.                                                          *)
(***************************************************************************)
AboveBoot ==
  /\ BootIntact
  /\ dfu_address \in CommandPages \cup {0}
  /\ pc \in Working => BootEnd <= wa

(* The pages the host may name, and the sectors and the blocks they fall   *)
(* in, are above the bootloader.                                           *)
LEMMA CommandsAboveBoot ==
  ASSUME HostKeepsToMap, NEW p \in CommandPages
  PROVE  p \in Nat /\ BootEnd <= p /\ BootEnd <= SectorStart(p)
<1>1. p \in Nat /\ p < flash_end /\ p \notin BootPages
  BY ProtocolAssumption, GeometryFacts DEF HostKeepsToMap, Pages
<1>2. BootEnd <= p
  BY <1>1, GeometryFacts DEF BootPages
<1>3. BootSectors * PagesPerSector <= p => BootSectors * PagesPerSector <= SectorStart(p)
  BY <1>1, SectorStartBounds
<1> QED BY <1>1, <1>2, <1>3 DEF BootEnd

LEMMA AboveBootInit == Init => AboveBoot
<1> SUFFICES ASSUME Init PROVE AboveBoot
  OBVIOUS
<1>1. \A p \in BootPages : p \in Pages
  BY GeometryFacts DEF BootPages, Pages
<1> QED BY <1>1 DEF Init, FlashInit, AboveBoot, BootIntact, Working

LEMMA AboveBootTransfers ==
  ASSUME HostKeepsToMap, TypeOK, AboveBoot, Transfers
  PROVE  AboveBoot'
<1>0. UNCHANGED flash => BootIntact'
  BY DEF AboveBoot, BootIntact
<1>1. ASSUME NEW p \in CommandPages, SetAddress(p) PROVE AboveBoot'
  BY <1>0, <1>1 DEF SetAddress, DataStage, Finish, Return, AboveBoot, Working
<1>2. ASSUME UnknownCommand \/ IgnoredData PROVE AboveBoot'
  BY <1>0, <1>2
  DEF UnknownCommand, IgnoredData, DataStage, Fail, Return, AboveBoot, Working
<1>3. ASSUME NEW p \in CommandPages, ErasePage(p) PROVE AboveBoot'
  <2>1. UNCHANGED <<flash, dfu_address>> /\ (pc' = "check" \/ wa' = SectorStart(p))
    BY <1>3 DEF ErasePage, DataStage, Finish, Return
  <2> QED BY <1>0, <2>1, CommandsAboveBoot DEF AboveBoot, Working
<1>4. ASSUME NEW data \in Blocks, FirmwareBlock(data) PROVE AboveBoot'
  <2>1. /\ UNCHANGED <<flash, dfu_address>>
        /\ pc' = "check" \/ wa' = BlockAddress(dfu_block_num)
        /\ dfu_address \in CommandPages /\ dfu_block_num >= 2
    BY <1>4 DEF FirmwareBlock, DataStage, Fail, Return
  <2>2. dfu_address \in Pages /\ dfu_block_num \in 2 .. MaxBlock
    BY <2>1, GeometryFacts DEF TypeOK
  <2>3. BootEnd <= BlockAddress(dfu_block_num)
    <3>1. dfu_address \in Nat /\ BootEnd <= dfu_address
      BY <2>1, CommandsAboveBoot
    <3>2. BlockAddress(dfu_block_num) \in Nat /\ dfu_address <= BlockAddress(dfu_block_num)
      BY <2>2, BlockAddressExact
    <3> QED BY <3>1, <3>2, GeometryFacts
  <2> QED BY <1>0, <2>1, <2>3 DEF AboveBoot, Working
<1> QED BY <1>1, <1>2, <1>3, <1>4 DEF Transfers

LEMMA AboveBootDataSteps ==
  ASSUME TypeOK, AboveBoot, DataSteps
  PROVE  AboveBoot'
<1>0. /\ FlashTypeOK /\ BootEnd \in Nat /\ BootEnd <= wa /\ wa \in Nat /\ i \in Nat
      /\ \A p \in BootPages : p \in Pages /\ p < BootEnd /\ p \in Nat
      /\ dfu_address \in CommandPages \cup {0}
      /\ BootIntact
  <2>1. pc \in Working
    BY DEF DataSteps, RangeStep, BlockStep, EraseStep, ProgramStep, VerifyStep, Working
  <2>2. \A p \in BootPages : p \in Pages /\ p < BootEnd /\ p \in Nat
    BY GeometryFacts DEF BootPages, Pages
  <2>3. FlashTypeOK /\ BootEnd <= wa /\ dfu_address \in CommandPages \cup {0} /\ BootIntact
    BY <2>1 DEF AboveBoot, TypeOK
  <2>4. wa \in Nat /\ i \in Nat
    BY GeometryFacts DEF TypeOK
  <2> QED BY <2>2, <2>3, <2>4, GeometryFacts
<1>1. UNCHANGED dfu_address /\ (pc' = "check" \/ wa' = wa)
  BY DEF DataSteps, RangeStep, BlockStep, EraseStep, ProgramStep, VerifyStep, JobStep,
     Advance, GoOn, Fail, Finish, Return
<1>2. BootIntact'
  <2>1. ASSUME \A q \in Pages : q # wa + i => flash'[q] = flash[q]
        PROVE  BootIntact'
    BY <1>0, <2>1 DEF BootIntact
  <2>2. CASE RangeStep
    BY <1>0, <2>1, <2>2, ErasePageEffect DEF RangeStep
  <2>3. CASE BlockStep
    <3>1. \A q \in Pages : q \notin Span(wa, BlockPages) => flash'[q] = flash[q]
      BY <1>0, <2>3, Erase32kEffect DEF BlockStep
    <3> QED BY <1>0, <3>1 DEF BootIntact, Span
  <2>4. CASE EraseStep
    <3>1. UNCHANGED flash \/ \E ok \in BOOLEAN : fmc_erase_page(wa + i, ok)
      BY <2>4 DEF EraseStep
    <3> QED BY <1>0, <2>1, <3>1, ErasePageEffect
  <2>5. CASE ProgramStep
    <3>1. PICK ok \in BOOLEAN : fmc_write_block(wa + i, rx[i], ok)
      BY <2>5 DEF ProgramStep
    <3>2. pc = "program" /\ i \in DOMAIN rx /\ rx \in Blocks
      BY <2>5, RxIsBlock DEF ProgramStep, TypeOK
    <3>3. rx[i] \in Data
      BY <3>2, BlockShape
    <3> QED BY <1>0, <2>1, <3>1, <3>3, WriteBlockEffect
  <2>6. CASE VerifyStep
    BY <1>0, <2>6 DEF VerifyStep, BootIntact
  <2> QED BY <2>2, <2>3, <2>4, <2>5, <2>6 DEF DataSteps
<1> QED BY <1>0, <1>1, <1>2 DEF AboveBoot, Working

LEMMA AboveBootNext ==
  ASSUME HostKeepsToMap, TypeOK, AboveBoot, [Next]_vars
  PROVE  AboveBoot'
<1>1. CASE Requests
  BY <1>1 DEF Requests, Detach, DnloadManifest, Upload, ClrStatus, Abort, GetStatus,
     GetState, DnloadBlock, Setup, SetState, AboveBoot, BootIntact, Working
<1>2. CASE Transfers
  BY <1>2, AboveBootTransfers
<1>3. CASE DataSteps
  BY <1>3, AboveBootDataSteps
<1>4. CASE MainCheck
  BY <1>4 DEF MainCheck, AboveBoot, BootIntact, Working
<1>5. CASE PowerFailure
  <2>1. /\ UNCHANGED <<dfu_address, wa>> /\ pc' = "off"
        /\ FlashTypeOK /\ CutOff(BusyPages, IF pc = "program" THEN {rx[i]} ELSE {}) /\ Fault /\ BusyPages \in SUBSET Pages
    BY <1>5 DEF PowerFailure, TypeOK, BusyPages, Span
  <2>2. \A q \in Pages : q \notin BusyPages => flash'[q] = flash[q]
    BY <2>1, CutOffEffect
  <2>3. ASSUME NEW q \in BootPages PROVE q \in Pages /\ q \notin BusyPages
    <3>1. q \in Nat /\ q < BootEnd /\ q \in Pages /\ wa \in Nat /\ i \in Nat
      BY <2>3, GeometryFacts DEF BootPages, Pages, TypeOK
    <3>2. pc \in Working => BootEnd <= wa
      BY DEF AboveBoot
    <3> QED BY <3>1, <3>2, GeometryFacts DEF BusyPages, Span, Working
  <2>4. BootIntact'
    BY <2>2, <2>3 DEF AboveBoot, BootIntact
  <2> QED BY <2>1, <2>4 DEF AboveBoot, Working
<1>6. CASE Restart
  BY <1>6 DEF Restart, AboveBoot, BootIntact, Working
<1>7. CASE UNCHANGED vars
  BY <1>7 DEF vars, AboveBoot, BootIntact
<1> QED BY <1>1, <1>2, <1>3, <1>4, <1>5, <1>6, <1>7 DEF Next, Device

(* No sequence of commands, faults and power failures changes a page of    *)
(* the bootloader, although no line of dfu.cpp:238-279 compares an address *)
(* with its end: it holds because the host names no page below it, because *)
(* block numbers only count upwards and because the 32 KB erase            *)
(* (dfu.cpp:208-211) starts where the sector named starts.                 *)
THEOREM BootSafe == ASSUME HostKeepsToMap PROVE Spec => []BootIntact
<1>1. Init => AboveBoot
  BY AboveBootInit
<1>2. TypeOK /\ AboveBoot /\ [Next]_vars => AboveBoot'
  BY AboveBootNext
<1>3. AboveBoot => BootIntact
  BY DEF AboveBoot
<1> QED BY <1>1, <1>2, <1>3, TypeCorrect, PTL DEF Spec

(***************************************************************************)
(* State, status and the place in the main loop.  Strengthening: whoever   *)
(* will assign them next finds DNLOAD_SYNC and OK, the MANIFEST state is   *)
(* never entered, MANIFEST_WAIT_RESET only on the way to the reset.        *)
(***************************************************************************)
Control ==
  /\ StatusStateAgree
  /\ ResetIsNext
  /\ awaiting \/ pc \in Working => state = "DNLOAD_SYNC" /\ status = "OK"
  /\ pc \in Working => ~ awaiting
  /\ state # "MANIFEST"
  /\ state = "MANIFEST_WAIT_RESET" => pc = "reset"

LEMMA ControlInit == Init => Control
BY DEF Init, Control, StatusStateAgree, ResetIsNext, Working

LEMMA ControlNext == Control /\ [Next]_vars => Control'
<1> SUFFICES ASSUME Control, [Next]_vars PROVE Control'
  OBVIOUS
<1> USE DEF Control, StatusStateAgree, ResetIsNext, Working
<1>1. CASE Requests
  <2> USE DEF Setup, SetState
  <2>1. CASE Detach \/ DnloadManifest \/ Upload \/ ClrStatus \/ Abort
    BY <2>1 DEF Detach, DnloadManifest, Upload, ClrStatus, Abort
  <2>2. CASE GetStatus \/ GetState
    BY <2>2 DEF GetStatus, GetState, AfterPoll
  <2>3. ASSUME NEW n \in 0 .. MaxBlock, DnloadBlock(n) PROVE Control'
    BY <2>3 DEF DnloadBlock
  <2> QED BY <1>1, <2>1, <2>2, <2>3 DEF Requests
<1>2. CASE Transfers
  <2>1. /\ pc = "poll" /\ awaiting /\ awaiting' = FALSE
        /\ pc' \in {"check", "range", "block", "erase"}
        /\ \/ UNCHANGED <<state, status>>
           \/ state' = state /\ status' = "OK"
           \/ pc' = "check" /\ state' = "ERROR" /\ status' # "OK"
    BY <1>2 DEF Transfers, SetAddress, ErasePage, UnknownCommand, IgnoredData,
       FirmwareBlock, DataStage, Finish, Fail, Return
  <2> QED BY <2>1
<1>3. CASE DataSteps
  <2>1. /\ pc \in Working /\ UNCHANGED awaiting
        /\ pc' \in Working \cup {"check"}
        /\ \/ UNCHANGED <<state, status>>
           \/ state' = state /\ status' = "OK"
           \/ pc' = "check" /\ state' = "ERROR" /\ status' # "OK"
    BY <1>3 DEF DataSteps, RangeStep, BlockStep, EraseStep, ProgramStep, VerifyStep,
       JobStep, Advance, GoOn, Finish, Fail, Return
  <2> QED BY <2>1
<1>4. CASE MainCheck
  BY <1>4 DEF MainCheck
<1>5. CASE PowerFailure
  BY <1>5 DEF PowerFailure, requestVars
<1>6. CASE Restart
  BY <1>6 DEF Restart
<1>7. CASE UNCHANGED vars
  BY <1>7 DEF vars
<1> QED BY <1>1, <1>2, <1>3, <1>4, <1>5, <1>6, <1>7 DEF Next, Device

(* ERROR and a status other than OK come and go together (dfu.cpp assigns  *)
(* the two at seventeen places), so a reply never carries one of them.     *)
THEOREM StatusFollowsState == Spec => []StatusStateAgree
<1>1. Control => StatusStateAgree
  BY DEF Control
<1> QED BY <1>1, ControlInit, ControlNext, PTL DEF Spec

(* The main loop always takes the reset before the next request is looked  *)
(* at (dfu.cpp:335-350).                                                   *)
THEOREM ResetComesFirst == Spec => []ResetIsNext
<1>1. Control => ResetIsNext
  BY DEF Control
<1> QED BY <1>1, ControlInit, ControlNext, PTL DEF Spec

(***************************************************************************)
(* What a poll confirms is in the flash.  Strengthening: while no handler  *)
(* runs and the status is OK the flash already holds what was asked; while *)
(* one runs, nothing is promised about the pages it works on, it stays     *)
(* inside the flash, and its loops leave behind what they are for.         *)
(***************************************************************************)
Holds(f) == \A p \in DOMAIN f : p \in Pages /\ flash[p] = f[p]

Firmware == {"erase", "program", "verify"}

RangeWork ==
  pc = "range" =>
    /\ wa + PagesPerSector <= flash_end
    /\ asked = ErasedSector(wa)
    /\ \A k \in 0 .. (i - 1) : flash[wa + k] = Erased
    /\ DOMAIN promised \cap Span(wa, PagesPerSector) = {}

BlockWork ==
  pc = "block" =>
    /\ asked = None
    /\ DOMAIN promised \cap Span(wa, BlockPages) = {}

FirmwareWork ==
  pc \in Firmware =>
    /\ rx \in Blocks
    /\ \A k \in DOMAIN rx : wa + k \in Pages /\ wa + k \notin DOMAIN promised
    /\ asked = [p \in {wa + k : k \in DOMAIN rx} |-> rx[p - wa]]

LoopWork ==
  /\ pc = "erase" => \A k \in DOMAIN rx : k < i => flash[wa + k] = Erased
  /\ ProgramsErasedPages

Kept ==
  /\ PromiseKept
  /\ pc \in {"poll", "check"} /\ status = "OK" => Holds(asked)
  /\ RangeWork
  /\ BlockWork
  /\ FirmwareWork
  /\ LoopWork

LEMMA KeptInit == Init => Kept
BY DEF Init, Kept, PromiseKept, Holds, RangeWork, BlockWork, FirmwareWork, LoopWork,
   ProgramsErasedPages, None, Firmware

(* Between handlers only the two histories matter.                         *)
LEMMA KeptIdle ==
  ASSUME pc' \in {"poll", "check", "reset", "off"}, PromiseKept',
         pc' \in {"poll", "check"} /\ status' = "OK" => Holds(asked)'
  PROVE  Kept'
BY DEF Kept, RangeWork, BlockWork, FirmwareWork, LoopWork, ProgramsErasedPages, Firmware

LEMMA KeptRequests ==
  ASSUME Kept, Requests
  PROVE  Kept'
<1>1. pc = "poll" /\ pc' = "check" /\ UNCHANGED flash /\ PromiseKept
  BY DEF Requests, Detach, DnloadManifest, Upload, ClrStatus, Abort, GetStatus,
     GetState, DnloadBlock, Setup, Kept
<1>2. CASE GetStatus
  <2>1. asked' = asked /\ status' = status
    BY <1>2 DEF GetStatus
  <2>2. status = "OK" => Holds(asked) /\ Holds(asked)'
    BY <1>1, <2>1 DEF Kept, Holds
  <2>3. CASE status = "OK"
    <3>1. promised' = Confirm(asked, promised)
      BY <1>2, <2>3 DEF GetStatus
    <3>2. ASSUME NEW p \in DOMAIN promised'
          PROVE  p \in Pages /\ flash'[p] = promised'[p]
      <4>1. CASE p \in DOMAIN asked
        BY <1>1, <2>2, <2>3, <3>1, <4>1 DEF Holds, Confirm
      <4>2. CASE p \notin DOMAIN asked
        BY <1>1, <3>1, <3>2, <4>2 DEF PromiseKept, Confirm
      <4> QED BY <4>1, <4>2
    <3> QED BY <1>1, <2>1, <2>2, <2>3, <3>2, KeptIdle DEF PromiseKept
  <2>4. CASE status # "OK"
    <3>1. promised' = promised
      BY <1>2, <2>4 DEF GetStatus
    <3> QED BY <1>1, <2>1, <2>4, <3>1, KeptIdle DEF PromiseKept
  <2> QED BY <2>3, <2>4
<1>3. CASE GetState
  <2>1. UNCHANGED <<asked, promised, status>>
    BY <1>3 DEF GetState
  <2>2. status = "OK" => Holds(asked)'
    BY <1>1, <2>1 DEF Kept, Holds
  <2> QED BY <1>1, <2>1, <2>2, KeptIdle DEF PromiseKept
<1>4. CASE ~ (GetStatus \/ GetState)
  <2>1. asked' = None /\ UNCHANGED promised
    BY <1>4 DEF Requests, Detach, DnloadManifest, Upload, ClrStatus, Abort,
       DnloadBlock, SetState
  <2>2. Holds(asked)'
    BY <1>1, <2>1 DEF Holds, None
  <2> QED BY <1>1, <2>1, <2>2, KeptIdle DEF PromiseKept
<1> QED BY <1>2, <1>3, <1>4

(* Dropping promises keeps the rest true.                                  *)
LEMMA ForgetKeeps ==
  ASSUME PromiseKept, UNCHANGED flash, NEW extent, promised' = Forget(extent)
  PROVE  PromiseKept' /\ DOMAIN promised' \cap extent = {}
BY DEF PromiseKept, Forget

LEMMA KeptErasePage ==
  ASSUME TypeOK, Kept, NEW p \in CommandPages, ErasePage(p)
  PROVE  Kept'
<1> DEFINE s == SectorStart(p)
<1>0. UNCHANGED flash /\ PromiseKept
  BY DEF ErasePage, DataStage, Kept
<1>1. s \in Nat /\ s + PagesPerSector <= flash_end
  <2>1. p \in Nat /\ p < (BootSectors + AppSectors) * PagesPerSector
    BY ProtocolAssumption, GeometryFacts DEF Pages, flash_end
  <2> QED BY <2>1, SectorStartBounds, BootSectors + AppSectors \in Nat DEF flash_end
<1> HIDE DEF s
<1>2. CASE SectorErased(s)
  <2>1. pc' = "check" /\ asked' = ErasedSector(s) /\ UNCHANGED promised
    BY <1>2 DEF ErasePage, Finish, Return, s
  <2>2. ASSUME NEW q \in Span(s, PagesPerSector) PROVE q \in Pages /\ flash[q] = Erased
    <3>1. q \in Pages /\ q - s \in 0 .. (PagesPerSector - 1) /\ q = s + (q - s)
      BY <1>1, <2>2, GeometryFacts DEF Span, Pages
    <3> QED BY <1>2, <3>1 DEF SectorErased, fmc_page_is_erased
  <2>3. Holds(asked)'
    BY <1>0, <2>1, <2>2 DEF Holds, ErasedSector
  <2> QED BY <1>0, <2>1, <2>3, KeptIdle DEF PromiseKept
<1>3. CASE ~ SectorErased(s)
  <2>1. /\ wa' = s /\ i' = 0 /\ rx' = None
        /\ pc' = IF s % BlockPages = 0 THEN "block" ELSE "range"
        /\ asked' = IF s % BlockPages = 0 THEN None ELSE ErasedSector(s)
        /\ promised' = Forget(EraseExtent(s))
    BY <1>3 DEF ErasePage, s
  <2>2. PromiseKept' /\ DOMAIN promised' \cap EraseExtent(s) = {}
    BY <1>0, <2>1, ForgetKeeps
  <2>3. CASE s % BlockPages = 0
    BY <2>1, <2>2, <2>3 DEF EraseExtent, Kept, RangeWork, BlockWork, FirmwareWork,
       LoopWork, ProgramsErasedPages, Firmware
  <2>4. CASE s % BlockPages # 0
    <3>1. RangeWork'
      BY <1>1, <2>1, <2>2, <2>4 DEF EraseExtent, RangeWork
    <3> QED BY <2>1, <2>2, <2>4, <3>1 DEF Kept, BlockWork, FirmwareWork, LoopWork,
               ProgramsErasedPages, Firmware
  <2> QED BY <2>3, <2>4
<1> QED BY <1>2, <1>3

LEMMA KeptFirmwareBlock ==
  ASSUME TypeOK, Kept, NEW data \in Blocks, FirmwareBlock(data)
  PROVE  Kept'
<1> DEFINE first == BlockAddress(dfu_block_num)
           len   == Cardinality(DOMAIN data)
<1>0. UNCHANGED flash /\ PromiseKept /\ dfu_block_num \in 2 .. MaxBlock
      /\ dfu_address \in Pages
  BY GeometryFacts DEF FirmwareBlock, DataStage, Kept, TypeOK
<1>1. PICK n \in 1 .. TransferPages : DOMAIN data = 0 .. (n - 1) /\ len = n
  BY BlockShape
<1>2. first \in Nat /\ first + TransferPages < AddrSpace
  BY <1>0, BlockAddressExact
<1>3. asked' = [p \in {first + k : k \in DOMAIN data} |-> data[p - first]]
  BY DEF FirmwareBlock
<1>4. PastEnd(first, len) <=> first + len > flash_end
  <2>1. first + len \in 0 .. (AddrSpace - 1)
    BY <1>1, <1>2, GeometryFacts
  <2>2. (first + len) % AddrSpace = first + len
    BY <2>1, GeometryFacts
  <2> QED BY <2>2 DEF PastEnd
<1>5. CASE PastEnd(first, len)
  <2>1. pc' = "check" /\ status' = "ERR_ADDRESS" /\ UNCHANGED promised
    BY <1>5 DEF FirmwareBlock, Fail, Return
  <2> QED BY <1>0, <2>1, KeptIdle DEF PromiseKept
<1>6. CASE ~ PastEnd(first, len)
  <2>1. /\ wa' = first /\ i' = 0 /\ rx' = data /\ pc' = "erase"
        /\ promised' = Forget(Span(first, len))
    BY <1>6 DEF FirmwareBlock
  <2>2. PromiseKept' /\ DOMAIN promised' \cap Span(first, len) = {}
    BY <1>0, <2>1, ForgetKeeps
  <2>3. ASSUME NEW k \in DOMAIN data
        PROVE  first + k \in Pages /\ first + k \notin DOMAIN promised'
    <3>1. first + k \in Pages /\ first + k \in Span(first, len)
      BY <1>1, <1>2, <1>4, <1>6, <2>3, GeometryFacts DEF Pages, Span
    <3> QED BY <2>2, <3>1
  <2>4. FirmwareWork'
    BY <1>3, <2>1, <2>3 DEF FirmwareWork
  <2>5. LoopWork'
    <3>1. \A k \in DOMAIN data : ~ (k < 0)
      BY <1>1
    <3> QED BY <2>1, <3>1 DEF LoopWork, ProgramsErasedPages
  <2> QED BY <2>1, <2>2, <2>4, <2>5 DEF Kept, RangeWork, BlockWork
<1> QED BY <1>5, <1>6

LEMMA KeptTransfers ==
  ASSUME TypeOK, Control, Kept, Transfers
  PROVE  Kept'
<1>1. ASSUME NEW p \in CommandPages, SetAddress(p) PROVE Kept'
  <2>1. /\ UNCHANGED <<flash, asked, promised>> /\ pc = "poll" /\ pc' = "check"
        /\ awaiting
    BY <1>1 DEF SetAddress, DataStage, Finish, Return
  <2>2. Holds(asked)
    BY <2>1 DEF Kept, Control
  <2> QED BY <2>1, <2>2, KeptIdle DEF Kept, PromiseKept, Holds
<1>2. CASE UnknownCommand
  <2>1. UNCHANGED <<flash, promised>> /\ pc' = "check" /\ status' # "OK"
    BY <1>2 DEF UnknownCommand, DataStage, Fail, Return
  <2> QED BY <2>1, KeptIdle DEF Kept, PromiseKept
<1>3. CASE IgnoredData
  <2>1. /\ UNCHANGED <<flash, asked, promised, status>> /\ pc = "poll" /\ pc' = "check"
    BY <1>3 DEF IgnoredData, DataStage, Return
  <2> QED BY <2>1, KeptIdle DEF Kept, PromiseKept, Holds
<1> QED BY <1>1, <1>2, <1>3, KeptErasePage, KeptFirmwareBlock DEF Transfers

(* Promises about other pages survive.                                     *)
LEMMA PromiseSurvives ==
  ASSUME PromiseKept, UNCHANGED promised, NEW S, DOMAIN promised \cap S = {},
         \A q \in Pages : q \notin S => flash'[q] = flash[q]
  PROVE  PromiseKept'
BY DEF PromiseKept

(* A handler that gives up leaves the other promises alone and confirms    *)
(* nothing.                                                                *)
LEMMA KeptFail ==
  ASSUME PromiseKept', NEW error \in dfu_status \ {"OK"}, Fail(error)
  PROVE  Kept'
BY KeptIdle DEF Fail, Return

LEMMA KeptRangeStep ==
  ASSUME TypeOK, Kept, RangeStep
  PROVE  Kept'
<1>1. PICK ok \in BOOLEAN :
        /\ fmc_erase_page(wa + i, ok)
        /\ CASE ~ ok                         -> Fail("ERR_ERASE")
             [] ok /\ i + 1 < PagesPerSector -> GoOn("range", i + 1)
             [] OTHER                       -> Finish
  BY DEF RangeStep
<1>2. /\ pc = "range" /\ UNCHANGED <<asked, promised>>
      /\ wa \in Nat /\ i \in Nat /\ i < PagesPerSector
      /\ wa + PagesPerSector <= flash_end
      /\ asked = ErasedSector(wa)
      /\ \A k \in 0 .. (i - 1) : flash[wa + k] = Erased
      /\ DOMAIN promised \cap Span(wa, PagesPerSector) = {}
      /\ PromiseKept /\ FlashTypeOK
  BY GeometryFacts DEF RangeStep, JobStep, TypeOK, Kept, RangeWork
<1>3. wa + i \in Pages /\ wa + i \in Span(wa, PagesPerSector)
  BY <1>2, GeometryFacts DEF Pages, Span
<1>4. /\ \A q \in Pages : q # wa + i => flash'[q] = flash[q]
      /\ ok => flash'[wa + i] = Erased
  BY <1>1, <1>2, <1>3, ErasePageEffect
<1>5. PromiseKept'
  BY <1>2, <1>3, <1>4, PromiseSurvives
<1>6. ASSUME ok, NEW k \in 0 .. i PROVE flash'[wa + k] = Erased
  <2>1. wa + k \in Pages
    BY <1>2, GeometryFacts DEF Pages
  <2>2. k \in Int /\ (k = i \/ k \in 0 .. (i - 1)) /\ (wa + k = wa + i => k = i)
    BY <1>2
  <2> QED BY <1>2, <1>4, <1>6, <2>1, <2>2
<1>7. CASE ~ ok
  BY <1>1, <1>5, <1>7, KeptFail DEF dfu_status
<1>8. CASE ok /\ i + 1 < PagesPerSector
  <2>1. GoOn("range", i + 1)
    BY <1>1, <1>8
  <2>2. \A k \in 0 .. (i' - 1) : flash'[wa + k] = Erased
    BY <1>2, <1>6, <1>8, <2>1 DEF GoOn
  <2>3. RangeWork'
    BY <1>2, <2>1, <2>2 DEF GoOn, RangeWork
  <2> QED BY <1>5, <2>1, <2>3 DEF GoOn, Kept, BlockWork, FirmwareWork, LoopWork,
             ProgramsErasedPages, Firmware
<1>9. CASE ok /\ ~ (i + 1 < PagesPerSector)
  <2>1. pc' = "check"
    BY <1>1, <1>9 DEF Finish, Return
  <2>2. ASSUME NEW q \in Span(wa, PagesPerSector) PROVE q \in Pages /\ flash'[q] = Erased
    <3>1. q \in Pages /\ q - wa \in 0 .. i /\ q = wa + (q - wa)
      BY <1>2, <1>9, <2>2, GeometryFacts DEF Span, Pages
    <3> QED BY <1>6, <1>9, <3>1
  <2>3. Holds(asked)'
    BY <1>2, <2>2 DEF Holds, ErasedSector
  <2> QED BY <1>5, <2>1, <2>3, KeptIdle
<1> QED BY <1>7, <1>8, <1>9

LEMMA KeptBlockStep ==
  ASSUME TypeOK, Kept, BlockStep
  PROVE  Kept'
<1>1. PICK ok \in BOOLEAN :
        fmc_erase_32k(wa, ok) /\ IF ok THEN Finish ELSE Fail("ERR_ERASE")
  BY DEF BlockStep
<1>2. /\ UNCHANGED <<asked, promised>> /\ asked = None /\ PromiseKept /\ FlashTypeOK
      /\ DOMAIN promised \cap Span(wa, BlockPages) = {}
  BY DEF BlockStep, JobStep, Kept, BlockWork, TypeOK
<1>3. PromiseKept'
  BY <1>1, <1>2, Erase32kEffect, PromiseSurvives
<1>4. Holds(asked)'
  BY <1>2 DEF Holds, None
<1> QED BY <1>1, <1>3, <1>4, KeptIdle DEF Finish, Fail, Return

(* A step of one of the loops over a block.                                *)
LEMMA KeptAdvance ==
  ASSUME Kept, pc \in {"erase", "program"}, PromiseKept', UNCHANGED <<asked, promised>>,
         NEW phase \in {"program", "verify"}, Advance(phase), LoopWork'
  PROVE  Kept'
<1>1. pc' \in Firmware /\ UNCHANGED <<wa, rx>>
  BY DEF Advance, GoOn, Firmware
<1>2. FirmwareWork'
  BY <1>1 DEF Kept, FirmwareWork, Firmware
<1> QED BY <1>1, <1>2 DEF Kept, RangeWork, BlockWork, Firmware

LEMMA KeptEraseStep ==
  ASSUME TypeOK, Kept, EraseStep
  PROVE  Kept'
<1>1. /\ pc = "erase" /\ UNCHANGED <<asked, promised>> /\ PromiseKept /\ FlashTypeOK
      /\ rx \in Blocks /\ i \in DOMAIN rx /\ wa \in Nat
      /\ \A k \in DOMAIN rx : wa + k \in Pages /\ wa + k \notin DOMAIN promised
      /\ \A k \in DOMAIN rx : k < i => flash[wa + k] = Erased
  BY GeometryFacts, RxIsBlock
  DEF EraseStep, JobStep, Kept, FirmwareWork, LoopWork, TypeOK, Firmware
<1>2. PICK n \in 1 .. TransferPages : DOMAIN rx = 0 .. (n - 1)
  BY <1>1, BlockShape
<1>3. \/ Fail("ERR_ERASE")
      \/ Advance("program") /\ flash'[wa + i] = Erased
  BY <1>1, ErasePageEffect DEF EraseStep, fmc_page_is_erased
<1>4. \A q \in Pages : q # wa + i => flash'[q] = flash[q]
  BY <1>1, ErasePageEffect DEF EraseStep
<1>5. PromiseKept'
  BY <1>1, <1>4 DEF PromiseKept
<1>6. CASE Fail("ERR_ERASE")
  BY <1>5, <1>6, KeptFail DEF dfu_status
<1>7. CASE Advance("program") /\ flash'[wa + i] = Erased
  <2>1. ASSUME NEW k \in DOMAIN rx, k <= i PROVE flash'[wa + k] = Erased
    <3>1. k \in Int /\ i \in Int /\ (k = i \/ k < i) /\ (wa + k = wa + i => k = i)
      BY <1>1, <1>2, <2>1, GeometryFacts
    <3> QED BY <1>1, <1>4, <1>7, <3>1
  <2>2. CASE i + 1 \in DOMAIN rx
    <3>1. pc' = "erase" /\ i' = i + 1 /\ UNCHANGED <<wa, rx>>
      BY <1>1, <1>7, <2>2 DEF Advance, GoOn
    <3>2. \A k \in DOMAIN rx : k < i + 1 => k <= i
      BY <1>1, <1>2, GeometryFacts
    <3>3. LoopWork'
      BY <2>1, <3>1, <3>2 DEF LoopWork, ProgramsErasedPages
    <3> QED BY <1>1, <1>5, <1>7, <3>3, KeptAdvance
  <2>3. CASE i + 1 \notin DOMAIN rx
    <3>1. pc' = "program" /\ i' = 0 /\ UNCHANGED <<wa, rx>>
      BY <1>1, <1>7, <2>3 DEF Advance, GoOn
    <3>2. \A k \in DOMAIN rx : k <= i
      BY <1>1, <1>2, <2>3, GeometryFacts
    <3>3. LoopWork'
      BY <2>1, <3>1, <3>2 DEF LoopWork, ProgramsErasedPages, fmc_page_is_erased
    <3> QED BY <1>1, <1>5, <1>7, <3>3, KeptAdvance
  <2> QED BY <2>2, <2>3
<1> QED BY <1>3, <1>6, <1>7

LEMMA KeptProgramStep ==
  ASSUME TypeOK, Kept, ProgramStep
  PROVE  Kept'
<1>1. /\ pc = "program" /\ UNCHANGED <<asked, promised>> /\ PromiseKept /\ FlashTypeOK
      /\ rx \in Blocks /\ i \in DOMAIN rx /\ wa \in Nat
      /\ \A k \in DOMAIN rx : wa + k \in Pages /\ wa + k \notin DOMAIN promised
      /\ \A k \in DOMAIN rx : k >= i => flash[wa + k] = Erased
  BY GeometryFacts, RxIsBlock
  DEF ProgramStep, JobStep, Kept, FirmwareWork, LoopWork, ProgramsErasedPages,
      fmc_page_is_erased, TypeOK, Firmware
<1>2. PICK n \in 1 .. TransferPages : DOMAIN rx = 0 .. (n - 1) /\ rx[i] \in Data
  BY <1>1, BlockShape
<1>3. Fail("ERR_WRITE") \/ Advance("verify")
  BY DEF ProgramStep
<1>4. \A q \in Pages : q # wa + i => flash'[q] = flash[q]
  BY <1>1, <1>2, WriteBlockEffect DEF ProgramStep
<1>5. PromiseKept'
  BY <1>1, <1>4 DEF PromiseKept
<1>6. CASE Fail("ERR_WRITE")
  <2>1. "ERR_WRITE" \in dfu_status \ {"OK"}
    BY DEF dfu_status
  <2> QED BY <1>5, <1>6, <2>1, KeptFail
<1>7. CASE Advance("verify")
  <2>1. CASE i + 1 \in DOMAIN rx
    <3>1. pc' = "program" /\ i' = i + 1 /\ UNCHANGED <<wa, rx>>
      BY <1>1, <1>7, <2>1 DEF Advance, GoOn
    <3>2. ASSUME NEW k \in DOMAIN rx, k >= i + 1 PROVE flash'[wa + k] = Erased
      <4>1. k \in Int /\ i \in Int /\ k >= i /\ wa + k # wa + i
        BY <1>1, <1>2, <3>2
      <4> QED BY <1>1, <1>4, <4>1
    <3>3. LoopWork'
      BY <3>1, <3>2 DEF LoopWork, ProgramsErasedPages, fmc_page_is_erased
    <3> QED BY <1>1, <1>5, <1>7, <3>3, KeptAdvance
  <2>2. CASE i + 1 \notin DOMAIN rx
    <3>1. pc' = "verify"
      BY <1>1, <1>7, <2>2 DEF Advance, GoOn
    <3>2. LoopWork'
      BY <3>1 DEF LoopWork, ProgramsErasedPages
    <3> QED BY <1>1, <1>5, <1>7, <3>2, KeptAdvance
  <2> QED BY <2>1, <2>2
<1> QED BY <1>3, <1>6, <1>7

LEMMA KeptVerifyStep ==
  ASSUME TypeOK, Kept, VerifyStep
  PROVE  Kept'
<1>1. /\ pc = "verify" /\ UNCHANGED <<flash, asked, promised>> /\ PromiseKept /\ wa \in Nat
      /\ rx \in Blocks /\ \A k \in DOMAIN rx : wa + k \in Pages
      /\ asked = [p \in {wa + k : k \in DOMAIN rx} |-> rx[p - wa]]
  BY GeometryFacts DEF VerifyStep, JobStep, Kept, FirmwareWork, TypeOK, Firmware
<1>2. CASE fmc_verify(wa, rx)
  <2>1. ASSUME NEW p \in DOMAIN asked PROVE p \in Pages /\ flash[p] = asked[p]
    <3>1. PICK k \in DOMAIN rx : p = wa + k
      BY <1>1, <2>1
    <3>2. k \in Int
      BY <1>1, <3>1, BlockShape
    <3>3. asked[p] = rx[k]
      BY <1>1, <3>1, <3>2
    <3> QED BY <1>1, <1>2, <3>1, <3>3 DEF fmc_verify
  <2>2. Holds(asked)' /\ pc' = "check"
    BY <1>1, <1>2, <2>1 DEF VerifyStep, Finish, Return, Holds
  <2> QED BY <1>1, <2>2, KeptIdle DEF PromiseKept
<1>3. CASE ~ fmc_verify(wa, rx)
  <2>1. "ERR_VERIFY" \in dfu_status \ {"OK"} /\ Fail("ERR_VERIFY")
    BY <1>3 DEF dfu_status, VerifyStep
  <2>2. PromiseKept'
    BY <1>1 DEF PromiseKept
  <2> QED BY <2>1, <2>2, KeptFail
<1> QED BY <1>2, <1>3

LEMMA KeptPowerFailure ==
  ASSUME TypeOK, Kept, PowerFailure
  PROVE  Kept'
<1>1. /\ pc' = "off" /\ UNCHANGED promised /\ PromiseKept
      /\ FlashTypeOK /\ CutOff(BusyPages, IF pc = "program" THEN {rx[i]} ELSE {}) /\ Fault /\ BusyPages \in SUBSET Pages
  BY DEF PowerFailure, Kept, TypeOK, BusyPages, Span
<1>2. \A q \in Pages : q \notin BusyPages => flash'[q] = flash[q]
  BY <1>1, CutOffEffect
<1>3. DOMAIN promised \cap BusyPages = {}
  <2>1. CASE pc = "block"
    BY <2>1 DEF BusyPages, Kept, BlockWork
  <2>2. CASE pc = "range"
    <3>1. i < PagesPerSector /\ wa \in Nat /\ i \in Nat
      BY <2>2, GeometryFacts DEF TypeOK
    <3>2. {wa + i} \cap Pages \subseteq Span(wa, PagesPerSector)
      BY <3>1, GeometryFacts DEF Span
    <3> QED BY <2>2, <3>2 DEF BusyPages, Kept, RangeWork
  <2>3. CASE pc \in {"erase", "program"}
    BY <2>3 DEF BusyPages, Kept, FirmwareWork, Firmware, TypeOK
  <2>4. CASE pc \notin {"block", "range", "erase", "program"}
    BY <2>4 DEF BusyPages
  <2> QED BY <2>1, <2>2, <2>3, <2>4
<1>4. PromiseKept'
  BY <1>1, <1>2, <1>3, PromiseSurvives
<1> QED BY <1>1, <1>4, KeptIdle

LEMMA KeptNext == TypeOK /\ Control /\ Kept /\ [Next]_vars => Kept'
<1> SUFFICES ASSUME TypeOK, Control, Kept, [Next]_vars PROVE Kept'
  OBVIOUS
<1>1. CASE DataSteps
  BY <1>1, KeptRangeStep, KeptBlockStep, KeptEraseStep, KeptProgramStep, KeptVerifyStep
  DEF DataSteps
<1>2. CASE MainCheck
  <2>1. /\ UNCHANGED <<flash, asked, promised, status>>
        /\ pc = "check" /\ pc' \in {"poll", "reset"}
    BY <1>2 DEF MainCheck
  <2> QED BY <2>1, KeptIdle DEF Kept, PromiseKept, Holds
<1>3. CASE Restart
  <2>1. UNCHANGED <<flash, promised>> /\ pc' = "poll" /\ asked' = None
    BY <1>3 DEF Restart
  <2> QED BY <2>1, KeptIdle DEF Kept, PromiseKept, Holds, None
<1>4. CASE UNCHANGED vars
  BY <1>4 DEF vars, Kept, PromiseKept, Holds, RangeWork, BlockWork, FirmwareWork,
     LoopWork, ProgramsErasedPages, fmc_page_is_erased
<1> QED BY <1>1, <1>2, <1>3, <1>4, KeptRequests, KeptTransfers, KeptPowerFailure
        DEF Next, Device

(* Whatever a GETSTATUS answered OK has confirmed is in the flash and stays*)
(* there until a command that covers it starts, through silent and flagged *)
(* faults of the controller and power failures: fmc_verify (dfu.cpp:271)   *)
(* and the read-back of fmc_erase_page (flash.h:196-202) carry the proof.  *)
THEOREM ConfirmedIsKept == Spec => []PromiseKept
<1>1. Kept => PromiseKept
  BY DEF Kept
<1> QED BY <1>1, KeptInit, KeptNext, ControlInit, ControlNext, TypeCorrect, PTL DEF Spec

(* The write loop finds every page it programs erased (dfu.cpp:250-264).   *)
THEOREM ProgramsOnlyErased == Spec => []ProgramsErasedPages
<1>1. Kept => ProgramsErasedPages
  BY DEF Kept, LoopWork
<1> QED BY <1>1, KeptInit, KeptNext, ControlInit, ControlNext, TypeCorrect, PTL DEF Spec

(***************************************************************************)
(* A data handler comes to its end.                                        *)
(***************************************************************************)

(* A handler at work has a step to take, and the loops over a block know   *)
(* how many pages are left (dfu.cpp:238-279, flash.h:326-338).             *)
LEMMA JobLeftWhileWorking ==
  ASSUME TypeOK
  PROVE  /\ pc \in Working => JobLeft \in Nat /\ JobLeft >= 1
         /\ pc = "range" => JobLeft = PagesPerSector - i
         /\ pc \in {"block", "verify"} => JobLeft = 1
         /\ pc \in {"erase", "program"} =>
              \E n \in Nat :
                /\ DOMAIN rx = 0 .. (n - 1) /\ Cardinality(DOMAIN rx) = n /\ i \in 0 .. (n - 1)
                /\ JobLeft = IF pc = "erase" THEN (n - i) + n + 1 ELSE (n - i) + 1
<1>1. pc = "range" => JobLeft = PagesPerSector - i
  BY DEF JobLeft
<1>2. pc \in {"block", "verify"} => JobLeft = 1
  BY DEF JobLeft
<1>3. ASSUME pc \in {"erase", "program"}
      PROVE  \E n \in Nat :
               /\ DOMAIN rx = 0 .. (n - 1) /\ Cardinality(DOMAIN rx) = n /\ i \in 0 .. (n - 1)
               /\ JobLeft = IF pc = "erase" THEN (n - i) + n + 1 ELSE (n - i) + 1
  <2>1. rx \in Blocks
    BY <1>3, RxIsBlock
  <2>2. PICK n \in 1 .. TransferPages :
          DOMAIN rx = 0 .. (n - 1) /\ Cardinality(DOMAIN rx) = n
    BY <2>1, BlockShape
  <2>3. n \in Nat /\ i \in 0 .. (n - 1)
    BY <1>3, <2>2, GeometryFacts DEF TypeOK
  <2>4. JobLeft = IF pc = "erase" THEN (n - i) + n + 1 ELSE (n - i) + 1
    BY <1>3, <2>2 DEF JobLeft
  <2> QED
    BY <2>2, <2>3, <2>4
<1>4. ASSUME pc \in Working
      PROVE  JobLeft \in Nat /\ JobLeft >= 1
  <2>1. CASE pc = "range"
    BY <1>1, <2>1, GeometryFacts DEF TypeOK
  <2>2. CASE pc \in {"block", "verify"}
    BY <1>2, <2>2
  <2>3. CASE pc \in {"erase", "program"}
    BY <1>3, <2>3
  <2> QED
    BY <1>4, <2>1, <2>2, <2>3 DEF Working
<1> QED
  BY <1>1, <1>2, <1>3, <1>4

(* Every step of a data handler moves on, whatever the controller answers  *)
(* (dfu.cpp:170-280, flash.h:326-338).                                     *)
LEMMA JobStepAdvances ==
  ASSUME TypeOK, DataSteps
  PROVE  JobLeft' >= 0 /\ JobLeft' < JobLeft
<1>0. pc \in Working /\ JobLeft \in Nat /\ JobLeft >= 1
  <2>1. pc \in Working
    BY DEF DataSteps, RangeStep, BlockStep, EraseStep, ProgramStep, VerifyStep, Working
  <2> QED
    BY <2>1, JobLeftWhileWorking
<1>1. ASSUME pc' = "check"
      PROVE  JobLeft' >= 0 /\ JobLeft' < JobLeft
  <2>1. JobLeft' = 0
    BY <1>1 DEF JobLeft
  <2> QED
    BY <1>0, <2>1
<1>2. (\E e \in dfu_status : Fail(e)) \/ Finish => pc' = "check"
  BY DEF Fail, Finish, Return
<1>3. ASSUME NEW phase, Advance(phase),
             \/ pc = "erase" /\ phase = "program"
             \/ pc = "program" /\ phase = "verify"
      PROVE  JobLeft' >= 0 /\ JobLeft' < JobLeft
  <2>1. PICK n \in Nat :
          /\ DOMAIN rx = 0 .. (n - 1) /\ Cardinality(DOMAIN rx) = n /\ i \in 0 .. (n - 1)
          /\ JobLeft = IF pc = "erase" THEN (n - i) + n + 1 ELSE (n - i) + 1
    BY <1>3, JobLeftWhileWorking
  <2>2. rx' = rx
    BY <1>3 DEF Advance, GoOn
  <2>3. CASE i + 1 \in DOMAIN rx
    <3>1. pc' = pc /\ i' = i + 1
      BY <1>3, <2>3 DEF Advance, GoOn
    <3>2. JobLeft' = IF pc = "erase" THEN (n - (i + 1)) + n + 1 ELSE (n - (i + 1)) + 1
      BY <1>3, <2>1, <2>2, <3>1 DEF JobLeft
    <3> QED
      BY <2>1, <2>3, <3>2
  <2>4. CASE i + 1 \notin DOMAIN rx
    <3>1. pc' = phase /\ i' = 0
      BY <1>3, <2>4 DEF Advance, GoOn
    <3>2. JobLeft' = IF pc = "erase" THEN (n - 0) + 1 ELSE 1
      BY <1>3, <2>1, <2>2, <3>1 DEF JobLeft
    <3> QED
      BY <1>3, <2>1, <2>4, <3>2
  <2> QED
    BY <2>3, <2>4
<1>4. {"ERR_ERASE", "ERR_WRITE", "ERR_VERIFY"} \subseteq dfu_status
  BY DEF dfu_status
<1>5. CASE RangeStep
  <2>1. PICK ok \in BOOLEAN :
          CASE ~ ok                         -> Fail("ERR_ERASE")
            [] ok /\ i + 1 < PagesPerSector -> GoOn("range", i + 1)
            [] OTHER                       -> Finish
    BY <1>5 DEF RangeStep
  <2>2. CASE ok /\ i + 1 < PagesPerSector
    <3>1. pc = "range" /\ pc' = "range" /\ i' = i + 1
      BY <1>5, <2>1, <2>2 DEF RangeStep, GoOn
    <3>2. JobLeft = PagesPerSector - i /\ JobLeft' = PagesPerSector - (i + 1)
      BY <3>1 DEF JobLeft
    <3> QED
      BY <2>2, <3>2, GeometryFacts DEF TypeOK
  <2>3. CASE ~ (ok /\ i + 1 < PagesPerSector)
    <3>1. Fail("ERR_ERASE") \/ Finish
      BY <2>1, <2>3
    <3> QED
      BY <1>1, <1>2, <1>4, <3>1
  <2> QED
    BY <2>2, <2>3
<1>6. CASE BlockStep
  <2>1. Fail("ERR_ERASE") \/ Finish
    BY <1>6 DEF BlockStep
  <2> QED
    BY <1>1, <1>2, <1>4, <2>1
<1>7. CASE EraseStep
  <2>1. pc = "erase" /\ (Advance("program") \/ Fail("ERR_ERASE"))
    BY <1>7 DEF EraseStep
  <2> QED
    BY <1>1, <1>2, <1>3, <1>4, <2>1
<1>8. CASE ProgramStep
  <2>1. pc = "program" /\ (Advance("verify") \/ Fail("ERR_WRITE"))
    BY <1>8 DEF ProgramStep
  <2> QED
    BY <1>1, <1>2, <1>3, <1>4, <2>1
<1>9. CASE VerifyStep
  <2>1. Fail("ERR_VERIFY") \/ Finish
    BY <1>9 DEF VerifyStep
  <2> QED
    BY <1>1, <1>2, <1>4, <2>1
<1> QED
  BY <1>5, <1>6, <1>7, <1>8, <1>9 DEF DataSteps

(* No data handler runs for ever, however large the sectors and blocks: it *)
(* takes no more steps than JobLeft counts when it starts, and each of     *)
(* them, faults and the failing supply included, leaves it fewer           *)
(* (dfu.cpp:170-280, flash.h:326-338).                                     *)
THEOREM JobsComeToAnEnd == Spec => JobAdvances
<1>1. ASSUME TypeOK, [Next]_vars
      PROVE  [(pc \in Working) => JobLeft' >= 0 /\ JobLeft' < JobLeft]_vars
  <2> SUFFICES ASSUME Next, pc \in Working PROVE JobLeft' >= 0 /\ JobLeft' < JobLeft
    BY <1>1
  <2>1. pc \notin {"poll", "check", "reset", "off"}
    BY DEF Working
  <2>2. CASE DataSteps
    BY <1>1, <2>2, JobStepAdvances
  <2>3. CASE PowerFailure
    <3>1. JobLeft' = 0
      BY <2>3 DEF PowerFailure, JobLeft
    <3> QED
      BY <1>1, <3>1, JobLeftWhileWorking
  <2>4. ~ Requests /\ ~ Transfers /\ ~ MainCheck /\ ~ Restart
    BY <2>1
       DEF Requests, Detach, DnloadManifest, Upload, GetStatus, ClrStatus, GetState, Abort,
           DnloadBlock, Setup, Transfers, SetAddress, ErasePage, UnknownCommand, IgnoredData,
           FirmwareBlock, DataStage, MainCheck, Restart
  <2> QED
    BY <2>2, <2>3, <2>4 DEF Next, Device
<1> QED
  BY <1>1, TypeCorrect, PTL DEF Spec, JobAdvances
=============================================================================
