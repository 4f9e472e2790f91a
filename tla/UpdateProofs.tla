---------------------------- MODULE UpdateProofs ---------------------------
(***************************************************************************)
(* Theorems about Update.tla for every geometry, every set of images, any  *)
(* number of faults, interruptions and attempts.  The DFU machine inside   *)
(* keeps what DfuProofs proves of it; what is added here is where host,    *)
(* stage 1 and stage 2 are when, and how much of an image is in the flash. *)
(***************************************************************************)
EXTENDS Update, DfuHostProofs

USE GeometryAssumption DEF flashVars, jobVars, requestVars, ghostVars

(***************************************************************************)
(* The inductive invariant.                                                *)
(***************************************************************************)
Stopped == {"reset", "off"}

(* Whose turn it is.  A host that talks finds stage 2 running; the reset   *)
(* comes after the end of the list and at no other time; a marker is there *)
(* only between an application's request and the boot it asks for.         *)
Turns ==
  /\ phase \in Active => pc \notin Stopped /\ step <= LastStep(target) + 1
  /\ phase = "done" => pc \in Stopped \cup {"check"}
  /\ marker => pc \in Stopped /\ phase \in {"idle", "failed"}
  /\ pc = "check" => (phase = "done" <=> state \in {"MANIFEST_SYNC", "APP_DETACH"})
  /\ pc \in Working => phase \in {"sync", "busy", "failed"}
  /\ pc \in {"range", "block"} => IsErase(target, step)
  /\ phase # "idle" => target \in Versions /\ step # 0
  /\ phase = "open" => step = 1
  /\ phase \in {"data", "sync", "busy"} => step <= LastStep(target)
  /\ phase = "data" => dfu_block_num = BlockNumber(target, step)

(* What the commands so far have told the device: where a chunk goes, and  *)
(* what it is.                                                             *)
Pointed ==
  /\ \/ phase \in {"setup", "data"} /\ IsData(target, step)
     \/ phase \in {"sync", "busy"} /\ IsAddress(target, step)
     => dfu_address = BootEnd + ChunkStart(target, step)
  /\ phase \in {"sync", "busy"} /\ IsData(target, step) =>
       ChunkAsked(BootEnd + ChunkStart(target, step),
                  Chunk(target, ChunkStart(target, step)))

(* The chunks sent before are in the flash, as long as the host goes on or *)
(* the last command it gave is at work.                                    *)
AtStep == phase \in {"setup", "data", "sync", "busy"} \/ pc \in Working

Before ==
  AtStep => \A k \in DOMAIN Image[target] :
              k < ChunkStart(target, step) => flash[BootEnd + k] = Image[target][k]

(* A block at work is a chunk of the image, at its place.                  *)
OwnBlock ==
  pc \in Firmware =>
    /\ IsData(target, step) /\ step <= LastStep(target)
    /\ wa = BootEnd + ChunkStart(target, step)
    /\ rx = Chunk(target, ChunkStart(target, step))

(* While the first chunk is programmed no other header can be in the flash.*)
OwnHeader ==
  pc = "program" /\ wa = BootEnd /\ i > 0 =>
    flash[BootEnd] \in Passing(target, 0) \cup {Erased, Junk}

Progress == Turns /\ Pointed /\ Before /\ OwnBlock /\ OwnHeader

UpdateInv ==
  /\ UpdateTypeOK /\ Control /\ Kept
  /\ Progress
  /\ SuccessMeansInstalled
  /\ RunsOnlyChecked

LEMMA UpdateIsMachineStep ==
  ASSUME UpdateInv, [UpdateNext]_allVars
  PROVE  MachineStep
<1>1. CASE BootStep
  BY <1>1 DEF BootStep, Stage1, MachineStep, Next
<1>2. CASE DeviceStep
  BY <1>2 DEF DeviceStep, MachineStep, Next
<1>3. CASE HostData
  <2>1. Command(target, step) /\ target \in Versions /\ step \in Nat \ {0}
        /\ step <= LastStep(target)
    BY <1>3 DEF HostData, UpdateInv, UpdateTypeOK, Progress, Turns
  <2> QED BY <2>1, CommandIsTransfer DEF MachineStep, Next
<1>4. CASE HostSetup
  <2>1. PICK n \in {0, 2} : DnloadBlock(n)
    BY <1>4 DEF HostSetup, BlockNumber
  <2>2. n \in 0 .. MaxBlock
    BY HostAssumption, GeometryFacts
  <2> QED BY <2>1, <2>2 DEF MachineStep, Next, Requests
<1>5. CASE HostClear \/ HostPoll \/ HostLeave \/ \E v \in Versions : HostOpen(v)
  BY <1>5 DEF HostClear, HostPoll, HostLeave, HostOpen, MachineStep, Next, Requests
<1>6. CASE HostFails
  BY <1>6 DEF HostFails, MachineStep, Interrupted
<1>7. CASE PowerCycle
  BY <1>7 DEF PowerCycle, MachineStep, Interrupted, Next
<1>8. CASE reboot_into_bootloader \/ UNCHANGED allVars
  BY <1>8 DEF reboot_into_bootloader, allVars, MachineStep, vars
<1> QED BY <1>1, <1>2, <1>3, <1>4, <1>5, <1>6, <1>7, <1>8 DEF UpdateNext, HostStep

(***************************************************************************)
(* Whose turn it is: Turns is kept.                                        *)
(***************************************************************************)

LEMMA TurnsDevice ==
  ASSUME UpdateInv, DeviceStep
  PROVE  Turns' /\ UpdateTypeOK'
<1>0. UpdateTypeOK /\ Turns /\ Control /\ TypeOK'
  BY UpdateIsMachineStep, MachineNext DEF UpdateInv, Progress, UpdateTypeOK, UpdateNext
<1>1. UNCHANGED <<marker, app, target, phase, step>>
  BY DEF DeviceStep, bootVars, hostVars
<1>2. CASE DataSteps
  <2>1. /\ pc \in Working /\ pc' \in Working \cup {"check"}
        /\ pc' \in {"range", "block"} => pc = "range"
        /\ state' \in {state, "ERROR"} /\ UNCHANGED dfu_block_num
        /\ state = "DNLOAD_SYNC"
    BY <1>0, <1>2, HandlerEffect DEF Control
  <2>2. Turns'
    BY <1>0, <1>1, <2>1 DEF Turns, Working, Stopped, Active
  <2> QED BY <1>0, <1>1, <2>1, <2>2 DEF UpdateTypeOK, Working
<1>3. CASE MainCheck
  <2>1. /\ pc = "check" /\ UNCHANGED dfu_block_num
        /\ pc' \in {"poll", "reset"}
        /\ pc' = "reset" <=> state \in {"MANIFEST_SYNC", "APP_DETACH", "MANIFEST_WAIT_RESET"}
    BY <1>3 DEF MainCheck
  <2>2. state # "MANIFEST_WAIT_RESET"
    BY <1>0, <2>1 DEF Control
  <2>3. Turns'
    BY <1>0, <1>1, <2>1, <2>2 DEF Turns, Working, Stopped, Active
  <2> QED BY <1>0, <1>1, <2>1, <2>3 DEF UpdateTypeOK, Working
<1> QED BY <1>2, <1>3 DEF DeviceStep, Device

(* An update that succeeded leaves stage 1 no reason for the DFU mode.     *)
LEMMA SuccessStarts ==
  ASSUME UpdateInv, phase = "done", NEW button \in Buttons
  PROVE  ~ (marker \/ button \/ ~ ImageAccepted)
<1>1. target \in Versions /\ ~ marker /\ Installed(target)
  BY DEF UpdateInv, Progress, Turns, SuccessMeansInstalled
<1>2. ~ button
  BY DEF Buttons
<1>3. 0 \in DOMAIN Image[target] /\ BootEnd + 0 = BootEnd
  BY <1>1, ImageShape, GeometryFacts
<1>4. HasHeader(target) /\ ChecksumRight(target)
  BY <1>1, <1>3 DEF Installed, HasHeader, ChecksumRight, Passing
<1> QED BY <1>1, <1>2, <1>4 DEF ImageAccepted

LEMMA TurnsBoot ==
  ASSUME UpdateInv, BootStep
  PROVE  Turns' /\ UpdateTypeOK'
<1>0. UpdateTypeOK /\ Turns /\ TypeOK'
  BY UpdateIsMachineStep, MachineNext DEF UpdateInv, Progress, UpdateTypeOK, UpdateNext
<1>1. PICK button \in Buttons : Stage1(button)
  BY DEF BootStep
<1>2. pc \in Stopped /\ marker' = FALSE /\ UNCHANGED <<target, phase, step>>
  BY <1>1 DEF Stage1, hostVars, Stopped
<1>3. CASE marker \/ button \/ ~ ImageAccepted
  <2>1. app' = FALSE /\ pc' = "poll" /\ phase # "done" /\ phase \notin Active
    BY <1>0, <1>1, <1>2, <1>3, SuccessStarts DEF Stage1, Restart, Turns
  <2>2. Turns'
    BY <1>0, <1>2, <2>1 DEF Turns, Working, Stopped, Active
  <2> QED BY <1>0, <1>2, <2>1, <2>2 DEF UpdateTypeOK
<1>4. CASE ~ (marker \/ button \/ ~ ImageAccepted)
  <2>1. app' = TRUE /\ UNCHANGED <<pc, state, dfu_block_num>>
    BY <1>1, <1>4 DEF Stage1, vars
  <2>2. Turns'
    BY <1>0, <1>2, <2>1 DEF Turns, Working, Stopped, Active
  <2> QED BY <1>0, <1>2, <2>1, <2>2 DEF UpdateTypeOK, Stopped
<1> QED BY <1>3, <1>4

LEMMA TurnsSupply ==
  ASSUME UpdateInv, PowerCycle \/ reboot_into_bootloader \/ HostFails
                    \/ UNCHANGED allVars
  PROVE  Turns' /\ UpdateTypeOK'
<1>0. UpdateTypeOK /\ Turns /\ TypeOK'
  BY UpdateIsMachineStep, MachineNext DEF UpdateInv, Progress, UpdateTypeOK, UpdateNext
<1>1. CASE PowerCycle
  <2>1. /\ marker' = FALSE /\ UNCHANGED <<target, step>>
        /\ phase' = IF phase \in Active THEN "failed" ELSE phase
        /\ \/ pc' = "off" /\ app' = app
           \/ app /\ app' = FALSE /\ pc' = pc
    BY <1>1 DEF PowerCycle, PowerFailure
  <2>2. app => pc \in Stopped
    BY <1>0 DEF UpdateTypeOK, Stopped
  <2>3. Turns'
    BY <1>0, <2>1, <2>2 DEF Turns, Working, Stopped, Active
  <2> QED BY <1>0, <2>1, <2>3 DEF UpdateTypeOK, Active
<1>2. CASE reboot_into_bootloader
  <2>1. /\ app /\ app' = FALSE /\ marker' = TRUE
        /\ phase' = IF phase = "done" THEN "idle" ELSE phase
        /\ UNCHANGED <<pc, state, dfu_block_num, target, step>>
    BY <1>2 DEF reboot_into_bootloader, vars
  <2>2. pc \in Stopped
    BY <1>0, <2>1 DEF UpdateTypeOK, Stopped
  <2>3. Turns'
    BY <1>0, <2>1, <2>2 DEF Turns, Working, Stopped, Active, UpdateTypeOK
  <2> QED BY <1>0, <2>1, <2>3 DEF UpdateTypeOK
<1>3. CASE HostFails
  <2>1. /\ phase \in Active /\ phase' = "failed"
        /\ UNCHANGED <<pc, state, dfu_block_num, target, step, app, marker>>
    BY <1>3 DEF HostFails, bootVars
  <2>2. Turns'
    BY <1>0, <2>1 DEF Turns, Working, Stopped, Active
  <2> QED BY <1>0, <2>1, <2>2 DEF UpdateTypeOK
<1>4. CASE UNCHANGED allVars
  <2>1. UNCHANGED <<pc, state, dfu_block_num, target, phase, step, app, marker>>
    BY <1>4 DEF allVars, vars
  <2>2. Turns'
    BY <1>0, <2>1 DEF Turns
  <2> QED BY <1>0, <2>1, <2>2 DEF UpdateTypeOK
<1> QED BY <1>1, <1>2, <1>3, <1>4

HostRequests == HostClear \/ HostSetup \/ HostPoll \/ HostLeave

LEMMA HostRequest ==
  ASSUME UpdateInv, HostRequests \/ \E v \in Versions : HostOpen(v)
  PROVE  /\ pc = "poll" /\ pc' = "check"
         /\ UNCHANGED <<flash, wa, i, rx, dfu_address, marker, app>>
<1>1. Setup /\ UNCHANGED <<marker, app, dfu_address>>
  BY DEF HostRequests, HostClear, HostSetup, HostPoll, HostLeave, HostOpen, Host,
     bootVars, ClrStatus, Abort, DnloadBlock, GetStatus, DnloadManifest, SetState
<1> QED BY <1>1 DEF Setup

LEMMA TurnsHost ==
  ASSUME UpdateInv, HostRequests \/ \E v \in Versions : HostOpen(v)
  PROVE  Turns' /\ UpdateTypeOK'
<1>0. /\ UpdateTypeOK /\ Turns /\ TypeOK'
      /\ state \notin {"MANIFEST_SYNC", "MANIFEST", "MANIFEST_WAIT_RESET", "APP_DETACH"}
      /\ pc = "poll" /\ pc' = "check" /\ UNCHANGED <<marker, app>>
      /\ app = FALSE /\ marker = FALSE
  <2>1. UpdateNext /\ pc = "poll" /\ pc' = "check" /\ UNCHANGED <<marker, app>>
    BY HostRequest DEF UpdateNext, HostStep, HostRequests
  <2>2. UpdateTypeOK /\ Turns /\ ResetIsNext
    BY DEF UpdateInv, Progress, Control
  <2>3. app = FALSE /\ marker = FALSE
    BY <2>1, <2>2 DEF UpdateTypeOK, Turns, Stopped
  <2> QED BY <2>1, <2>2, <2>3, UpdateIsMachineStep, MachineNext
          DEF UpdateInv, UpdateTypeOK, ResetIsNext
<1> DEFINE
  Talks ==
    /\ phase' \in Active \cup {"failed"}
    /\ state' \notin {"MANIFEST_SYNC", "APP_DETACH"}
    /\ target' \in Versions /\ step' \in Nat \ {0}
    /\ phase' \in Active => step' <= LastStep(target') + 1
    /\ phase' = "open" => step' = 1
    /\ phase' \in {"data", "sync", "busy"} => step' <= LastStep(target')
    /\ phase' = "data" => dfu_block_num' = BlockNumber(target', step')
<1>1. ASSUME Talks PROVE Turns' /\ UpdateTypeOK'
  <2>1. Turns'
    BY <1>0, <1>1 DEF Turns, Working, Stopped, Active
  <2>2. phase' \in Active \cup {"idle", "done", "failed"} /\ app' \in BOOLEAN
        /\ marker' \in BOOLEAN
    BY <1>0, <1>1
  <2> QED BY <1>0, <1>1, <2>1, <2>2 DEF UpdateTypeOK
<1>2. AfterPoll \notin {"MANIFEST_SYNC", "APP_DETACH"}
  BY <1>0 DEF AfterPoll
<1>3. CASE HostClear
  <2>1. /\ phase = "open" /\ phase' = "setup" /\ state' = "DFU_IDLE"
        /\ UNCHANGED <<target, step>>
    BY <1>3 DEF HostClear, ClrStatus, Abort, SetState
  <2> QED BY <1>0, <1>1, <2>1 DEF Turns, Active, UpdateTypeOK
<1>4. CASE HostSetup
  <2>1. /\ phase = "setup" /\ phase' = "data" /\ step <= LastStep(target)
        /\ state' = "DNLOAD_SYNC" /\ dfu_block_num' = BlockNumber(target, step)
        /\ UNCHANGED <<target, step>>
    BY <1>4 DEF HostSetup, DnloadBlock
  <2> QED BY <1>0, <1>1, <2>1 DEF Turns, Active, UpdateTypeOK
<1>5. CASE HostPoll
  <2>1. /\ phase \in {"sync", "busy"} /\ state' = AfterPoll /\ UNCHANGED target
        /\ \/ phase' \in {"failed", "busy"} /\ UNCHANGED step
           \/ phase' = "setup" /\ step' = step + 1
    BY <1>5 DEF HostPoll, GetStatus
  <2>2. target \in Versions /\ step \in Nat \ {0} /\ step <= LastStep(target)
        /\ LastStep(target) \in Nat
    BY <1>0, <2>1, PartsOfImage DEF Turns, UpdateTypeOK
  <2> QED BY <1>1, <1>2, <2>1, <2>2 DEF Active
<1>6. CASE HostLeave
  <2>1. /\ phase = "setup" /\ phase' = "done" /\ state' = "MANIFEST_SYNC"
        /\ UNCHANGED <<target, step>>
    BY <1>6 DEF HostLeave, DnloadManifest, SetState
  <2>2. Turns'
    BY <1>0, <2>1 DEF Turns, Working, Stopped, Active
  <2>3. app' \in BOOLEAN /\ marker' \in BOOLEAN
    BY <1>0
  <2> QED BY <1>0, <2>1, <2>2, <2>3 DEF UpdateTypeOK
<1>7. ASSUME NEW v \in Versions, HostOpen(v) PROVE Turns' /\ UpdateTypeOK'
  <2>1. /\ target' = v /\ step' = 1 /\ phase' \in {"setup", "open"} /\ state' = AfterPoll
    BY <1>7 DEF HostOpen, GetStatus
  <2> QED BY <1>1, <1>2, <2>1, PartsOfImage DEF Active
<1> QED BY <1>3, <1>4, <1>5, <1>6, <1>7 DEF HostRequests

LEMMA TurnsData ==
  ASSUME UpdateInv, HostData
  PROVE  Turns' /\ UpdateTypeOK'
<1>0. UpdateTypeOK /\ Turns /\ TypeOK' /\ Control /\ Control'
  BY UpdateIsMachineStep, MachineNext
  DEF UpdateInv, Progress, UpdateTypeOK, UpdateNext, HostStep
<1>1. /\ phase = "data" /\ phase' = "sync" /\ Command(target, step)
      /\ UNCHANGED <<target, step, marker, app>>
  BY DEF HostData, Host, bootVars
<1>2. /\ pc = "poll" /\ awaiting
      /\ pc' \in {"check", "range", "block", "erase"}
      /\ state' \in {state, "ERROR"}
      /\ pc' \in {"range", "block"} => IsErase(target, step)
  BY <1>1, CommandCases DEF ErasePage, SetAddress, FirmwareBlock, DataStage, Fail, Finish,
     Return
<1>3. state = "DNLOAD_SYNC"
  BY <1>0, <1>2 DEF Control
<1>4. Turns'
  BY <1>0, <1>1, <1>2, <1>3 DEF Turns, Working, Stopped, Active
<1>5. app = FALSE /\ marker \in BOOLEAN
  BY <1>0, <1>2 DEF UpdateTypeOK
<1>6. app' = FALSE /\ marker' \in BOOLEAN /\ phase' \in Active
      /\ target' \in Versions \cup {Nothing} /\ step' \in Nat
  BY <1>0, <1>1, <1>5 DEF UpdateTypeOK, Active
<1> QED BY <1>0, <1>4, <1>6 DEF UpdateTypeOK

LEMMA TurnsNext ==
  ASSUME UpdateInv, [UpdateNext]_allVars
  PROVE  Turns' /\ UpdateTypeOK'
BY TurnsDevice, TurnsBoot, TurnsSupply, TurnsHost, TurnsData
DEF UpdateNext, HostStep, HostRequests

(***************************************************************************)
(* What was asked is a chunk at its place: Pointed and OwnBlock are kept.  *)
(***************************************************************************)

(* Steps after which nobody talks to stage 2.                              *)
SessionEnds ==
  BootStep \/ PowerCycle \/ reboot_into_bootloader \/ HostFails \/ HostLeave

LEMMA NobodyTalks ==
  ASSUME UpdateInv, SessionEnds
  PROVE  /\ phase' \notin Active /\ UNCHANGED <<target, step>>
         /\ pc' \in Working => HostFails
<1>0. Turns /\ UpdateTypeOK
  BY DEF UpdateInv, Progress
<1>1. CASE BootStep
  BY <1>0, <1>1 DEF BootStep, Stage1, Restart, Turns, Active, hostVars, vars, Stopped, Working
<1>2. CASE PowerCycle
  <2>1. app => pc \notin Working
    BY <1>0 DEF UpdateTypeOK, Working
  <2> QED BY <1>2, <2>1 DEF PowerCycle, PowerFailure, Active, Working
<1>3. CASE reboot_into_bootloader
  BY <1>0, <1>3 DEF reboot_into_bootloader, Turns, UpdateTypeOK, Active, Stopped, vars, Working
<1>4. CASE HostFails
  BY <1>4 DEF HostFails, Active
<1>5. CASE HostLeave
  BY <1>5 DEF HostLeave, Active, DnloadManifest, Setup, Working
<1> QED BY <1>1, <1>2, <1>3, <1>4, <1>5 DEF SessionEnds

(* A chunk goes where its SET_ADDRESS said.                                *)
LEMMA ChunkPlace ==
  ASSUME UpdateInv, HostData, IsData(target, step)
  PROVE  BlockAddress(dfu_block_num) = BootEnd + ChunkStart(target, step)
<1>1. phase = "data" /\ dfu_block_num = 2 /\ dfu_address = BootEnd + ChunkStart(target, step)
  BY DEF HostData, UpdateInv, Progress, Turns, Pointed, BlockNumber, IsData
<1> QED BY <1>1, BlockTwo DEF UpdateInv, UpdateTypeOK, TypeOK

(* A step that goes on from where the session was.                         *)
LEMMA PointedSame ==
  ASSUME Pointed, UNCHANGED <<target, step, dfu_address, asked>>,
         phase' \in {"setup", "data"} => phase \in {"setup", "data"},
         phase' \in {"sync", "busy"} => phase \in {"sync", "busy"}
  PROVE  Pointed'
BY DEF Pointed, ChunkAsked

LEMMA PointedNext ==
  ASSUME UpdateInv, [UpdateNext]_allVars
  PROVE  Pointed'
<1>0. Pointed /\ Turns /\ UpdateTypeOK
  BY DEF UpdateInv, Progress
<1>1. CASE SessionEnds
  BY <1>1, NobodyTalks DEF Pointed, Active
<1>2. CASE DeviceStep
  <2>1. UNCHANGED <<target, step, phase>> /\ UNCHANGED <<dfu_address, asked>>
    BY <1>2, HandlerEffect DEF DeviceStep, Device, hostVars, MainCheck
  <2> QED BY <1>0, <2>1, PointedSame
<1>3. CASE HostClear \/ \E v \in Versions : HostOpen(v)
  <2>1. step' = 1 /\ target' \in Versions /\ phase' \in {"setup", "open"}
    BY <1>0, <1>3 DEF HostClear, HostOpen, Turns
  <2>2. IsErase(target', 1)
    BY <2>1, StepAfter
  <2> QED BY <2>1, <2>2 DEF Pointed, IsData
<1>4. CASE HostSetup
  <2>1. /\ phase = "setup" /\ phase' = "data"
        /\ UNCHANGED <<target, step, dfu_address>>
    BY <1>4 DEF HostSetup, DnloadBlock
  <2> QED BY <1>0, <2>1 DEF Pointed
<1>5. CASE HostPoll
  <2>1. /\ phase \in {"sync", "busy"} /\ UNCHANGED <<target, dfu_address, asked>>
        /\ \/ phase' \in {"failed", "busy"} /\ UNCHANGED step
           \/ phase' = "setup" /\ step' = step + 1
    BY <1>5 DEF HostPoll, GetStatus
  <2>2. CASE phase' \in {"failed", "busy"} /\ UNCHANGED step
    BY <1>0, <2>1, <2>2, PointedSame
  <2>3. CASE phase' = "setup" /\ step' = step + 1
    <3>1. target \in Versions /\ step \in Nat
      BY <1>0, <2>1 DEF Turns, UpdateTypeOK
    <3>2. ASSUME IsData(target, step + 1)
          PROVE  dfu_address = BootEnd + ChunkStart(target, step + 1)
      <4>1. IsAddress(target, step)
        BY <3>1, <3>2, StepAfter DEF IsData
      <4> QED BY <1>0, <2>1, <3>1, <4>1, StepAfter DEF Pointed
    <3> QED BY <2>1, <2>3, <3>2 DEF Pointed
  <2> QED BY <2>1, <2>2, <2>3
<1>6. CASE HostData
  <2>1. phase' = "sync" /\ Command(target, step) /\ UNCHANGED <<target, step>>
    BY <1>6 DEF HostData
  <2>2. CASE IsErase(target, step)
    BY <2>1, <2>2 DEF Pointed, IsData, IsAddress
  <2>3. CASE IsAddress(target, step)
    <3>1. dfu_address' = BootEnd + ChunkStart(target, step)
      BY <2>1, <2>3, CommandCases DEF IsAddress, IsData, SetAddress
    <3> QED BY <2>1, <2>3, <3>1 DEF Pointed, IsData
  <2>4. CASE IsData(target, step)
    <3>1. FirmwareBlock(Chunk(target, ChunkStart(target, step)))
      BY <2>1, <2>4, CommandCases DEF IsData
    <3>2. ChunkAsked(BootEnd + ChunkStart(target, step),
                     Chunk(target, ChunkStart(target, step)))'
      BY <1>6, <2>1, <2>4, <3>1, ChunkPlace DEF FirmwareBlock, ChunkAsked
    <3> QED BY <2>1, <2>4, <3>2 DEF Pointed, IsData
  <2> QED BY <2>2, <2>3, <2>4 DEF IsData
<1>7. CASE UNCHANGED allVars
  BY <1>0, <1>7, PointedSame DEF allVars, vars
<1> QED BY <1>1, <1>2, <1>3, <1>4, <1>5, <1>6, <1>7 DEF UpdateNext, HostStep, SessionEnds

LEMMA OwnBlockNext ==
  ASSUME UpdateInv, [UpdateNext]_allVars
  PROVE  OwnBlock'
<1>0. OwnBlock /\ Turns
  BY DEF UpdateInv, Progress
<1>1. CASE SessionEnds
  <2>1. CASE HostFails
    BY <1>0, <2>1 DEF HostFails, OwnBlock
  <2>2. CASE ~ HostFails
    BY <1>1, <2>2, NobodyTalks DEF OwnBlock, Firmware, Working
  <2> QED BY <2>1, <2>2
<1>2. CASE DeviceStep
  <2>1. UNCHANGED <<target, step>>
    BY <1>2 DEF DeviceStep, hostVars
  <2>2. pc' \in Firmware => pc \in Firmware /\ UNCHANGED <<wa, rx>>
    BY <1>2, HandlerEffect DEF DeviceStep, Device, MainCheck, Firmware
  <2> QED BY <1>0, <2>1, <2>2 DEF OwnBlock
<1>3. CASE HostRequests \/ \E v \in Versions : HostOpen(v)
  BY <1>3, HostRequest DEF OwnBlock, Firmware
<1>4. CASE HostData
  <2>1. Command(target, step) /\ UNCHANGED <<target, step>> /\ step <= LastStep(target)
    BY <1>0, <1>4 DEF HostData, Turns
  <2>2. CASE IsData(target, step)
    <3>1. FirmwareBlock(Chunk(target, ChunkStart(target, step)))
      BY <2>1, <2>2, CommandCases DEF IsData
    <3>2. pc' = "check" \/ (wa' = BlockAddress(dfu_block_num)
                            /\ rx' = Chunk(target, ChunkStart(target, step)))
      BY <3>1 DEF FirmwareBlock, Fail, Return
    <3> QED BY <1>4, <2>1, <2>2, <3>2, ChunkPlace DEF OwnBlock, Firmware
  <2>3. CASE ~ IsData(target, step)
    <3>1. pc' \in {"check", "range", "block"}
      BY <2>1, <2>3, CommandCases DEF ErasePage, SetAddress, Finish, Return
    <3> QED BY <3>1 DEF OwnBlock, Firmware
  <2> QED BY <2>2, <2>3
<1>5. CASE UNCHANGED allVars
  BY <1>0, <1>5 DEF allVars, vars, OwnBlock
<1> QED BY <1>1, <1>2, <1>3, <1>4, <1>5
        DEF UpdateNext, HostStep, HostRequests, SessionEnds

(***************************************************************************)
(* How much of the image is in the flash: Before and OwnHeader are kept.   *)
(***************************************************************************)

(* No page changes unless a handler is at work.                            *)
LEMMA IdleKeepsFlash ==
  ASSUME UpdateInv, [UpdateNext]_allVars, pc \notin Working, NEW q \in Pages
  PROVE  flash'[q] = flash[q]
BY UpdateIsMachineStep, KeepsOthers DEF UpdateInv, UpdateTypeOK

(* While a step of the list lasts, the pages before its chunk stay.        *)
LEMMA KeepsBefore ==
  ASSUME UpdateInv, [UpdateNext]_allVars, AtStep, NEW k \in DOMAIN Image[target],
         k < ChunkStart(target, step)
  PROVE  flash'[BootEnd + k] = flash[BootEnd + k]
<1>0. TypeOK /\ Turns /\ OwnBlock /\ step \in Nat
  BY DEF UpdateInv, UpdateTypeOK, Progress
<1>1. target \in Versions
  BY <1>0 DEF AtStep, Turns
<1>2. k \in Nat /\ BootEnd + k \in Pages /\ BootEnd \in Nat
  BY <1>1, ImageShape, GeometryFacts DEF Pages
<1>3. ~ IsErase(target, step) /\ ChunkStart(target, step) \in Int
  BY <1>0, <1>1, <1>2, StepAfter
<1>4. ASSUME pc \in Working PROVE ~ (wa <= BootEnd + k)
  <2>1. pc \in Firmware
    BY <1>0, <1>3, <1>4 DEF Turns, Working, Firmware
  <2> QED BY <1>0, <1>2, <1>3, <2>1 DEF OwnBlock
<1> QED BY <1>0, <1>2, <1>4, UpdateIsMachineStep, KeepsOthers DEF UpdateInv

(* A chunk whose poll says OK is in the flash.                             *)
LEMMA ChunkHeld ==
  ASSUME UpdateInv, phase \in {"sync", "busy"}, pc = "poll", status = "OK",
         IsData(target, step), NEW k \in DOMAIN Image[target],
         ChunkStart(target, step) <= k, k < ChunkStart(target, step) + TransferPages
  PROVE  flash[BootEnd + k] = Image[target][k]
<1>1. /\ target \in Versions /\ step \in Nat /\ step <= LastStep(target)
      /\ ChunkAsked(BootEnd + ChunkStart(target, step),
                    Chunk(target, ChunkStart(target, step)))
      /\ Holds(asked) /\ ~ IsErase(target, step)
  BY DEF UpdateInv, UpdateTypeOK, Progress, Turns, Pointed, Kept, IsData
<1> QED BY <1>1, AskedIsHeld

LEMMA BeforeNext ==
  ASSUME UpdateInv, [UpdateNext]_allVars
  PROVE  Before'
<1>0. Before /\ Turns /\ UpdateTypeOK
  BY DEF UpdateInv, Progress
<1>1. ASSUME AtStep, UNCHANGED <<target, step>> PROVE Before'
  BY <1>0, <1>1, KeepsBefore DEF Before
<1>2. CASE SessionEnds
  <2>1. CASE HostFails
    <3>1. AtStep' => AtStep
      BY <1>0, <2>1 DEF HostFails, AtStep
    <3> QED BY <1>1, <2>1, <3>1 DEF HostFails, Before
  <2>2. CASE ~ HostFails
    BY <1>2, <2>2, NobodyTalks DEF Before, AtStep, Active
  <2> QED BY <2>1, <2>2
<1>3. CASE DeviceStep
  <2>1. UNCHANGED <<target, step, phase>> /\ (pc' \in Working => pc \in Working)
    BY <1>3, HandlerEffect DEF DeviceStep, Device, hostVars, MainCheck, Working
  <2> QED BY <1>1, <2>1 DEF Before, AtStep
<1>4. CASE HostClear \/ \E v \in Versions : HostOpen(v)
  <2>1. step' = 1 /\ target' \in Versions
    BY <1>0, <1>4 DEF HostClear, HostOpen, Turns
  <2>2. ChunkStart(target', 1) \in Int /\ ChunkStart(target', 1) <= 0
    BY <2>1, StepAfter
  <2>3. \A k \in DOMAIN Image[target'] : k \in Nat
    BY <2>1, ImageShape
  <2> QED BY <2>1, <2>2, <2>3 DEF Before
<1>5. CASE HostSetup \/ HostData
  BY <1>1, <1>5 DEF HostSetup, HostData, AtStep
<1>6. CASE HostPoll
  <2>1. /\ phase \in {"sync", "busy"} /\ UNCHANGED target /\ pc = "poll" /\ UNCHANGED flash
        /\ \/ phase' \in {"failed", "busy"} /\ UNCHANGED step
           \/ phase' = "setup" /\ step' = step + 1 /\ status = "OK"
    BY <1>6 DEF HostPoll, GetStatus, Setup
  <2>2. CASE phase' \in {"failed", "busy"} /\ UNCHANGED step
    BY <1>1, <2>1, <2>2 DEF AtStep
  <2>3. CASE phase' = "setup" /\ step' = step + 1 /\ status = "OK"
    <3>1. target \in Versions /\ step \in Nat /\ TransferPages \in Nat
      BY <1>0, <2>1, GeometryFacts DEF Turns, UpdateTypeOK
    <3>2. ASSUME NEW k \in DOMAIN Image[target], k < ChunkStart(target, step + 1)
          PROVE  flash[BootEnd + k] = Image[target][k]
      <4>0. k \in Nat
        BY <3>1, ImageShape
      <4>1. ~ IsErase(target, step)
        BY <3>1, <3>2, <4>0, StepAfter
      <4>2. CASE k < ChunkStart(target, step)
        BY <1>0, <2>1, <4>2 DEF Before, AtStep
      <4>3. CASE ~ (k < ChunkStart(target, step))
        <5>1. ChunkStart(target, step) \in Int /\ ChunkStart(target, step) <= k
          BY <3>1, <4>0, <4>3, StepAfter
        <5>2. IsData(target, step)
          BY <3>1, <3>2, <4>1, <4>3, StepAfter DEF IsData
        <5>3. k < ChunkStart(target, step) + TransferPages
          BY <3>1, <3>2, <5>2, StepAfter
        <5> QED BY <2>1, <2>3, <5>1, <5>2, <5>3, ChunkHeld
      <4> QED BY <4>2, <4>3
    <3> QED BY <2>1, <2>3, <3>2 DEF Before
  <2> QED BY <2>1, <2>2, <2>3
<1>7. CASE UNCHANGED allVars
  BY <1>0, <1>7 DEF allVars, vars, Before, AtStep
<1> QED BY <1>2, <1>3, <1>4, <1>5, <1>6, <1>7 DEF UpdateNext, HostStep, SessionEnds

(* Programming goes on, or a step of the erase loop is followed by it.     *)
LEMMA OwnHeaderNext ==
  ASSUME UpdateInv, [UpdateNext]_allVars
  PROVE  OwnHeader'
<1> SUFFICES ASSUME pc' = "program", wa' = BootEnd, i' > 0
             PROVE  flash'[BootEnd] \in Passing(target, 0)' \cup {Erased, Junk}
  BY DEF OwnHeader
<1>0. TypeOK /\ Turns /\ OwnBlock /\ OwnHeader
  BY DEF UpdateInv, UpdateTypeOK, Progress
<1> USE DEF Passing
<1>1. CASE DataSteps /\ UNCHANGED <<target, step>>
  <2>1. pc = "program" /\ wa = BootEnd /\ i \in Nat /\ i \in DOMAIN rx
    <3>1. pc = "program" /\ UNCHANGED wa
      BY <1>1 DEF DataSteps, RangeStep, BlockStep, EraseStep, ProgramStep, VerifyStep,
         Advance, GoOn, Fail, Finish, Return
    <3> QED BY <1>0, <3>1, GeometryFacts DEF TypeOK
  <2>2. /\ target \in Versions /\ step \in Nat /\ step <= LastStep(target)
        /\ rx = Chunk(target, ChunkStart(target, step)) /\ ~ IsErase(target, step)
        /\ BootEnd = BootEnd + ChunkStart(target, step)
    BY <1>0, <2>1 DEF OwnBlock, Turns, UpdateInv, UpdateTypeOK, Working, Firmware, IsData
  <2>3. ChunkStart(target, step) = 0 /\ rx[i] = Image[target][0 + i]
    BY <2>1, <2>2, ChunkShape, GeometryFacts
  <2>4. BootEnd \in Pages
    BY GeometryFacts DEF Pages
  <2>5. PageStep(BootEnd)
    BY <2>4, UpdateIsMachineStep, PageEffect DEF UpdateInv, UpdateTypeOK
  <2>6. CASE Programs(BootEnd)
    <3>1. i = 0 /\ flash'[BootEnd] \in {rx[i]} \cup Scars({rx[i]})
      BY <2>1, <2>6, GeometryFacts DEF Programs
    <3> QED BY <1>1, <2>3, <3>1
  <2>7. CASE flash'[BootEnd] = flash[BootEnd]
    <3>1. CASE i = 0
      <4>1. fmc_page_is_erased(wa + 0)
        BY <2>1, <3>1 DEF UpdateInv, Kept, LoopWork, ProgramsErasedPages
      <4> QED BY <2>1, <2>7, <4>1, GeometryFacts DEF fmc_page_is_erased
    <3>2. CASE i # 0
      BY <1>0, <1>1, <2>1, <2>7, <3>2 DEF OwnHeader
    <3> QED BY <3>1, <3>2
  <2>8. CASE BootEnd \in BusyPages /\ flash'[BootEnd] \in {Erased} \cup Garbled({flash[BootEnd]})
    <3>1. BootEnd = wa + 0 /\ i = 0
      BY <2>1, <2>8, GeometryFacts DEF BusyPages
    <3>2. flash[BootEnd] = Erased
      BY <2>1, <3>1 DEF UpdateInv, Kept, LoopWork, ProgramsErasedPages, fmc_page_is_erased
    <3> QED BY <2>8, <3>2, ContentAssumption DEF Garbled, Scars
  <2> QED BY <2>5, <2>6, <2>7, <2>8 DEF PageStep
<1>2. CASE UNCHANGED <<flash, pc, wa, i, target>>
  BY <1>0, <1>2 DEF OwnHeader
<1>3. CASE SessionEnds
  <2>1. HostFails
    BY <1>3, NobodyTalks DEF Working
  <2> QED BY <1>2, <2>1 DEF HostFails
<1>4. CASE DeviceStep
  <2>1. DataSteps /\ UNCHANGED <<target, step>>
    BY <1>4 DEF DeviceStep, Device, MainCheck, hostVars
  <2> QED BY <1>1, <2>1
<1>5. CASE HostRequests \/ \E v \in Versions : HostOpen(v)
  BY <1>5, HostRequest
<1>6. CASE HostData
  BY <1>6, CommandCases DEF HostData, ErasePage, SetAddress, FirmwareBlock, Finish,
     Fail, Return
<1>7. CASE UNCHANGED allVars
  BY <1>2, <1>7 DEF allVars, vars
<1> QED BY <1>3, <1>4, <1>5, <1>6, <1>7
        DEF UpdateNext, HostStep, HostRequests, SessionEnds

(***************************************************************************)
(* What the user relies on: SuccessMeansInstalled and RunsOnlyChecked.       *)
(***************************************************************************)
LEMMA SuccessNext ==
  ASSUME UpdateInv, [UpdateNext]_allVars
  PROVE  SuccessMeansInstalled'
<1> SUFFICES ASSUME phase' = "done" PROVE Installed(target)'
  BY DEF SuccessMeansInstalled
<1>0. Turns /\ Before /\ UpdateTypeOK /\ SuccessMeansInstalled
  BY DEF UpdateInv, Progress
<1>1. CASE HostLeave
  <2>1. /\ phase = "setup" /\ step > LastStep(target) /\ pc = "poll"
        /\ UNCHANGED <<flash, target, step>>
    BY <1>1 DEF HostLeave, DnloadManifest, Setup
  <2>2. target \in Versions /\ step \in Nat /\ step = LastStep(target) + 1
    BY <1>0, <2>1, PartsOfImage DEF Turns, UpdateTypeOK, Active
  <2>3. \A k \in DOMAIN Image[target] : k < ChunkStart(target, step)
    BY <2>2, ListCoversImage
  <2> QED BY <1>0, <2>1, <2>3 DEF Before, AtStep, Installed
<1>2. CASE ~ HostLeave
  <2>1. phase = "done" /\ UNCHANGED target
    BY <1>2 DEF UpdateNext, BootStep, Stage1, DeviceStep, HostStep, HostClear, HostSetup,
       HostData, HostPoll, HostOpen, HostFails, PowerCycle, reboot_into_bootloader,
       hostVars, allVars
  <2>2. target \in Versions /\ pc \notin Working
    BY <1>0, <2>1 DEF Turns, Working, Stopped
  <2>3. \A k \in DOMAIN Image[target] : flash'[BootEnd + k] = flash[BootEnd + k]
    BY <2>2, ImageShape, IdleKeepsFlash, GeometryFacts DEF Pages
  <2> QED BY <1>0, <2>1, <2>3 DEF SuccessMeansInstalled, Installed
<1> QED BY <1>1, <1>2

(* While the application runs, or is about to, the flash does not change.  *)
LEMMA RunsNext ==
  ASSUME UpdateInv, [UpdateNext]_allVars
  PROVE  RunsOnlyChecked'
<1> SUFFICES ASSUME app' PROVE RunsOnlyChecked'
  BY DEF RunsOnlyChecked
<1>0. UpdateTypeOK /\ RunsOnlyChecked
  BY DEF UpdateInv
<1>1. pc \notin Working /\ (app \/ ImageAccepted)
  <2>1. CASE BootStep
    BY <2>1 DEF BootStep, Stage1, Working
  <2>2. CASE ~ BootStep
    <3>1. app
      BY <2>2 DEF UpdateNext, DeviceStep, HostStep, HostClear, HostSetup, HostData,
         HostPoll, HostLeave, HostOpen, Host, HostFails, PowerCycle, PowerFailure,
         reboot_into_bootloader, bootVars, allVars
    <3> QED BY <1>0, <3>1 DEF UpdateTypeOK, Working
  <2> QED BY <2>1, <2>2
<1>2. PICK v \in Versions : ChecksumRight(v) \/ (v \in Unchecked /\ HasHeader(v))
  BY <1>0, <1>1 DEF RunsOnlyChecked, ImageAccepted
<1>3. \A q \in Pages : flash'[q] = flash[q]
  BY <1>1, IdleKeepsFlash
<1>4. BootEnd \in Pages /\ \A k \in DOMAIN Image[v] : BootEnd + k \in Pages
  BY ImageShape, GeometryFacts DEF Pages
<1>5. HasHeader(v)' = HasHeader(v) /\ (ChecksumRight(v) => ChecksumRight(v)')
  BY <1>3, <1>4 DEF HasHeader, ChecksumRight, Passing
<1> QED BY <1>2, <1>5 DEF RunsOnlyChecked

(***************************************************************************)
(* The theorems.                                                           *)
(***************************************************************************)
LEMMA UpdateInvInit == UpdateInit => UpdateInv
<1> SUFFICES ASSUME UpdateInit PROVE UpdateInv
  OBVIOUS
<1>1. TypeOK
  <2>1. FlashTypeOK
    BY DEF UpdateInit, FlashInit, FlashTypeOK, Content
  <2>2. 0 \in Pages /\ 0 \in 0 .. (AddrSpace - 1) /\ 0 \in 0 .. MaxBlock
        /\ 0 \in 0 .. (PagesPerSector + TransferPages)
    BY GeometryFacts DEF Pages
  <2> QED BY <2>1, <2>2 DEF UpdateInit, TypeOK, dfu_state, dfu_status, Working
<1>2. UpdateTypeOK
  BY <1>1 DEF UpdateInit, UpdateTypeOK
<1>3. Control
  BY DEF UpdateInit, Control, StatusStateAgree, ResetIsNext, Working
<1>4. Kept
  BY DEF UpdateInit, Kept, PromiseKept, Holds, RangeWork, BlockWork, FirmwareWork,
     LoopWork, ProgramsErasedPages, None, Firmware
<1>5. Progress
  BY DEF UpdateInit, Progress, Turns, Pointed, Before, AtStep, OwnBlock, OwnHeader,
     Active, Working, Firmware, Stopped
<1> QED BY <1>2, <1>3, <1>4, <1>5
        DEF UpdateInit, UpdateInv, SuccessMeansInstalled, RunsOnlyChecked

LEMMA UpdateInvNext == UpdateInv /\ [UpdateNext]_allVars => UpdateInv'
<1> SUFFICES ASSUME UpdateInv, [UpdateNext]_allVars PROVE UpdateInv'
  OBVIOUS
<1>1. TypeOK' /\ Control' /\ Kept'
  BY UpdateIsMachineStep, MachineNext DEF UpdateInv, UpdateTypeOK
<1>2. Progress'
  BY TurnsNext, PointedNext, BeforeNext, OwnBlockNext, OwnHeaderNext DEF Progress
<1> QED BY <1>1, <1>2, TurnsNext, SuccessNext, RunsNext DEF UpdateInv

LEMMA UpdateInvariant == UpdateSpec => []UpdateInv
BY UpdateInvInit, UpdateInvNext, PTL DEF UpdateSpec

(* Every variable of the update keeps its type, and the application runs   *)
(* only when stage 2 does not (main.cpp:122-206, dfu.cpp:28-32).           *)
THEOREM UpdateTypeCorrect == UpdateSpec => []UpdateTypeOK
<1>1. UpdateInv => UpdateTypeOK
  BY DEF UpdateInv
<1> QED BY <1>1, UpdateInvariant, PTL

(* Success reported means that the image is in the flash, every page of it,*)
(* from then until the next update begins: for every image, every chunk    *)
(* size, every earlier attempt (dfu.cpp:170-280).                          *)
THEOREM SuccessIsInstalled == UpdateSpec => []SuccessMeansInstalled
<1>1. UpdateInv => SuccessMeansInstalled
  BY DEF UpdateInv
<1> QED BY <1>1, UpdateInvariant, PTL

(* Stage 1 starts nothing but one image whose checksum is right, which is  *)
(* all of it but words that are not looked at, or one that asked not to be *)
(* checked, and nobody changes it while it runs (main.cpp:155-190).        *)
THEOREM OnlyCheckedRuns == UpdateSpec => []RunsOnlyChecked
<1>1. UpdateInv => RunsOnlyChecked
  BY DEF UpdateInv
<1> QED BY <1>1, UpdateInvariant, PTL

(* After a success stage 1 finds no reason for the DFU mode: no marker, no *)
(* button, and an image it accepts (main.cpp:163-201).                     *)
THEOREM SuccessIsStarted == UpdateSpec => SuccessLeadsToApp
<1>1. UpdateInv /\ [UpdateNext]_allVars =>
        [phase = "done" /\ pc \in {"reset", "off"} => pc' \in {"reset", "off"}]_allVars
  <2> SUFFICES ASSUME UpdateInv, UpdateNext, phase = "done", pc \in Stopped
               PROVE  pc' \in Stopped
    BY DEF Stopped
  <2>1. CASE BootStep
    <3>1. PICK button \in Buttons : Stage1(button)
      BY <2>1 DEF BootStep
    <3>2. UNCHANGED vars
      BY <3>1, SuccessStarts DEF Stage1
    <3> QED BY <3>2 DEF vars
  <2>2. CASE DeviceStep
    BY <2>2, HandlerEffect DEF DeviceStep, Device, MainCheck, Stopped, Working
  <2>3. CASE HostStep \/ HostFails \/ \E v \in Versions : HostOpen(v)
    BY <2>3 DEF HostStep, HostClear, HostSetup, HostData, HostPoll, HostLeave, HostFails,
       HostOpen, Active
  <2>4. CASE PowerCycle \/ reboot_into_bootloader
    BY <2>4 DEF PowerCycle, PowerFailure, reboot_into_bootloader, vars, Stopped
  <2> QED BY <2>1, <2>2, <2>3, <2>4 DEF UpdateNext
<1> QED BY <1>1, UpdateInvariant, PTL DEF UpdateSpec, SuccessLeadsToApp

(***************************************************************************)
(* Update implements AppSlot.  What has to be shown is that the pages of   *)
(* the flash change the version in the slot only as that module allows:    *)
(* two images share no header and a page is programmed only when erased,   *)
(* so the page that completes an image completes the one wanted, and       *)
(* nothing was complete before.                                            *)
(***************************************************************************)
SlotFacts ==
  /\ \A v \in Versions : ChecksumRight(v) => InSlot = v
  /\ (\A v \in Versions : ~ ChecksumRight(v)) => InSlot = Nothing
  /\ \A v \in Versions : app /\ HasHeader(v) => Running = v
  /\ ~ app => Running = Nothing

(* What is left of a page tells which page it was.                         *)
LEMMA PassingTells ==
  ASSUME NEW x, NEW c \in Data, NEW d \in Data,
         x \in {c} \cup Scars({c}), x \in {d} \cup Scars({d})
  PROVE  c = d
BY ContentAssumption DEF Scars

(* Page 0 tells the versions apart.                                        *)
LEMMA HeaderTells ==
  ASSUME NEW v \in Versions, NEW w \in Versions, NEW x,
         x \in Passing(v, 0), x \in Passing(w, 0)
  PROVE  v = w
<1>1. 0 \in DOMAIN Image[w] /\ Image[v][0] \in Data /\ Image[w][0] \in Data
  BY ImageShape
<1>2. Image[v][0] = Image[w][0]
  BY <1>1, PassingTells DEF Passing
<1> QED BY <1>1, <1>2, ImageAssumption

LEMMA RightHeader ==
  ASSUME NEW v \in Versions, ChecksumRight(v)
  PROVE  HasHeader(v)
<1>1. 0 \in DOMAIN Image[v] /\ BootEnd + 0 = BootEnd
  BY ImageShape, GeometryFacts
<1> QED BY <1>1 DEF ChecksumRight, HasHeader

LEMMA InstalledIsRight ==
  ASSUME NEW v \in Versions, Installed(v)
  PROVE  ChecksumRight(v)
BY DEF Installed, ChecksumRight, Passing

LEMMA SlotRead == SlotFacts
<1>1. ASSUME NEW v \in Versions, ChecksumRight(v) PROVE InSlot = v
  <2>1. Checked = {v}
    BY <1>1, RightHeader, HeaderTells DEF Checked, HasHeader
  <2> QED BY <2>1 DEF InSlot
<1>2. (\A v \in Versions : ~ ChecksumRight(v)) => InSlot = Nothing
  BY DEF InSlot, Checked
<1>3. ASSUME NEW v \in Versions, app, HasHeader(v) PROVE Running = v
  <2>1. Started = {v}
    BY <1>3, HeaderTells DEF Started, HasHeader
  <2> QED BY <2>1 DEF Running
<1>4. ~ app => Running = Nothing
  BY DEF Running, Started
<1> QED BY <1>1, <1>2, <1>3, <1>4 DEF SlotFacts

LEMMA SlotReadNext == SlotFacts'
BY SlotRead, PTL

(* Pages of images are where they belong, and are neither erased nor junk. *)
LEMMA ImagePages ==
  /\ BootEnd \in Nat /\ BootEnd \in Pages /\ BootEnd + 0 = BootEnd
  /\ \A v \in Versions :
       /\ 0 \in DOMAIN Image[v]
       /\ \A k \in DOMAIN Image[v] :
            /\ k \in Nat /\ BootEnd + k \in Pages
            /\ Image[v][k] \in Data
            /\ Passing(v, k) \cap {Erased, Junk} = {}
<1>1. BootEnd \in Nat /\ BootEnd \in Pages /\ BootEnd + 0 = BootEnd
  BY GeometryFacts DEF Pages
<1>2. ASSUME NEW v \in Versions
      PROVE  /\ 0 \in DOMAIN Image[v]
             /\ \A k \in DOMAIN Image[v] :
                  k \in Nat /\ BootEnd + k \in Pages /\ Image[v][k] \in Data
  BY ImageShape, GeometryFacts DEF Pages
<1>3. ASSUME NEW v \in Versions, NEW k \in DOMAIN Image[v]
      PROVE  Passing(v, k) \cap {Erased, Junk} = {}
  BY <1>2, ContentAssumption DEF Passing, Scars
<1> QED BY <1>1, <1>2, <1>3

(* A page that passes now and did not before has been programmed.          *)
LEMMA NowPasses ==
  ASSUME UpdateInv, [UpdateNext]_allVars, NEW v \in Versions, NEW k \in DOMAIN Image[v],
         flash[BootEnd + k] \notin Passing(v, k), flash'[BootEnd + k] \in Passing(v, k)
  PROVE  Programs(BootEnd + k) /\ rx[i] = Image[v][k] /\ flash[BootEnd + k] = Erased
<1> DEFINE q == BootEnd + k
<1>1. q \in Pages /\ Image[v][k] \in Data /\ Passing(v, k) \cap {Erased, Junk} = {}
  BY ImagePages
<1>2. PageStep(q)
  BY <1>1, UpdateIsMachineStep, PageEffect DEF UpdateInv, UpdateTypeOK
<1> HIDE DEF q
<1>3. flash[q] \notin Passing(v, k) /\ flash'[q] \in Passing(v, k)
  BY DEF q
<1>4. flash'[q] \notin {Erased} \cup Garbled({flash[q]})
  <2> SUFFICES ASSUME flash'[q] \in Scars({flash[q]}) PROVE FALSE
    BY <1>1, <1>3 DEF Garbled
  <2>1. flash[q] \in Data
    BY ContentAssumption DEF Scars
  <2>2. flash[q] = Image[v][k]
    BY <1>1, <1>3, <2>1, PassingTells DEF Passing
  <2> QED BY <1>3, <2>2 DEF Passing
<1>5. Programs(q)
  BY <1>2, <1>3, <1>4 DEF PageStep
<1>6. rx[i] \in Data
  <2>1. i \in DOMAIN rx /\ rx \in Blocks \cup {None}
    BY <1>5 DEF Programs, UpdateInv, UpdateTypeOK, TypeOK
  <2>2. rx \in Blocks
    BY <2>1 DEF None
  <2> QED BY <2>1, <2>2, BlockShape
<1>7. rx[i] = Image[v][k]
  BY <1>1, <1>3, <1>5, <1>6, PassingTells DEF Programs, Passing
<1> QED BY <1>5, <1>7 DEF Programs, q

(* The step after which the checksum of an image is right.                 *)
LEMMA Completes ==
  ASSUME UpdateInv, [UpdateNext]_allVars, NEW v \in Versions,
         ~ ChecksumRight(v), ChecksumRight(v)'
  PROVE  pc \in Working /\ v = target /\ \A w \in Versions : ~ ChecksumRight(w)
<1>0. TypeOK /\ Turns /\ OwnBlock /\ OwnHeader /\ Before /\ step \in Nat
  BY DEF UpdateInv, UpdateTypeOK, Progress
<1>1. PICK k \in DOMAIN Image[v] : flash[BootEnd + k] \notin Passing(v, k)
  BY DEF ChecksumRight
<1>2. k \in Nat /\ BootEnd \in Nat /\ BootEnd \in Pages /\ BootEnd + 0 = BootEnd
  BY ImagePages
<1>3. \A j \in DOMAIN Image[v] : flash'[BootEnd + j] \in Passing(v, j)
  BY DEF ChecksumRight, Passing
<1>4. Programs(BootEnd + k) /\ rx[i] = Image[v][k] /\ flash[BootEnd + k] = Erased
  BY <1>1, <1>3, NowPasses
<1>5. PageStep(BootEnd)
  BY <1>2, UpdateIsMachineStep, PageEffect DEF UpdateInv, UpdateTypeOK
<1>6. pc = "program" /\ BootEnd + k = wa + i /\ i \in DOMAIN rx /\ wa \in Nat /\ i \in Nat
  BY <1>0, <1>4, GeometryFacts DEF Programs, TypeOK
<1> DEFINE first == ChunkStart(target, step)
<1>7. /\ target \in Versions /\ step <= LastStep(target) /\ ~ IsErase(target, step)
      /\ wa = BootEnd + first /\ rx = Chunk(target, first)
  BY <1>0, <1>6 DEF OwnBlock, Turns, Firmware, Working, IsData
<1>8. first \in Nat /\ first + i = k /\ rx[i] = Image[target][k]
  <2>1. first \in Nat /\ rx[i] = Image[target][first + i]
    BY <1>0, <1>6, <1>7, ChunkShape
  <2> HIDE DEF first
  <2>2. first + i = k
    BY <1>2, <1>6, <1>7, <2>1
  <2> QED BY <2>1, <2>2
<1> HIDE DEF first
<1>9. CASE k = 0
  <2>1. v = target
    BY <1>4, <1>7, <1>8, <1>9, HeaderTells DEF Passing
  <2>2. ASSUME NEW w \in Versions PROVE ~ ChecksumRight(w)
    <3>1. flash[BootEnd] = Erased
      BY <1>2, <1>4, <1>9
    <3> QED BY <3>1, RightHeader, ImagePages DEF HasHeader
  <2> QED BY <1>6, <2>1, <2>2 DEF Working
<1>10. CASE k # 0
  <2>1. flash'[BootEnd] \in Passing(v, 0)
    BY <1>2, <1>3, ImagePages
  <2>2. BootEnd \notin BusyPages /\ ~ Programs(BootEnd)
    BY <1>2, <1>6, <1>10 DEF Programs, BusyPages
  <2>3. flash[BootEnd] \in Passing(v, 0)
    BY <1>5, <2>1, <2>2 DEF PageStep
  <2>4. ASSUME flash[BootEnd] \in Passing(target, 0)
        PROVE  pc \in Working /\ v = target /\ \A w \in Versions : ~ ChecksumRight(w)
    <3>1. v = target
      BY <1>7, <2>3, <2>4, HeaderTells
    <3>2. ASSUME NEW w \in Versions, ChecksumRight(w) PROVE FALSE
      <4>1. w = v
        BY <2>3, <3>2, RightHeader, HeaderTells DEF HasHeader
      <4> QED BY <3>2, <4>1
    <3> QED BY <1>6, <3>1, <3>2 DEF Working
  <2>5. CASE first = 0
    <3>1. wa = BootEnd /\ i > 0
      BY <1>2, <1>6, <1>7, <1>8, <1>10, <2>5
    <3>2. flash[BootEnd] \in Passing(target, 0) \cup {Erased, Junk}
      BY <1>0, <1>6, <3>1 DEF OwnHeader
    <3>3. 0 \in DOMAIN Image[v] /\ Passing(v, 0) \cap {Erased, Junk} = {}
      BY ImagePages
    <3> QED BY <2>3, <2>4, <3>2, <3>3
  <2>6. CASE first # 0
    <3>1. AtStep /\ 0 < first /\ 0 \in DOMAIN Image[target]
      BY <1>6, <1>7, <1>8, <2>6, ImagePages DEF AtStep, Working
    <3>2. flash[BootEnd] = Image[target][0]
      BY <1>0, <1>2, <3>1 DEF Before, first
    <3> QED BY <2>4, <3>2 DEF Passing
  <2> QED BY <2>5, <2>6
<1> QED BY <1>9, <1>10

(* An image whose checksum is right does not become whole again.           *)
LEMMA Heals ==
  ASSUME UpdateInv, [UpdateNext]_allVars, NEW v \in Versions,
         ~ Installed(v), Installed(v)'
  PROVE  ~ ChecksumRight(v)
<1>1. PICK k \in DOMAIN Image[v] : flash[BootEnd + k] # Image[v][k]
  BY DEF Installed
<1>2. flash'[BootEnd + k] = Image[v][k]
  BY DEF Installed
<1>3. CASE flash[BootEnd + k] \notin Passing(v, k)
  BY <1>3 DEF ChecksumRight
<1>4. CASE flash[BootEnd + k] \in Passing(v, k)
  <2>1. /\ BootEnd + k \in Pages /\ Image[v][k] \in Data
        /\ Passing(v, k) \cap {Erased, Junk} = {}
    BY ImagePages
  <2>2. PageStep(BootEnd + k)
    BY <2>1, UpdateIsMachineStep, PageEffect DEF UpdateInv, UpdateTypeOK
  <2>3. Image[v][k] \notin {Erased} \cup Garbled({flash[BootEnd + k]})
    BY <2>1, ContentAssumption DEF Garbled, Scars
  <2>4. flash[BootEnd + k] # Erased
    BY <1>4, <2>1
  <2> QED BY <1>1, <1>2, <2>2, <2>3, <2>4 DEF PageStep, Programs
<1> QED BY <1>3, <1>4

(* Only the data handler changes what is in the slot.                      *)
LEMMA SlotMoves ==
  ASSUME UpdateInv, [UpdateNext]_allVars
  PROVE  \/ UNCHANGED <<InSlot, Intact>>
         \/ pc \in Working /\ InSlot' \in {InSlot, Nothing} /\ Intact' = FALSE
         \/ pc \in Working /\ InSlot = Nothing /\ InSlot' = target /\ target \in Versions
<1>1. CASE pc \notin Working
  <2>1. ASSUME NEW v \in Versions
        PROVE  (Installed(v)' <=> Installed(v)) /\ (ChecksumRight(v)' <=> ChecksumRight(v))
    <3>1. \A k \in DOMAIN Image[v] : flash'[BootEnd + k] = flash[BootEnd + k]
      BY <1>1, ImagePages, IdleKeepsFlash
    <3> QED BY <3>1 DEF Installed, ChecksumRight, Passing
  <2>2. InSlot' = InSlot
    BY <2>1, SlotRead, SlotReadNext DEF SlotFacts
  <2>3. Intact' = Intact
    BY <2>1 DEF Intact, Whole
  <2> QED BY <2>2, <2>3
<1>2. CASE pc \in Working
  <2>1. CASE \E v \in Versions : ~ ChecksumRight(v) /\ ChecksumRight(v)'
    BY <1>2, <2>1, Completes, SlotRead, SlotReadNext DEF SlotFacts
  <2>2. CASE \A v \in Versions : ChecksumRight(v)' => ChecksumRight(v)
    <3>1. InSlot' \in {InSlot, Nothing}
      BY <2>2, SlotRead, SlotReadNext DEF SlotFacts
    <3>2. CASE \A v \in Versions : ~ Installed(v)'
      <4>1. Intact' = FALSE
        BY <3>2 DEF Intact, Whole
      <4> QED BY <1>2, <3>1, <4>1
    <3>3. ASSUME NEW v \in Versions, Installed(v)' PROVE UNCHANGED <<InSlot, Intact>>
      <4>1. ChecksumRight(v)'
        BY <3>3 DEF Installed, ChecksumRight, Passing
      <4>2. ChecksumRight(v) /\ Installed(v)
        BY <2>2, <3>3, <4>1, Heals
      <4>3. Intact = TRUE /\ Intact' = TRUE
        BY <3>3, <4>2 DEF Intact, Whole
      <4> QED BY <4>1, <4>2, <4>3, SlotRead, SlotReadNext DEF SlotFacts
    <3> QED BY <3>2, <3>3
  <2> QED BY <2>1, <2>2
<1> QED BY <1>1, <1>2

(* Whoever is behind a step, the user, the host, stage 1, stage 2 or the   *)
(* supply, AppSlot has a step for it.                                      *)
LEMMA SlotStep ==
  ASSUME UpdateInv, [UpdateNext]_allVars
  PROVE  [Slot!SlotNext]_<<InSlot, Intact, target, Running>>
<1> USE DEF Slot!SlotNext, Slot!slotVars
<1>0. UpdateTypeOK /\ app \in BOOLEAN
  BY DEF UpdateInv, UpdateTypeOK
<1>1. CASE pc \in Working
  <2>1. app = FALSE /\ app' = FALSE /\ target' = target
    <3>1. app = FALSE
      BY <1>0, <1>1 DEF UpdateTypeOK, Working
    <3>2. ~ HostStep /\ \A v \in Versions : ~ HostOpen(v)
      <4>1. ~ HostData
        BY <1>1, CommandIsTransfer, CommandCases
           DEF HostData, UpdateInv, Progress, Turns, UpdateTypeOK, Working
      <4> QED BY <1>1, <4>1 DEF HostStep, HostClear, HostSetup, HostPoll, HostLeave, HostOpen,
             ClrStatus, Abort, DnloadBlock, GetStatus, DnloadManifest, Setup, Working
    <3>3. ~ BootStep /\ ~ reboot_into_bootloader
      BY <1>1, <3>1 DEF BootStep, Stage1, Working, reboot_into_bootloader
    <3>4. DeviceStep \/ HostFails \/ PowerCycle \/ UNCHANGED allVars
      BY <3>2, <3>3 DEF UpdateNext
    <3> QED BY <3>1, <3>4 DEF DeviceStep, HostFails, PowerCycle, bootVars, hostVars, allVars
  <2>2. Running = Nothing /\ Running' = Nothing
    BY <2>1, SlotRead, SlotReadNext DEF SlotFacts
  <2>3. CASE UNCHANGED <<InSlot, Intact>>
    BY <2>1, <2>2, <2>3
  <2>4. CASE InSlot' \in {InSlot, Nothing} /\ Intact' = FALSE
    BY <2>1, <2>2, <2>4 DEF Slot!Damage
  <2>5. CASE InSlot = Nothing /\ InSlot' = target /\ target \in Versions
    <3>1. Intact' \in BOOLEAN
      BY DEF Intact
    <3> QED BY <2>1, <2>2, <2>5, <3>1, BootAssumption DEF Slot!Install
  <2> QED BY <2>3, <2>4, <2>5, SlotMoves
<1>2. CASE pc \notin Working
  <2>0. UNCHANGED <<InSlot, Intact>>
    BY <1>2, SlotMoves
  <2>1. CASE app' = FALSE /\ target' = target
    <3>1. Running' = Nothing
      BY <2>1, SlotReadNext DEF SlotFacts
    <3> QED BY <2>0, <2>1, <3>1 DEF Slot!Stop
  <2>2. CASE BootStep
    <3>1. PICK button \in Buttons : Stage1(button)
      BY <2>2 DEF BootStep
    <3>2. CASE app' = FALSE
      BY <2>1, <3>1, <3>2 DEF Stage1, hostVars
    <3>3. CASE app' # FALSE
      <4>1. /\ button = FALSE /\ app' = TRUE
            /\ ImageAccepted /\ UNCHANGED <<flash, target>>
        BY <3>1, <3>3 DEF Stage1, Buttons, hostVars, vars
      <4>2. app = FALSE
        BY <1>0, <3>1, <4>1 DEF Buttons
      <4>3. PICK v \in Versions :
              HasHeader(v) /\ (v \in Unchecked \/ ChecksumRight(v))
        BY <4>1 DEF ImageAccepted
      <4>4. Running = Nothing /\ Running' = v
        <5>1. HasHeader(v)'
          BY <4>1, <4>3 DEF HasHeader, Passing
        <5> QED BY <4>1, <4>2, <5>1, SlotRead, SlotReadNext DEF SlotFacts
      <4>5. InSlot = v \/ (InSlot = Nothing /\ v \in Unchecked)
        <5>1. CASE \E w \in Versions : ChecksumRight(w)
          <6>1. PICK w \in Versions : ChecksumRight(w)
            BY <5>1
          <6>2. w = v
            BY <4>3, <6>1, RightHeader, HeaderTells DEF HasHeader
          <6> QED BY <6>1, <6>2, SlotRead DEF SlotFacts
        <5> QED BY <4>3, <5>1, SlotRead DEF SlotFacts
      <4> QED BY <2>0, <4>1, <4>4, <4>5 DEF Slot!Start
    <3> QED BY <3>2, <3>3
  <2>3. CASE \E v \in Versions : HostOpen(v)
    <3>1. PICK v \in Versions : HostOpen(v)
      BY <2>3
    <3>2. pc = "poll" /\ target' = v /\ UNCHANGED app
      BY <3>1 DEF HostOpen, GetStatus, Setup, Host, bootVars
    <3>3. app = FALSE /\ app' = FALSE
      BY <1>0, <3>2 DEF UpdateTypeOK
    <3>4. Running = Nothing /\ Running' = Nothing
      BY <3>3, SlotRead, SlotReadNext DEF SlotFacts
    <3> QED BY <2>0, <3>2, <3>4 DEF Slot!Ask
  <2>4. CASE DeviceStep \/ HostStep \/ HostFails
    <3>1. UNCHANGED <<app, target>>
      BY <2>4 DEF DeviceStep, HostStep, HostClear, HostSetup, HostData, HostPoll, HostLeave,
         Host, HostFails, bootVars, hostVars
    <3>2. pc \notin Stopped
      <4>1. CASE HostFails
        BY <4>1 DEF HostFails, UpdateInv, Progress, Turns
      <4>2. CASE HostData
        BY <4>2, CommandIsTransfer DEF HostData, UpdateInv, Progress, Turns, UpdateTypeOK, Stopped
      <4>3. CASE DeviceStep \/ (HostStep /\ ~ HostData)
        BY <4>3 DEF DeviceStep, Device, DataSteps, RangeStep, BlockStep, EraseStep,
           ProgramStep, VerifyStep, MainCheck, HostStep, HostClear, HostSetup, HostPoll,
           HostLeave, ClrStatus, Abort, DnloadBlock, GetStatus, DnloadManifest, Setup, Stopped
      <4> QED BY <2>4, <4>1, <4>2, <4>3
    <3>3. app = FALSE
      BY <1>0, <3>2 DEF UpdateTypeOK, Stopped
    <3> QED BY <2>1, <3>1, <3>3
  <2>5. CASE PowerCycle \/ reboot_into_bootloader
    <3>1. UNCHANGED target
      BY <2>5 DEF PowerCycle, reboot_into_bootloader
    <3>2. app' = FALSE
      BY <1>0, <2>5 DEF PowerCycle, PowerFailure, reboot_into_bootloader, UpdateTypeOK, Working
    <3> QED BY <2>1, <3>1, <3>2
  <2>6. CASE UNCHANGED allVars
    BY <2>0, <2>6 DEF allVars, vars, Running, Started, HasHeader, Passing
  <2> QED BY <2>2, <2>3, <2>4, <2>5, <2>6 DEF UpdateNext
<1> QED BY <1>1, <1>2

(* The user sees what AppSlot promises: one version with a right checksum  *)
(* or none, put there only by the update asked for, its other words lost   *)
(* only to an update and back only with one, and nothing else ever started,*)
(* through every interruption (main.cpp:122-206, dfu.cpp:170-280).         *)
THEOREM UpdateImplementsSlot == UpdateSpec => ImplementsAppSlot
<1>1. UpdateInit => Slot!SlotInit
  <2> SUFFICES ASSUME UpdateInit PROVE Slot!SlotInit
    OBVIOUS
  <2>1. flash[BootEnd] = Erased
    BY GeometryFacts DEF UpdateInit, FlashInit, BootPages, Pages
  <2>2. \A v \in Versions : ~ ChecksumRight(v)
    BY <2>1, RightHeader, ImagePages DEF HasHeader
  <2>3. Intact = FALSE
    BY <2>2, InstalledIsRight DEF Intact, Whole
  <2> QED BY <2>2, <2>3, SlotRead DEF SlotFacts, UpdateInit, Slot!SlotInit
<1>2. UpdateInv /\ [UpdateNext]_allVars => [Slot!SlotNext]_<<InSlot, Intact, target, Running>>
  BY SlotStep
<1>3. UpdateInv /\ [UpdateNext]_allVars => [Slot!SlotNext]_Slot!slotVars
  BY <1>2 DEF Slot!slotVars
<1> QED BY <1>1, <1>3, UpdateInvariant, PTL DEF UpdateSpec, ImplementsAppSlot, Slot!SlotSpec
=============================================================================
