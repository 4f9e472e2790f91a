------------------------------- MODULE Update ------------------------------
(***************************************************************************)
(* A firmware update from end to end: stage 1 (src_stage1/main.cpp), which *)
(* decides at every reset between the application and the DFU mode; stage  *)
(* 2, the machine of Dfu.tla; and, outside the repository, the host that   *)
(* runs "dfu-util -s 0x4000:leave -D firmware.bin", the user and the       *)
(* supply.  Any step can be the last one before a power failure.           *)
(*                                                                         *)
(* pc \in {reset, off} says that stage 2 is not running: then either the   *)
(* application runs ("app") or stage 1 is about to decide.                 *)
(***************************************************************************)
EXTENDS DfuHost

CONSTANTS
  Unchecked,    \* images whose header switches the CRC test off
  Nothing       \* no version

(* Stage 1 reads the first word of an image and does not test it.          *)
ASSUME BootAssumption ==
  /\ Nothing \notin Versions /\ Unchecked \subseteq Versions
  /\ \A v \in Versions : Image[v][0] \in DOMAIN Scarred

VARIABLES
  marker,    \* RAM word at 0x20000000 holds BOOT_TO_DFU_MARKER
  app,       \* the application is executing
  target,    \* the version of the update in progress, or of the last one
  phase,     \* where the host is
  step       \* which of the commands of the update it is at

bootVars == <<marker, app>>
hostVars == <<target, phase, step>>
allVars  == <<vars, marker, app, target, phase, step>>

Active == {"open", "setup", "data", "sync", "busy"}

UpdateTypeOK ==
  /\ TypeOK
  /\ marker \in BOOLEAN
  /\ app \in BOOLEAN
  /\ target \in Versions \cup {Nothing}
  /\ phase \in Active \cup {"idle", "done", "failed"}
  /\ step \in Nat
  /\ app => pc \in {"reset", "off"}

UpdateInit ==
  /\ FlashInit
  /\ state = "DFU_IDLE" /\ status = "OK"
  /\ dfu_address = 0 /\ dfu_block_num = 0
  /\ pc = "off" /\ awaiting = FALSE
  /\ wa = 0 /\ i = 0 /\ rx = None
  /\ asked = None /\ promised = None
  /\ marker = FALSE /\ app = FALSE
  /\ target = Nothing /\ phase = "idle" /\ step = 0

(***************************************************************************)
(* Stage 1.                                                                *)
(***************************************************************************)
(* What stage 1 takes for page k of an image.  The checksum runs from the  *)
(* fourth word on, over as many whole words as the size gives: not over    *)
(* the first, and not over the last bytes of an odd size.                  *)
Passing(v, k) == {Image[v][k]} \cup Scars({Image[v][k]})

HasHeader(v) == flash[BootEnd] \in Passing(v, 0)

ChecksumRight(v) == \A k \in DOMAIN Image[v] : flash[BootEnd + k] \in Passing(v, k)

(* Mutant: a header with a plausible size is enough.                       *)
ImageAccepted_NoCrc == \E v \in Versions : HasHeader(v)

(* The header read at APP_ADDRESS gives a plausible size and, unless it    *)
(* switches the test off, the checksum of the words it covers.  Any other  *)
(* first page has an absurd size or a wrong checksum in it.                *)
ImageAccepted ==
  \E v \in Versions : HasHeader(v) /\ (v \in Unchecked \/ ChecksumRight(v))

(* The user holds the DFU button only to get an update going.  Reset from  *)
(* the application without it just leads to this decision again.           *)
Buttons ==
  {button \in BOOLEAN : /\ app => button
                        /\ button => phase \in {"idle", "failed"}}

(* Mutant: the marker is left for the next boot.                           *)
Stage1_KeepsMarker(button) ==
  /\ pc \in {"reset", "off"}
  /\ IF marker \/ button \/ ~ ImageAccepted
     THEN app' = FALSE /\ Restart
     ELSE app' = TRUE /\ UNCHANGED vars
  /\ UNCHANGED <<marker, hostVars>>

(* Every reason for the DFU mode is looked at, then the marker is cleared. *)
Stage1(button) ==
  /\ pc \in {"reset", "off"}
  /\ marker' = FALSE
  /\ IF marker \/ button \/ ~ ImageAccepted
     THEN app' = FALSE /\ Restart
     ELSE app' = TRUE /\ UNCHANGED vars
  /\ UNCHANGED hostVars

(***************************************************************************)
(* The application and the supply.                                         *)
(***************************************************************************)
Whole == {v \in Versions : Installed(v)}

(* A whole application asks for the DFU mode and resets the processor.     *)
reboot_into_bootloader ==
  /\ app /\ app' = FALSE
  /\ Whole # {}
  /\ marker' = TRUE
  /\ phase' = IF phase = "done" THEN "idle" ELSE phase
  /\ UNCHANGED <<vars, target, step>>

(* RAM does not survive: the 64-bit marker is not there by chance.  A host *)
(* that was talking to the device has lost it.                             *)
PowerCycle ==
  /\ marker' = FALSE
  /\ phase' = IF phase \in Active THEN "failed" ELSE phase
  /\ \/ PowerFailure /\ UNCHANGED app
     \/ /\ app /\ app' = FALSE
        /\ Fault
        /\ UNCHANGED <<flash, state, status, dfu_address, dfu_block_num, pc,
                       awaiting, jobVars, ghostVars>>
  /\ UNCHANGED <<target, step>>

(***************************************************************************)
(* The host, which runs the script of DfuHost over a bus that loses nothing*)
(* (Link.tla has the bus).                                                 *)
(***************************************************************************)
Host == UNCHANGED bootVars

(* dfu-util looks at the state it finds and clears what is left of an      *)
(* earlier session.                                                        *)
HostOpen(v) ==
  /\ phase \in {"idle", "failed"}
  /\ GetStatus /\ Host
  /\ target' = v
  /\ step' = 1
  /\ phase' = IF AfterPoll = "DFU_IDLE" THEN "setup" ELSE "open"

HostClear ==
  /\ phase = "open" /\ phase' = "setup"
  /\ IF state = "ERROR" THEN ClrStatus ELSE Abort
  /\ Host /\ UNCHANGED <<target, step>>

HostSetup ==
  /\ phase = "setup" /\ step <= LastStep(target) /\ phase' = "data"
  /\ DnloadBlock(BlockNumber(target, step))
  /\ Host /\ UNCHANGED <<target, step>>

HostData ==
  /\ phase = "data" /\ phase' = "sync"
  /\ Command(target, step)
  /\ Host /\ UNCHANGED <<target, step>>

(* The first reply after a command has to be dfuDNBUSY, the one that ends  *)
(* the command has to carry OK.                                            *)
HostPoll ==
  /\ phase \in {"sync", "busy"}
  /\ GetStatus /\ Host
  /\ CASE status # "OK" \/ (phase = "sync" /\ AfterPoll # "DNBUSY")
                                -> phase' = "failed" /\ UNCHANGED step
       [] status = "OK" /\ AfterPoll = "DNBUSY"
                                -> phase' = "busy" /\ UNCHANGED step
       [] OTHER                 -> phase' = "setup" /\ step' = step + 1
  /\ UNCHANGED target

(* ":leave" ends the download and reports success.                         *)
HostLeave ==
  /\ phase = "setup" /\ step > LastStep(target)
  /\ DnloadManifest /\ Host
  /\ phase' = "done"
  /\ UNCHANGED <<target, step>>

(* The user stops the host.                                                *)
HostFails ==
  /\ phase \in Active /\ phase' = "failed"
  /\ Fault
  /\ UNCHANGED <<flash, state, status, dfu_address, dfu_block_num, pc,
                 awaiting, jobVars, ghostVars, bootVars, target, step>>

BootStep == \E button \in Buttons : Stage1(button)

DeviceStep == Device /\ UNCHANGED <<bootVars, hostVars>>

HostStep == HostClear \/ HostSetup \/ HostData \/ HostPoll \/ HostLeave

UpdateNext ==
  \/ BootStep \/ DeviceStep \/ HostStep \/ HostFails
  \/ PowerCycle \/ reboot_into_bootloader
  \/ \E v \in Versions : HostOpen(v)

UpdateSpec == UpdateInit /\ [][UpdateNext]_allVars

(* The program and the host do not stop by themselves; a user whose update *)
(* failed gets the DFU mode back, from the application or with the button, *)
(* and tries again.                                                        *)
Retry ==
  /\ phase = "failed"
  /\ reboot_into_bootloader \/ Stage1(TRUE) \/ HostOpen(target)

UpdateFairSpec ==
  /\ UpdateSpec
  /\ WF_allVars(BootStep) /\ WF_allVars(DeviceStep) /\ WF_allVars(HostStep)
  /\ WF_allVars(Retry)

(***************************************************************************)
(* Properties.                                                             *)
(***************************************************************************)

(* When dfu-util reports success the whole image is in the flash, and it   *)
(* stays there until the next update begins (dfu.cpp:170-280): through     *)
(* earlier failed attempts, the 32 KB erases and the version before it.    *)
SuccessMeansInstalled == phase = "done" => Installed(target)

(* Stage 1 starts no mixture: whatever the last update was interrupted at, *)
(* an application that runs is one version, in every word the checksum is  *)
(* taken over, unless its header switches the test off (main.cpp:155-190), *)
(* and it stays so while it runs.  Its first word may be gone.             *)
RunsOnlyChecked ==
  app => \E v \in Versions : ChecksumRight(v) \/ (v \in Unchecked /\ HasHeader(v))

(* After a successful update the next boot starts the application: no      *)
(* marker is left behind that leads back to the DFU mode (main.cpp:177).   *)
SuccessLeadsToApp ==
  [][phase = "done" /\ pc \in {"reset", "off"} => pc' \in {"reset", "off"}]_allVars

(* An update that was begun ends with that version running, however many   *)
(* attempts the faults cost (main.cpp:163-201, dfu.cpp:325-351), unless    *)
(* the user asks for another version.                                      *)
UpdateSucceeds ==
  \A v \in Versions :
    (target = v /\ phase \in Active \cup {"failed"})
      ~> (app /\ Installed(v)) \/ target # v

(* What the user sees is AppSlot: the slot is emptied, filled, scarred and *)
(* started only as that module allows, through every interruption of stage *)
(* 1 and stage 2 (main.cpp:122-206, dfu.cpp:170-280).                      *)
Checked == {v \in Versions : ChecksumRight(v)}

InSlot == IF Checked = {} THEN Nothing ELSE CHOOSE v \in Checked : TRUE

Intact == Whole # {}

Started == {v \in Versions : app /\ HasHeader(v)}

Running == IF Started = {} THEN Nothing ELSE CHOOSE v \in Started : TRUE

Slot == INSTANCE AppSlot WITH
          slot <- InSlot, intact <- Intact, wanted <- target, running <- Running

ImplementsAppSlot == Slot!SlotSpec

(* ram_layout.html:58: "If the checksum proves the application is valid    *)
(* and uncorrupted, Stage 1 [...] jumps straight to the main application". *)
OnlyUncorruptedRuns ==
  app => \E v \in Versions : Installed(v) \/ (v \in Unchecked /\ HasHeader(v))
=============================================================================
