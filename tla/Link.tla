-------------------------------- MODULE Link -------------------------------
(***************************************************************************)
(* Stage 2 as one program: the control endpoint of Usb.tla, which calls    *)
(* the DFU machine of Dfu.tla, under a host that runs the commands of      *)
(* DfuHost over a bus that loses handshakes and is reset.                  *)
(*                                                                         *)
(* do_usb_poll() calls dfu_handle_request() while it handles a SETUP, so   *)
(* that both machines step together.  The OUT that completes a DNLOAD runs *)
(* dfu_handle_data(), which may take many flash operations; the event      *)
(* stays pending meanwhile ("handling"), the controller answers NAK, and   *)
(* the host may lose patience.                                             *)
(***************************************************************************)
EXTENDS DfuHost, Sequences

CONSTANTS
  MaxPacket, BufferSize, Losses,   \* see Usb.tla
  BusFaults,      \* bound on lost handshakes, bus resets, abandoned transfers
  BlockBytes,     \* length of a firmware block, in the bytes of Usb.tla
  CommandBytes    \* length of a DfuSe command: 5, less than a packet

(* dfu-util keeps to the wTransferSize of the functional descriptor, which *)
(* is the size of the receive buffer (usb.h:283, 422, usb.cpp:59, 65).         *)
ASSUME LinkAssumption ==
  /\ MaxPacket \in Nat \ {0} /\ BusFaults \in Nat
  /\ BufferSize \in Nat \ {0} /\ BufferSize < 65536
  /\ {BlockBytes, CommandBytes} \subseteq 1 .. BufferSize

(* Command hands the data of a step to the handler as the host sent them,  *)
(* so that no OUT packet may come twice (usb_repeated_packet shows what    *)
(* becomes of one that does).                                              *)
ASSUME WholeDataAssumption == "out" \notin Losses

VARIABLES
  \* the variables of Usb.tla
  ctrl_phase, ctrl_data, ctrl_data_remaining, dfu_rx, usb_dev_addr, ep0_tog,
  current, ep0_buffer, tx, DEV_ADDR, transfer, bus_rst, leaving, delivered,
  stage, asking, expected, received, address, busFaults,
  \* the program
  handling,    \* do_usb_poll() is inside dfu_handle_data()
  answer,      \* resp[] of the GETSTATUS with each tag: bState and bStatus
  \* dfu-util
  target,      \* the version it installs
  phase,       \* what it does next
  step,        \* which command of the list it is at
  asks,        \* the step the last SETUP packet on the bus is for, or 0
  due          \* the step whose data the device waits for, or 0

DFU_GETSTATUS == 3
DFU_CLRSTATUS == 4
DFU_ABORT == 6

StatusReply   == [class |-> TRUE, bRequest |-> DFU_GETSTATUS, in |-> TRUE,
                  wLength |-> 1, reply |-> 1, value |-> 0]
Plain(class, bRequest, value, wLength) ==
  [class |-> class, bRequest |-> bRequest, in |-> FALSE, wLength |-> wLength,
   reply |-> 0, value |-> value]
Address       == Plain(FALSE, 5, 1, 0)

(* Every control transfer of the session.                                  *)
Traffic ==
  {StatusReply, Address}
  \cup {Plain(TRUE, b, 0, 0) : b \in {1, DFU_CLRSTATUS, DFU_ABORT}}
  \cup {Plain(TRUE, 1, 0, CommandBytes), Plain(TRUE, 1, 2, BlockBytes)}

U == INSTANCE Usb WITH Transfers <- Traffic, MaxFaults <- BusFaults,
                       faults <- busFaults

usbVars ==
  <<ctrl_phase, ctrl_data, ctrl_data_remaining, dfu_rx, usb_dev_addr, ep0_tog,
    current, ep0_buffer, tx, DEV_ADDR, transfer, bus_rst, leaving, delivered,
    stage, asking, expected, received, address, busFaults>>
scriptVars == <<target, phase, step, asks>>
linkVars == <<vars, usbVars, handling, answer, due, scriptVars>>

Tags == {0, 1}
Phases == {"open", "clear", "abort", "setup", "sync", "busy", "leave", "done"}

LinkTypeOK ==
  /\ TypeOK
  /\ U!UsbTypeOK
  /\ handling \in BOOLEAN
  /\ answer \in [Tags -> [state : dfu_state, status : dfu_status]]
  /\ target \in Versions
  /\ phase \in Phases
  /\ step \in 1 .. LastStep(target) + 1
  /\ asks \in 0 .. LastStep(target) /\ due \in 0 .. LastStep(target)
  /\ handling => transfer.token = "OUT"

LinkInit ==
  /\ Init
  /\ U!Init
  /\ handling = FALSE
  /\ answer = [g \in Tags |-> [state |-> "DFU_IDLE", status |-> "OK"]]
  /\ target \in Versions
  /\ phase = "open" /\ step = 1
  /\ asks = 0 /\ due = 0

(***************************************************************************)
(* The program.                                                            *)
(***************************************************************************)
(* Mutant: the reply shows the state before the request moves it.          *)
NowAnswers_Before == [state |-> state, status |-> status]

NowAnswers == [state |-> AfterPoll, status |-> status]

(* Mutant: the block number of the request is not kept.                    *)
Request_BlockLost(r) ==
  \/ (~ r.class \/ r.bRequest = 5) /\ GetState
  \/ /\ r.class
     /\ \/ r.bRequest = 1 /\ r.wLength = 0 /\ DnloadManifest
        \/ r.bRequest = 1 /\ r.wLength > 0 /\ DnloadBlock(0)
        \/ r.bRequest = DFU_GETSTATUS /\ GetStatus
        \/ r.bRequest = DFU_CLRSTATUS /\ ClrStatus
        \/ r.bRequest = DFU_ABORT /\ Abort

(* Mutant: ABORT leaves the state alone.                                   *)
Request_NoAbort(r) ==
  \/ (~ r.class \/ r.bRequest = 5) /\ GetState
  \/ /\ r.class
     /\ \/ r.bRequest = 1 /\ r.wLength = 0 /\ DnloadManifest
        \/ r.bRequest = 1 /\ r.wLength > 0 /\ DnloadBlock(r.value)
        \/ r.bRequest = DFU_GETSTATUS /\ GetStatus
        \/ r.bRequest = DFU_CLRSTATUS /\ ClrStatus
        \/ r.bRequest = DFU_ABORT /\ GetState

(* dfu_handle_request(); a standard request leaves the DFU machine alone   *)
(* just as GETSTATE does.                                                  *)
Request(r) ==
  \/ (~ r.class \/ r.bRequest = 5) /\ GetState
  \/ /\ r.class
     /\ \/ r.bRequest = 1 /\ r.wLength = 0 /\ DnloadManifest
        \/ r.bRequest = 1 /\ r.wLength > 0 /\ DnloadBlock(r.value)
        \/ r.bRequest = DFU_GETSTATUS /\ GetStatus
        \/ r.bRequest = DFU_CLRSTATUS /\ ClrStatus
        \/ r.bRequest = DFU_ABORT /\ Abort

PollSetup ==
  LET r == transfer.packet
  IN /\ transfer.token = "SETUP"
     /\ Request(r)
     /\ U!do_usb_poll
     /\ answer' = IF r.class /\ r.bRequest = DFU_GETSTATUS
                  THEN [answer EXCEPT ![r.tag] = NowAnswers] ELSE answer
     /\ due' = asks
     /\ UNCHANGED <<handling, scriptVars>>

(* The pending OUT packet is the last one of the data of a DNLOAD.         *)
LastOut ==
  /\ transfer.token = "OUT" /\ ctrl_phase = "DATA_OUT"
  /\ current.bRequest = 1
  /\ U!AllReceived((ctrl_data_remaining - transfer.len) % U!Words)

(* dfu_handle_data() is called; do_usb_poll() has not returned.            *)
EnterHandler ==
  /\ LastOut /\ ~ handling /\ handling' = TRUE
  /\ Command(target, due)
  /\ UNCHANGED <<usbVars, answer, due, scriptVars>>

(* It is back, and do_usb_poll() finishes with the packet.                 *)
LeaveHandler ==
  /\ pc = "check" /\ handling /\ handling' = FALSE
  /\ U!do_usb_poll
  /\ UNCHANGED <<vars, answer, due, scriptVars>>

(* Every other event stays inside usb.cpp.                                 *)
PollOther ==
  /\ pc = "poll" /\ transfer.token # "SETUP" /\ ~ LastOut
  /\ U!do_usb_poll
  /\ UNCHANGED <<vars, handling, answer, due, scriptVars>>

Handler == DataSteps /\ UNCHANGED <<usbVars, handling, answer, due, scriptVars>>

LoopTests ==
  /\ ~ handling /\ MainCheck
  /\ UNCHANGED <<usbVars, handling, answer, due, scriptVars>>

(* A host that was about to leave is not interested in how this ends.      *)
ChipReset ==
  /\ pc = "reset" /\ Restart
  /\ U!SystemReset
  /\ phase' = "done" /\ due' = 0
  /\ UNCHANGED <<handling, answer, target, step, asks>>

Program ==
  PollSetup \/ EnterHandler \/ LeaveHandler \/ PollOther \/ Handler
  \/ LoopTests \/ ChipReset

(***************************************************************************)
(* dfu-util and the bus (external).                                        *)
(***************************************************************************)
Bus == UNCHANGED <<vars, handling, answer, due>>

NextTransfer ==
  CASE phase = "open"  -> StatusReply
    [] phase = "clear" -> Plain(TRUE, DFU_CLRSTATUS, 0, 0)
    [] phase = "abort" -> Plain(TRUE, DFU_ABORT, 0, 0)
    [] phase = "setup" -> Plain(TRUE, 1, BlockNumber(target, step),
                                IF BlockNumber(target, step) = 0
                                THEN CommandBytes ELSE BlockBytes)
    [] phase = "leave" -> Plain(TRUE, 1, 0, 0)
    [] OTHER           -> StatusReply

(* The next transfer: the address first, on a device that is new.          *)
HostBegins ==
  /\ phase # "done"
  /\ U!Begin(IF address = 0 THEN Address ELSE NextTransfer)
  /\ Bus /\ UNCHANGED scriptVars

(* What it does with a status it got.  The first one after a command must  *)
(* be dfuDNBUSY (dfu-util: "Wrong state after command"); a block may be    *)
(* done already.                                                           *)
Judge(got) ==
  LET command == BlockNumber(target, step) = 0
      wrong   == got.status # "OK"
                 \/ (phase = "sync" /\ command /\ got.state # "DNBUSY")
  IN CASE phase = "open" ->
            /\ phase' = CASE got.state = "DFU_IDLE" -> "setup"
                          [] got.state = "ERROR"    -> "clear"
                          [] OTHER                  -> "abort"
            /\ UNCHANGED step
       [] phase # "open" /\ wrong -> phase' = "open" /\ step' = 1
       [] phase # "open" /\ ~ wrong /\ got.state \in {"DNLOAD_SYNC", "DNBUSY"} ->
            phase' = "busy" /\ UNCHANGED step
       [] OTHER ->
            /\ step' = step + 1
            /\ phase' = IF step = LastStep(target) THEN "leave" ELSE "setup"

(* The transfer is complete for the host.                                  *)
Completed ==
  CASE ~ asking.class   -> UNCHANGED <<phase, step>>
    [] asking.class /\ asking.in -> Judge(answer[asking.tag])
    [] OTHER -> /\ phase' = CASE phase \in {"clear", "abort"} -> "open"
                              [] phase = "setup"              -> "sync"
                              [] OTHER                        -> "done"
                /\ UNCHANGED step

HostTransacts ==
  /\ U!HostStep
  /\ IF stage' = "idle" THEN Completed ELSE UNCHANGED <<phase, step>>
  /\ asks' = CASE stage # "setup" -> asks
               [] stage = "setup" /\ asking.wLength > 0 /\ ~ asking.in -> step
               [] OTHER -> 0
  /\ Bus /\ UNCHANGED target

(* The session ends without success, and the user starts another one.      *)
SessionFails ==
  /\ phase' = IF phase \in {"leave", "done"} THEN "done" ELSE "open"
  /\ step' = IF phase \in {"leave", "done"} THEN step ELSE 1
  /\ Bus /\ UNCHANGED <<target, asks>>

HostGivesUp == U!GiveUp /\ SessionFails

BusIsReset == U!BusReset /\ SessionFails

(* The bus port of a device that does not hear its host is reset.          *)
PortReset == U!Unheard /\ BusIsReset

(* Another update, any time after the last.                                *)
NewSession ==
  /\ phase = "done" /\ stage = "idle" /\ phase' = "open" /\ step' = 1
  /\ target' \in Versions
  /\ Bus /\ UNCHANGED <<usbVars, asks>>

LinkNext ==
  Program \/ HostBegins \/ HostTransacts \/ HostGivesUp \/ BusIsReset \/ NewSession

LinkSpec == LinkInit /\ [][LinkNext]_linkVars

(* The main loop never waits; a host goes on with its transfer and its     *)
(* list, and resets the port of a device that is deaf.                     *)
LinkFairSpec ==
  /\ LinkSpec
  /\ WF_linkVars(Program)
  /\ WF_linkVars(HostBegins \/ HostTransacts)
  /\ WF_linkVars(PortReset)

(***************************************************************************)
(* Properties.                                                             *)
(***************************************************************************)

(* Each component keeps what the other one relies on.  A DNLOAD whose data *)
(* usb.cpp waits for is one dfu.cpp expects data for, with the block       *)
(* number of that transfer, though other requests, resets and other        *)
(* transfers come between (usb.cpp:396-441, 496-508; dfu.cpp:80-100); the  *)
(* main loop is on its way to a reset exactly when usb.cpp polls no more.  *)
ComponentsAgree ==
  /\ ctrl_phase = "DATA_OUT" /\ current.bRequest = 1 /\ pc = "poll" =>
       awaiting /\ dfu_block_num = current.value
  /\ leaving <=> state \in {"MANIFEST_SYNC", "MANIFEST_WAIT_RESET", "APP_DETACH"}

(* The host is not told OK for what was not done: when it goes on to a     *)
(* later command, every block it sent before is in the flash, though       *)
(* requests repeated by a lost handshake move the DFU state twice, replies *)
(* are repeated and a host may give up while the data handler is still     *)
(* running (dfu.cpp:113-139, 238-279; usb.cpp:375-517).                    *)
BlocksBefore(n) ==
  {m \in 1 .. (n - 1) : ~ IsErase(target, m) /\ ~ IsAddress(target, m)}

Held(m) ==
  LET first == ChunkStart(target, m)
  IN \A k \in DOMAIN Chunk(target, first) :
       flash[BootEnd + first + k] = Image[target][first + k]

ConfirmedBlocksHeld == \A m \in BlocksBefore(step) : Held(m)

(* The status a host acts on is the answer to its own last request: what   *)
(* it said is still true of the device, which nobody else talks to         *)
(* (dfu.cpp:113-139, usb.cpp:396-427).                                     *)
StatusIsCurrent ==
  stage = "status" /\ asking.class /\ asking.in /\ transfer.token # "SETUP" =>
    answer[asking.tag] = [state |-> state, status |-> status]

(* An update begun ends with the report of success, though a repeated      *)
(* GETSTATUS makes the host miss dfuDNBUSY and give up (dfu.cpp:115-122):  *)
(* every failed session can be started again.                              *)
SessionSucceeds == phase # "done" ~> phase = "done"
=============================================================================
