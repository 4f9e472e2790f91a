-------------------------------- MODULE Usb --------------------------------
(***************************************************************************)
(* The control endpoint of the bootloader (src_stage2/usb.cpp): one poll   *)
(* handles one event of the USB controller.  Outside the repository are    *)
(* the controller, which answers the host by itself from the registers the *)
(* driver left, and the host, which runs one control transfer at a time    *)
(* over a bus that can lose handshakes and be reset.                       *)
(*                                                                         *)
(* What the bytes of a transfer say does not matter here, only which they  *)
(* are: byte k of the transfer with tag g is <<g, k>>.  Consecutive        *)
(* transfers have different tags.                                          *)
(***************************************************************************)
EXTENDS Integers, Sequences

CONSTANTS
  MaxPacket,     \* EP0_MAX_PACKET: 64
  BufferSize,    \* sizeof(dfu_rx_buffer): 4096
  Transfers,     \* the control transfers a host may start
  Losses,        \* stages in which the bus may lose a handshake
  MaxFaults      \* bound on lost handshakes, resets and abandoned transfers

USB_REQ_SET_ADDRESS == 5
DFU_DETACH == 0
DFU_DNLOAD == 1
DFU_GETSTATE == 5

Words == 65536        \* values of a uint16_t
Addresses == 128      \* DEV_ADDR has seven bits

SetsAddress(r) == ~ r.class /\ r.bRequest = USB_REQ_SET_ADDRESS

ASSUME PacketAssumption ==
  MaxPacket \in Nat \ {0} /\ BufferSize \in Nat /\ MaxFaults \in Nat

(* class: for the DFU interface.  in: data goes to the host.  reply: bytes *)
(* the request handler answers with.  value: wValue.  A host gives out the *)
(* addresses 1 to 127, in a request without data.                          *)
ASSUME TransferAssumption ==
  \A t \in Transfers :
    /\ t.class \in BOOLEAN /\ t.in \in BOOLEAN
    /\ t.bRequest \in Nat /\ t.reply \in Nat
    /\ t.wLength \in 0 .. (Words - 1) /\ t.value \in 0 .. (Words - 1)
    /\ ~ t.in => t.wLength <= BufferSize /\ t.reply = 0
    /\ t.wLength = 0 => ~ t.in
    /\ SetsAddress(t) => t.wLength = 0 /\ t.value \in 1 .. (Addresses - 1)

VARIABLES
  \* the statics of usb.cpp
  ctrl_phase, ctrl_data, ctrl_data_remaining, dfu_rx, usb_dev_addr, ep0_tog,
  current,       \* ctrl_req_type and ctrl_request, and the tag they came with
  \* the controller
  ep0_buffer,    \* DMA buffer of endpoint 0, both directions and SETUP
  tx,            \* EP_TX_CTRL and EP_TX_LEN
  DEV_ADDR,
  transfer,      \* the event of INT_FG_TRANSFER: token, length, SETUP packet
  bus_rst,       \* INT_FG_BUS_RST
  \* the main loop
  leaving,       \* the DFU state is one the main loop resets in
  delivered,     \* history: what dfu_handle_data() got for this request
  \* the host
  stage, asking, expected, received, address, faults

ctrlVars   == <<ctrl_phase, ctrl_data, ctrl_data_remaining, dfu_rx,
                usb_dev_addr, ep0_tog, current>>
deviceVars == <<ctrlVars, ep0_buffer, tx, DEV_ADDR, transfer, bus_rst,
                leaving, delivered>>
hostVars   == <<stage, asking, expected, received, address>>
vars       == <<deviceVars, hostVars, faults>>

Bytes(tag, n) == [k \in 1 .. n |-> <<tag, k>>]
Least(m, n) == IF m < n THEN m ELSE n
Packet(data, from) == SubSeq(data, from + 1, Least(from + MaxPacket, Len(data)))

NoRequest == [class |-> FALSE, bRequest |-> -1, in |-> FALSE, wLength |-> 0,
              reply |-> 0, value |-> 0, tag |-> 0]
NoEvent == [token |-> "none", len |-> 0, packet |-> NoRequest]

UsbTypeOK ==
  /\ ctrl_phase \in {"IDLE", "DATA_IN", "DATA_OUT", "STATUS"}
  /\ ctrl_data_remaining \in 0 .. (Words - 1)
  /\ Len(dfu_rx) <= BufferSize
  /\ {usb_dev_addr, DEV_ADDR, address} \subseteq 0 .. (Addresses - 1)
  /\ ep0_tog \in BOOLEAN
  /\ tx \in [ack : BOOLEAN, tog : BOOLEAN, len : 0 .. MaxPacket]
  /\ tx.ack /\ transfer.token # "SETUP" => tx.len <= Len(ep0_buffer)
  /\ transfer.token \in {"none", "SETUP", "IN", "OUT"}
  /\ transfer.len \in 0 .. MaxPacket
  /\ bus_rst \in BOOLEAN /\ leaving \in BOOLEAN
  /\ stage \in {"idle", "setup", "data", "status"}
  /\ expected \in BOOLEAN
  /\ faults \in 0 .. MaxFaults

(* After usb_init(): the host sees a new device.                           *)
Init ==
  /\ ctrl_phase = "IDLE" /\ ctrl_data = <<>> /\ ctrl_data_remaining = 0
  /\ dfu_rx = <<>> /\ usb_dev_addr = 0 /\ ep0_tog = TRUE
  /\ current = NoRequest
  /\ ep0_buffer = <<>> /\ tx = [ack |-> FALSE, tog |-> FALSE, len |-> 0]
  /\ DEV_ADDR = 0 /\ transfer = NoEvent /\ bus_rst = FALSE
  /\ leaving = FALSE /\ delivered = <<>>
  /\ stage = "idle" /\ asking = NoRequest /\ expected = TRUE
  /\ received = <<>> /\ address = 0
  /\ faults = MaxFaults

(***************************************************************************)
(* The driver.                                                             *)
(***************************************************************************)
(* What is left of earlier contents stays behind the new ones.             *)
Overlay(data) == data \o SubSeq(ep0_buffer, Len(data) + 1, Len(ep0_buffer))

(* Mutant: the packet size is not looked at.                               *)
ep0_send_Whole(data, tog) ==
  /\ ep0_buffer' = Overlay(data)
  /\ tx' = [ack |-> TRUE, tog |-> tog, len |-> Len(data)]
  /\ ep0_tog' = ~ tog

(* Arms the endpoint with the first packet of the data.                    *)
ep0_send(data, tog) ==
  LET first == Packet(data, 0)
  IN /\ ep0_buffer' = Overlay(first)
     /\ tx' = [ack |-> TRUE, tog |-> tog, len |-> Len(first)]
     /\ ep0_tog' = ~ tog

(* What route_request() answers; only SET_ADDRESS changes the driver.      *)
Answer(r) == Bytes(r.tag, r.reply)

RouteRequest(r) ==
  /\ usb_dev_addr' = IF SetsAddress(r) THEN r.value % Addresses ELSE usb_dev_addr
  /\ leaving' = (r.class /\ (r.bRequest = DFU_DETACH
                             \/ (r.bRequest = DFU_DNLOAD /\ r.wLength = 0)))

(* Mutant: the receive buffer goes on where the last request left it.      *)
RewindRx_Not == UNCHANGED dfu_rx

RewindRx == dfu_rx' = <<>>

(* A SETUP packet starts a new transfer whatever became of the last one.   *)
HandleSetup(r) ==
  LET data == IF r.wLength = 0 THEN Answer(r)
              ELSE SubSeq(Answer(r), 1, Least(r.reply, r.wLength))
  IN /\ current' = r
     /\ RouteRequest(r)
     /\ delivered' = <<>>
     /\ \/ /\ r.wLength > 0 /\ ~ r.in
           /\ ctrl_phase' = "DATA_OUT"
           /\ ctrl_data_remaining' = r.wLength
           /\ RewindRx
           /\ tx' = [tx EXCEPT !.ack = FALSE]
           /\ ep0_tog' = TRUE
           /\ UNCHANGED <<ctrl_data, ep0_buffer>>
        \/ /\ r.wLength = 0 /\ r.reply = 0
           /\ ctrl_phase' = "STATUS"
           /\ ep0_send(<<>>, TRUE)
           /\ UNCHANGED <<ctrl_data, ctrl_data_remaining, dfu_rx>>
        \/ /\ r.in \/ (r.wLength = 0 /\ r.reply > 0)
           /\ ctrl_phase' = "DATA_IN"
           /\ ctrl_data' = data
           /\ ctrl_data_remaining' = Len(data)
           /\ ep0_send(data, TRUE)
           /\ UNCHANGED dfu_rx
     /\ UNCHANGED DEV_ADDR

(* Mutant: any completed transfer applies the address.                     *)
ApplyAddress_Always == DEV_ADDR' = usb_dev_addr

(* "Apply deferred set address": bRequest is not told apart by its class.  *)
ApplyAddress ==
  DEV_ADDR' = IF current.bRequest = USB_REQ_SET_ADDRESS
              THEN usb_dev_addr ELSE DEV_ADDR

(* Mutant: the offset of the next packet is forgotten.                     *)
Rest_FromStart(left) == ctrl_data

Rest(left) == SubSeq(ctrl_data, Len(ctrl_data) - left + 1, Len(ctrl_data))

HandleIn ==
  LET left == ctrl_data_remaining - Least(ctrl_data_remaining, MaxPacket)
  IN /\ \/ /\ ctrl_phase = "DATA_IN" /\ ctrl_data_remaining > 0
           /\ ctrl_data_remaining' = left
           /\ IF left > 0
              THEN /\ ep0_send(Rest(left), ep0_tog)
                   /\ UNCHANGED <<ctrl_phase, DEV_ADDR>>
              ELSE /\ ctrl_phase' = "IDLE"
                   /\ ApplyAddress
                   /\ UNCHANGED <<ep0_buffer, tx, ep0_tog>>
        \/ /\ ctrl_phase = "STATUS"
           /\ ctrl_phase' = "IDLE"
           /\ ApplyAddress
           /\ UNCHANGED <<ctrl_data_remaining, ep0_buffer, tx, ep0_tog>>
        \/ /\ ctrl_phase \in {"IDLE", "DATA_OUT"}
              \/ (ctrl_phase = "DATA_IN" /\ ctrl_data_remaining = 0)
           /\ UNCHANGED <<ctrl_phase, ctrl_data_remaining, ep0_buffer, tx,
                          ep0_tog, DEV_ADDR>>
     /\ UNCHANGED <<ctrl_data, dfu_rx, usb_dev_addr, current, leaving, delivered>>

(* Mutants: only a short packet ends the data; the last packet is not      *)
(* waited for.                                                             *)
AllReceived_Short(left) == transfer.len < MaxPacket
AllReceived_Early(left) == left < MaxPacket \/ transfer.len < MaxPacket

AllReceived(left) == left = 0 \/ transfer.len < MaxPacket

HandleOut ==
  LET data == SubSeq(ep0_buffer, 1, transfer.len)
      rx   == IF Len(dfu_rx) + transfer.len <= BufferSize
              THEN dfu_rx \o data ELSE dfu_rx
      left == (ctrl_data_remaining - transfer.len) % Words
  IN /\ IF ctrl_phase # "DATA_OUT"
        THEN UNCHANGED <<ctrl_phase, ctrl_data_remaining, dfu_rx, ep0_buffer,
                         tx, ep0_tog, delivered>>
        ELSE /\ dfu_rx' = rx
             /\ ctrl_data_remaining' = left
             /\ IF AllReceived(left)
                THEN /\ delivered' = IF current.bRequest = DFU_DNLOAD
                                     THEN rx ELSE delivered
                     /\ ctrl_phase' = "IDLE"
                     /\ ep0_send(<<>>, ep0_tog)
                ELSE UNCHANGED <<delivered, ctrl_phase, ep0_buffer, tx, ep0_tog>>
     /\ UNCHANGED <<ctrl_data, usb_dev_addr, current, DEV_ADDR, leaving>>

HandleBusReset ==
  /\ ep0_tog' = TRUE
  /\ DEV_ADDR' = 0
  /\ ctrl_phase' = "IDLE"
  /\ bus_rst' = FALSE
  /\ delivered' = <<>>
  /\ UNCHANGED <<ctrl_data, ctrl_data_remaining, dfu_rx, usb_dev_addr, current,
                 ep0_buffer, tx, transfer, leaving>>

(* A pending transfer goes before a bus reset.                             *)
do_usb_poll ==
  /\ ~ leaving
  /\ \/ /\ transfer.token # "none" /\ transfer' = NoEvent
        /\ \/ transfer.token = "SETUP" /\ HandleSetup(transfer.packet)
           \/ transfer.token = "IN" /\ HandleIn
           \/ transfer.token = "OUT" /\ HandleOut
        /\ UNCHANGED bus_rst
     \/ transfer.token = "none" /\ bus_rst /\ HandleBusReset
  /\ UNCHANGED <<hostVars, faults>>

(* The host is done with its transfer; only the tag counts on.             *)
HostIdle ==
  /\ stage' = "idle" /\ expected' = TRUE /\ received' = <<>>
  /\ asking' = [NoRequest EXCEPT !.tag = asking.tag]

(* The main loop resets the chip; the device is gone from the bus and      *)
(* comes back as a new one.                                                *)
SystemReset ==
  /\ leaving /\ leaving' = FALSE
  /\ ctrl_phase' = "IDLE" /\ ctrl_data' = <<>> /\ ctrl_data_remaining' = 0
  /\ dfu_rx' = <<>> /\ usb_dev_addr' = 0 /\ ep0_tog' = TRUE
  /\ current' = NoRequest
  /\ ep0_buffer' = <<>> /\ tx' = [ack |-> FALSE, tog |-> FALSE, len |-> 0]
  /\ DEV_ADDR' = 0 /\ transfer' = NoEvent /\ bus_rst' = FALSE
  /\ delivered' = <<>>
  /\ HostIdle /\ address' = 0
  /\ UNCHANGED faults

(***************************************************************************)
(* The controller and the host (external).  While an event is pending the  *)
(* controller answers NAK (USBFS_CTRL_INT_BUSY), and the host tries again. *)
(***************************************************************************)
Begin(t) ==
  /\ stage = "idle" /\ stage' = "setup"
  /\ t.class => address # 0
  /\ SetsAddress(t) => address = 0
  /\ asking' = [class |-> t.class, bRequest |-> t.bRequest, in |-> t.in,
                wLength |-> t.wLength, reply |-> t.reply, value |-> t.value,
                tag |-> 1 - asking.tag]
  /\ expected' = TRUE /\ received' = <<>>
  /\ UNCHANGED <<deviceVars, address, faults>>

(* After a bus reset the host leaves the device alone for 10 ms.           *)
Reaches == DEV_ADDR = address /\ transfer.token = "none" /\ ~ bus_rst

(* Whether the handshake of a transaction arrives.                         *)
Handshake(arrived, where) ==
  IF arrived THEN UNCHANGED faults
  ELSE where \in Losses /\ faults > 0 /\ faults' = faults - 1

Event(token, len) ==
  transfer' = [token |-> token, len |-> len,
               packet |-> IF token = "SETUP" THEN asking ELSE NoRequest]

SetupTransaction ==
  /\ stage = "setup" /\ Reaches
  /\ Event("SETUP", 0)
  /\ ep0_buffer' = <<>>
  /\ \E arrived \in BOOLEAN :
       /\ Handshake(arrived, "setup")
       /\ stage' = IF ~ arrived THEN "setup"
                   ELSE IF asking.wLength = 0 THEN "status" ELSE "data"
  /\ UNCHANGED <<ctrlVars, tx, DEV_ADDR, bus_rst, leaving, delivered, asking,
                 expected, received, address>>

(* For an OUT stage "received" is what the device has acknowledged.        *)
OutTransaction ==
  LET data == Packet(Bytes(asking.tag, asking.wLength), Len(received))
  IN /\ stage = "data" /\ ~ asking.in /\ Reaches
     /\ Event("OUT", Len(data))
     /\ ep0_buffer' = Overlay(data)
     /\ \E arrived \in BOOLEAN :
          /\ Handshake(arrived, "out")
          /\ received' = IF arrived THEN received \o data ELSE received
     /\ stage' = IF Len(received') = asking.wLength THEN "status" ELSE "data"
     /\ UNCHANGED <<ctrlVars, tx, DEV_ADDR, bus_rst, leaving, delivered, asking,
                    expected, address>>

(* A packet with the wrong toggle is taken for a repetition and dropped.   *)
(* The controller repeats what was not acknowledged.                       *)
InTransaction ==
  LET data == SubSeq(ep0_buffer, 1, tx.len)
      new  == tx.tog = expected
      got  == IF new THEN received \o data ELSE received
  IN /\ stage = "data" /\ asking.in /\ Reaches /\ tx.ack
     /\ received' = got
     /\ expected' = IF new THEN ~ expected ELSE expected
     /\ stage' = IF new /\ (tx.len < MaxPacket \/ Len(got) >= asking.wLength)
                 THEN "status" ELSE "data"
     /\ \E arrived \in BOOLEAN :
          /\ Handshake(arrived, "in")
          /\ IF arrived THEN Event("IN", 0) ELSE UNCHANGED transfer
     /\ UNCHANGED <<ctrlVars, ep0_buffer, tx, DEV_ADDR, bus_rst, leaving,
                    delivered, asking, address>>

(* An empty packet against the direction of the data ends the transfer.    *)
StatusTransaction ==
  /\ stage = "status" /\ Reaches
  /\ asking.in \/ (tx.ack /\ tx.tog)
  /\ \E arrived \in BOOLEAN :
       /\ Handshake(arrived, "status")
       /\ IF asking.in \/ arrived
          THEN Event(IF asking.in THEN "OUT" ELSE "IN", 0)
          ELSE UNCHANGED transfer
       /\ IF asking.in /\ ~ arrived
          THEN UNCHANGED <<stage, asking, expected, received>>
          ELSE HostIdle
  /\ address' = IF SetsAddress(asking) THEN asking.value ELSE address
  /\ UNCHANGED <<ctrlVars, ep0_buffer, tx, DEV_ADDR, bus_rst, leaving,
                 delivered>>

Fault == faults > 0 /\ faults' = faults - 1

GiveUp ==
  /\ stage # "idle" /\ HostIdle
  /\ Fault
  /\ UNCHANGED <<deviceVars, address>>

(* The device does not hear its host any more.                             *)
Unheard == DEV_ADDR # address /\ transfer.token = "none" /\ ~ bus_rst

(* Something pulls the bus, or the host gives up on a device that does not *)
(* answer.  The registers stay as they are until the driver looks.         *)
BusReset ==
  /\ ~ bus_rst /\ bus_rst' = TRUE
  /\ Fault \/ (Unheard /\ UNCHANGED faults)
  /\ HostIdle /\ address' = 0
  /\ UNCHANGED <<ctrlVars, ep0_buffer, tx, DEV_ADDR, transfer, leaving,
                 delivered>>

HostStep == SetupTransaction \/ OutTransaction \/ InTransaction \/ StatusTransaction

Next ==
  \/ do_usb_poll \/ SystemReset
  \/ \E t \in Transfers : Begin(t)
  \/ HostStep \/ GiveUp \/ BusReset

Spec == Init /\ [][Next]_vars

(* The main loop polls for ever and a host goes on with its transfer.      *)
FairSpec ==
  Spec /\ WF_vars(do_usb_poll) /\ WF_vars(SystemReset) /\ WF_vars(HostStep)

(***************************************************************************)
(* Properties.                                                             *)
(***************************************************************************)

(* The data handler is called with the block the host sends in answer to   *)
(* its own request, and with all of it (usb.cpp:482-517): whatever         *)
(* transfers were abandoned half-way, repeated or cut off by a bus reset.  *)
BlockWhole == delivered # <<>> => delivered = Bytes(current.tag, current.wLength)

(* A host that has its IN data has the first wLength bytes of the answer   *)
(* to its own request: no packet is missing, repeated or stale, though     *)
(* packets and SETUPs share one buffer (usb.cpp:396-427, 443-470).         *)
ReplyWhole ==
  stage = "status" /\ asking.in =>
    received = SubSeq(Answer(asking), 1, Least(asking.reply, asking.wLength))

(* The status packet a host finds belongs to its request: it is empty, and *)
(* for a block it means that the data handler has had the block            *)
(* (usb.cpp:496-511).                                                      *)
StatusMeansHandled ==
  stage = "status" /\ ~ asking.in /\ Reaches /\ tx.ack =>
    /\ tx.len = 0
    /\ current = asking
    /\ asking.bRequest = DFU_DNLOAD /\ asking.wLength > 0 =>
         delivered = Bytes(asking.tag, asking.wLength)

(* Device and host agree on the address except while a reset or the end of *)
(* a SET_ADDRESS is still to be seen by the device: GETSTATE has the same  *)
(* bRequest, and usb_dev_addr outlives a bus reset (usb.cpp:464-478, 528). *)
AddressAgrees ==
  \/ DEV_ADDR = address
  \/ bus_rst
  \/ ctrl_phase = "STATUS" /\ SetsAddress(current)

(* A control transfer that a host goes on with comes to its end, unless    *)
(* the handshake of a SET_ADDRESS was lost and the device kept the old     *)
(* address (usb.cpp:362-544).                                              *)
TransferEnds == stage # "idle" ~> stage = "idle" \/ Unheard

(* The data handler is called as dfu.cpp relies on (usb.cpp:496-508).      *)
PipeBlocks == {Bytes(g, n) : g \in {0, 1}, n \in 1 .. BufferSize}

BlockDue == IF ctrl_phase = "DATA_OUT" /\ current.bRequest = DFU_DNLOAD
            THEN Bytes(current.tag, current.wLength) ELSE <<>>

Pipe == INSTANCE DnloadPipe WITH
          Blocks <- PipeBlocks, NoBlock <- <<>>, due <- BlockDue, given <- delivered

ImplementsPipe == Pipe!PipeSpec

(* dfu.cpp:343: "Give the USB status phase a moment to complete, then      *)
(* reset".                                                                 *)
StatusBeforeReset == [][leaving /\ ~ leaving' => stage = "idle"]_vars
=============================================================================
