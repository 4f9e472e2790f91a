----------------------------- MODULE LinkProofs ----------------------------
(***************************************************************************)
(* Theorems about Link.tla for every geometry, set of images, packet size  *)
(* and number of faults: what UsbProofs proves of the endpoint and         *)
(* DfuProofs of the DFU machine holds of the two together, and what each   *)
(* relies on the other for.                                                *)
(***************************************************************************)
EXTENDS Link, DfuHostProofs

UP == INSTANCE UsbProofs WITH Transfers <- Traffic, MaxFaults <- BusFaults,
                              faults <- busFaults

USE GeometryAssumption DEF flashVars, jobVars, requestVars, ghostVars

(***************************************************************************)
(* Link.tla instantiates Usb.tla, UP instantiates its proofs: the same     *)
(* operators under two names.                                              *)
(***************************************************************************)
LEMMA SameSends ==
  ASSUME NEW data, NEW tog
  PROVE  U!ep0_send(data, tog) <=> UP!ep0_send(data, tog)
BY Zenon DEF U!ep0_send, UP!ep0_send, U!Packet, UP!Packet, U!Least, UP!Least,
             U!Overlay, UP!Overlay

LEMMA SameSetup ==
  ASSUME NEW r
  PROVE  U!HandleSetup(r) <=> UP!HandleSetup(r)
<1>1. U!RouteRequest(r) <=> UP!RouteRequest(r)
  BY Zenon DEF U!RouteRequest, UP!RouteRequest, U!SetsAddress, UP!SetsAddress,
     U!USB_REQ_SET_ADDRESS, UP!USB_REQ_SET_ADDRESS, U!Addresses, UP!Addresses,
     U!DFU_DETACH, UP!DFU_DETACH, U!DFU_DNLOAD, UP!DFU_DNLOAD
<1>2. /\ U!Answer(r) = UP!Answer(r) /\ U!Least(r.reply, r.wLength) = UP!Least(r.reply, r.wLength)
      /\ U!RewindRx <=> UP!RewindRx
  BY Zenon DEF U!Answer, UP!Answer, U!Bytes, UP!Bytes, U!Least, UP!Least,
     U!RewindRx, UP!RewindRx
<1> QED BY <1>1, <1>2, SameSends, Zenon DEF U!HandleSetup, UP!HandleSetup

LEMMA SameIn == U!HandleIn <=> UP!HandleIn
<1>1. U!ApplyAddress <=> UP!ApplyAddress
  BY Zenon DEF U!ApplyAddress, UP!ApplyAddress, U!USB_REQ_SET_ADDRESS, UP!USB_REQ_SET_ADDRESS
<1>2. \A left : U!Rest(left) = UP!Rest(left)
  BY Zenon DEF U!Rest, UP!Rest
<1>3. \A m, n : U!Least(m, n) = UP!Least(m, n)
  BY Zenon DEF U!Least, UP!Least
<1> QED BY <1>1, <1>2, <1>3, SameSends, Zenon DEF U!HandleIn, UP!HandleIn

LEMMA SameOut == U!HandleOut <=> UP!HandleOut
<1>1. \A left : U!AllReceived(left) <=> UP!AllReceived(left)
  BY Zenon DEF U!AllReceived, UP!AllReceived
<1>2. U!Words = UP!Words /\ U!DFU_DNLOAD = UP!DFU_DNLOAD
  BY DEF U!Words, UP!Words, U!DFU_DNLOAD, UP!DFU_DNLOAD
<1> QED BY <1>1, <1>2, SameSends, Zenon DEF U!HandleOut, UP!HandleOut

LEMMA SamePoll == U!do_usb_poll <=> UP!do_usb_poll
<1>1. U!HandleBusReset <=> UP!HandleBusReset
  BY Zenon DEF U!HandleBusReset, UP!HandleBusReset
<1>2. U!NoEvent = UP!NoEvent
  BY Zenon DEF U!NoEvent, UP!NoEvent, U!NoRequest, UP!NoRequest
<1>3. U!hostVars = UP!hostVars
  BY Zenon DEF U!hostVars, UP!hostVars
<1> QED BY <1>1, <1>2, <1>3, SameSetup, SameIn, SameOut, Zenon
        DEF U!do_usb_poll, UP!do_usb_poll, U!hostVars, UP!hostVars

LEMMA SameStart == U!Init <=> UP!Init
BY Zenon DEF U!Init, UP!Init, U!NoRequest, UP!NoRequest, U!NoEvent, UP!NoEvent

LEMMA SameHost ==
  /\ U!HostIdle <=> UP!HostIdle
  /\ U!SystemReset <=> UP!SystemReset
  /\ \A t : U!Begin(t) <=> UP!Begin(t)
  /\ U!HostStep <=> UP!HostStep
  /\ U!GiveUp <=> UP!GiveUp
  /\ U!BusReset <=> UP!BusReset
<1>1. U!NoRequest = UP!NoRequest /\ U!NoEvent = UP!NoEvent
  BY Zenon DEF U!NoRequest, UP!NoRequest, U!NoEvent, UP!NoEvent
<1>2. U!HostIdle <=> UP!HostIdle
  BY <1>1, Zenon DEF U!HostIdle, UP!HostIdle
<1>3. U!SystemReset <=> UP!SystemReset
  BY <1>1, <1>2, Zenon DEF U!SystemReset, UP!SystemReset
<1>4. /\ \A r : U!SetsAddress(r) <=> UP!SetsAddress(r)
      /\ U!ctrlVars = UP!ctrlVars
  BY Zenon DEF U!SetsAddress, UP!SetsAddress, U!USB_REQ_SET_ADDRESS, UP!USB_REQ_SET_ADDRESS,
     U!ctrlVars, UP!ctrlVars
<1>5. U!deviceVars = UP!deviceVars /\ U!deviceVars' = UP!deviceVars'
      /\ U!ctrlVars' = UP!ctrlVars'
  BY Zenon DEF U!ctrlVars, UP!ctrlVars, U!deviceVars, UP!deviceVars
<1>6. \A t : U!Begin(t) <=> UP!Begin(t)
  BY <1>4, <1>5, Zenon DEF U!Begin, UP!Begin
<1>7. /\ U!Fault <=> UP!Fault
      /\ U!Unheard <=> UP!Unheard
      /\ U!Reaches <=> UP!Reaches
  BY Zenon DEF U!Fault, UP!Fault, U!Unheard, UP!Unheard, U!Reaches, UP!Reaches
<1>8. U!GiveUp <=> UP!GiveUp
  BY <1>2, <1>5, <1>7, Zenon DEF U!GiveUp, UP!GiveUp
<1>9. U!BusReset <=> UP!BusReset
  BY <1>2, <1>4, <1>5, <1>7, Zenon DEF U!BusReset, UP!BusReset
<1>10. /\ \A a, w : U!Handshake(a, w) <=> UP!Handshake(a, w)
       /\ \A k, n : U!Event(k, n) <=> UP!Event(k, n)
  BY <1>1, Zenon DEF U!Handshake, UP!Handshake, U!Event, UP!Event
<1>11. /\ \A d : U!Overlay(d) = UP!Overlay(d)
       /\ \A d, n : U!Packet(d, n) = UP!Packet(d, n)
       /\ \A g, n : U!Bytes(g, n) = UP!Bytes(g, n)
  BY Zenon DEF U!Overlay, UP!Overlay, U!Packet, UP!Packet, U!Least, UP!Least, U!Bytes, UP!Bytes
<1>12. U!SetupTransaction <=> UP!SetupTransaction
  BY <1>4, <1>5, <1>7, <1>10, Zenon DEF U!SetupTransaction, UP!SetupTransaction
<1>13. U!OutTransaction <=> UP!OutTransaction
  BY <1>4, <1>5, <1>7, <1>10, <1>11, Zenon DEF U!OutTransaction, UP!OutTransaction
<1>14. U!InTransaction <=> UP!InTransaction
  BY <1>4, <1>5, <1>7, <1>10, Zenon DEF U!InTransaction, UP!InTransaction
<1>15. U!StatusTransaction <=> UP!StatusTransaction
  BY <1>2, <1>4, <1>5, <1>7, <1>10, Zenon DEF U!StatusTransaction, UP!StatusTransaction
<1>16. U!HostStep <=> UP!HostStep
  BY <1>12, <1>13, <1>14, <1>15, Zenon DEF U!HostStep, UP!HostStep
<1> QED BY <1>2, <1>3, <1>6, <1>8, <1>9, <1>16

LEMMA SameTypes == U!UsbTypeOK <=> UP!UsbTypeOK
<1>1. U!Words = UP!Words /\ U!Addresses = UP!Addresses
  BY DEF U!Words, UP!Words, U!Addresses, UP!Addresses
<1> QED BY <1>1, Zenon DEF U!UsbTypeOK, UP!UsbTypeOK

(***************************************************************************)
(* The inductive invariant.                                                *)
(***************************************************************************)
Ending == {"MANIFEST_SYNC", "MANIFEST_WAIT_RESET", "APP_DETACH"}

LinkTypes ==
  /\ handling \in BOOLEAN
  /\ answer \in [Tags -> [state : dfu_state, status : dfu_status]]
  /\ target \in Versions /\ phase \in Phases
  /\ step \in 1 .. LastStep(target) + 1
  /\ asks \in 0 .. LastStep(target) /\ due \in 0 .. LastStep(target)

(* Where dfu.cpp is when usb.cpp is inside or outside of its handlers.     *)
Calls ==
  /\ handling => LastOut /\ pc \in Working \cup {"check"}
  /\ pc \in Working => handling
  /\ pc = "reset" => leaving
  /\ pc # "off"
  /\ ctrl_phase = "DATA_OUT" /\ ~ handling => awaiting /\ dfu_block_num = current.value
  /\ leaving <=> state \in Ending
  /\ leaving => /\ ~ current.in /\ current.wLength = 0 /\ ctrl_phase # "DATA_OUT"
                /\ phase \in {"open", "leave", "done"} /\ asks = 0

(* The requests on the bus are those of the session.                       *)
Sent(r) == [class |-> r.class, bRequest |-> r.bRequest, in |-> r.in,
            wLength |-> r.wLength, reply |-> r.reply, value |-> r.value]

IsPoll(r)  == r.class /\ r.in
IsBlock(r) == r.class /\ ~ r.in /\ r.wLength > 0

Known ==
  /\ stage # "idle" => /\ phase # "done"
                       /\ Sent(asking) = IF asking.class THEN NextTransfer ELSE Address
  /\ transfer.token = "SETUP" => Sent(transfer.packet) \in Traffic
  /\ ctrl_phase = "DATA_OUT" => Sent(current) \in Traffic
  /\ transfer.token = "SETUP" /\ phase \notin {"open", "done"} =>
       transfer.packet = asking /\ stage # "idle"

(* Which step of the list the last SETUP on the bus was for, and the one   *)
(* the device has seen.                                                    *)
Carries(r, n) ==
  IF IsBlock(r) THEN n \in 1 .. LastStep(target) /\ r.value = BlockNumber(target, n)
                ELSE n = 0

Script ==
  /\ transfer.token = "SETUP" => Carries(transfer.packet, asks)
  /\ transfer.token # "SETUP" => due = asks
  /\ ctrl_phase = "DATA_OUT" => Carries(current, due) /\ phase \in {"open", "setup"}
  /\ stage \in {"data", "status"} =>
       Carries(asking, asks) /\ (asks # 0 => asks = step /\ phase = "setup")
  /\ asks # 0 => phase = "open" \/ (asks = step /\ phase \in {"setup", "sync"})
  /\ phase \in {"open", "clear", "abort"} => step = 1
  /\ phase \in {"setup", "sync", "busy"} => step <= LastStep(target)
  /\ phase \in {"leave", "done"} => due = 0

(* A host that has heard a reply has heard of the present state.           *)
Answered ==
  UP!Heard /\ IsPoll(asking) => answer[asking.tag] = [state |-> state, status |-> status]

(* What a command has left behind when its data handler is back.           *)
Place(n) == BootEnd + ChunkStart(target, n)

Done(n) ==
  /\ IsAddress(target, n) => dfu_address = Place(n)
  /\ IsData(target, n) => ChunkAsked(Place(n), Chunk(target, ChunkStart(target, n)))

Pointed ==
  /\ handling \/ delivered # <<>> => due # 0 /\ Done(due)
  /\ phase \in {"sync", "busy"} => Done(step)
  /\ phase = "setup" /\ IsData(target, step) => dfu_address = Place(step)
  /\ transfer.token = "SETUP" /\ IsData(target, asks) => dfu_address = Place(asks)
  /\ ctrl_phase = "DATA_OUT" /\ IsData(target, due) => dfu_address = Place(due)

OwnBlock ==
  /\ pc \in {"range", "block"} => IsErase(target, due)
  /\ pc \in Firmware => /\ IsData(target, due)
                        /\ wa = Place(due)
                        /\ rx = Chunk(target, ChunkStart(target, due))

(* The chunks of the steps the host has behind it are in the flash.        *)
Before ==
  \A k \in DOMAIN Image[target] :
    k < ChunkStart(target, step) => flash[BootEnd + k] = Image[target][k]

Machines == UP!UsbInv /\ TypeOK /\ Control /\ Kept

Together ==
  /\ LinkTypes /\ Calls /\ Known /\ Script /\ Answered
  /\ Pointed /\ OwnBlock /\ Before

LinkInv == Machines /\ Together

(***************************************************************************)
(* What UsbProofs assumes of the transfers holds of those of a session.    *)
(***************************************************************************)
LEMMA TrafficShape ==
  ASSUME NEW t \in Traffic
  PROVE  \/ t = StatusReply
         \/ t = Address
         \/ \E b \in {1, DFU_CLRSTATUS, DFU_ABORT} : t = Plain(TRUE, b, 0, 0)
         \/ \E n \in {0, 2} : \E len \in 1 .. BufferSize : t = Plain(TRUE, 1, n, len)
<1>1. CommandBytes \in 1 .. BufferSize /\ BlockBytes \in 1 .. BufferSize
  BY LinkAssumption
<1> QED BY <1>1, Zenon DEF Traffic

LEMMA EndpointFits ==
  /\ MaxPacket \in Nat \ {0} /\ BufferSize \in Nat /\ BusFaults \in Nat
  /\ \A t \in Traffic :
       /\ t.class \in BOOLEAN /\ t.in \in BOOLEAN
       /\ t.bRequest \in Nat /\ t.reply \in Nat
       /\ t.wLength \in 0 .. (UP!Words - 1) /\ t.value \in 0 .. (UP!Words - 1)
       /\ ~ t.in => t.wLength <= BufferSize /\ t.reply = 0
       /\ t.wLength = 0 => ~ t.in
       /\ UP!SetsAddress(t) => t.wLength = 0 /\ t.value \in 1 .. (UP!Addresses - 1)
<1>1. ASSUME NEW n \in Nat, n < 65536 PROVE n \in 0 .. (UP!Words - 1)
  <2>1. UP!Words \in Nat /\ n < UP!Words
    BY <1>1 DEF UP!Words
  <2> QED BY <2>1
<1>2. 1 \in 1 .. (UP!Addresses - 1) /\ UP!USB_REQ_SET_ADDRESS = 5
  BY DEF UP!Addresses, UP!USB_REQ_SET_ADDRESS
<1>3. \A n \in {0, 1, 2} : n \in 0 .. (UP!Words - 1)
  BY <1>1
<1>4. \A len \in 1 .. BufferSize : len \in 0 .. (UP!Words - 1) /\ len <= BufferSize /\ len # 0
  BY <1>1, LinkAssumption
<1>5. BufferSize \in Nat /\ 0 <= BufferSize
  BY LinkAssumption
<1>6. ASSUME NEW t \in Traffic
      PROVE  /\ t.class \in BOOLEAN /\ t.in \in BOOLEAN
             /\ t.bRequest \in Nat /\ t.reply \in Nat
             /\ t.wLength \in 0 .. (UP!Words - 1) /\ t.value \in 0 .. (UP!Words - 1)
             /\ ~ t.in => t.wLength <= BufferSize /\ t.reply = 0
             /\ t.wLength = 0 => ~ t.in
             /\ UP!SetsAddress(t) => t.wLength = 0 /\ t.value \in 1 .. (UP!Addresses - 1)
  <2>1. CASE t = StatusReply
    BY <1>3, <2>1 DEF StatusReply, UP!SetsAddress, DFU_GETSTATUS
  <2>2. CASE t = Address
    BY <1>2, <1>3, <1>5, <2>2 DEF Address, Plain
  <2>3. ASSUME NEW b \in {1, DFU_CLRSTATUS, DFU_ABORT}, t = Plain(TRUE, b, 0, 0)
        PROVE  <1>6!2
    BY <1>3, <1>5, <2>3 DEF Plain, UP!SetsAddress, DFU_CLRSTATUS, DFU_ABORT
  <2>4. ASSUME NEW n \in {0, 2}, NEW len \in 1 .. BufferSize, t = Plain(TRUE, 1, n, len)
        PROVE  <1>6!2
    BY <1>3, <1>4, <2>4 DEF Plain, UP!SetsAddress
  <2> QED BY <2>1, <2>2, <2>3, <2>4, TrafficShape
<1> QED BY <1>6, LinkAssumption

LEMMA EndpointStays ==
  ASSUME UP!UsbInv, [UP!Next]_UP!vars PROVE UP!UsbInv'
BY EndpointFits, UP!UsbInvNext

LEMMA EndpointStarts ==
  ASSUME UP!Init PROVE UP!UsbInv
BY EndpointFits, UP!UsbInvInit

LEMMA EndpointTells ==
  ASSUME UP!UsbInv PROVE UP!StatusMeansHandled /\ UP!WholeBlocks
<1>1. UP!NoneRepeated
  BY WholeDataAssumption DEF UP!NoneRepeated
<1>2. UP!StatusMeansHandled
  BY <1>1, EndpointFits, UP!StatusFollows
<1> QED BY <1>1, <1>2 DEF UP!UsbInv

(***************************************************************************)
(* What the steps of the endpoint do to what the session is about.         *)
(***************************************************************************)
LEMMA SetupPolled ==
  ASSUME UP!UsbTypes, U!do_usb_poll, transfer.token = "SETUP"
  PROVE  LET r == transfer.packet
         IN /\ r \in UP!Requests /\ current' = r /\ delivered' = <<>>
            /\ ~ leaving
            /\ leaving' = (r.class /\ (r.bRequest = 0 \/ (r.bRequest = 1 /\ r.wLength = 0)))
            /\ ctrl_phase' = "DATA_OUT" <=> ~ r.in /\ r.wLength > 0
            /\ transfer'.token = "none"
            /\ UNCHANGED <<stage, asking, address>>
<1> DEFINE r == transfer.packet
<1>1. UP!OnSetup
  BY SamePoll, EndpointFits, UP!PollCases DEF UP!OnIn, UP!OnOut, UP!OnReset, UP!Handles
<1>2. /\ r \in UP!Requests /\ current' = r /\ delivered' = <<>>
      /\ UP!RouteRequest(r)
      /\ UP!ToDataOut(r) \/ UP!ToStatus(r) \/ UP!ToDataIn(r)
  BY <1>1, EndpointFits, UP!SetupEffect
<1>3. /\ ~ leaving /\ transfer'.token = "none"
      /\ UNCHANGED <<stage, asking, address>>
  BY <1>1 DEF UP!OnSetup, UP!Handles, UP!NoEvent
<1> HIDE DEF r
<1>4. leaving' = (r.class /\ (r.bRequest = 0 \/ (r.bRequest = 1 /\ r.wLength = 0)))
  BY <1>2 DEF UP!RouteRequest, UP!DFU_DETACH, UP!DFU_DNLOAD
<1>5. ctrl_phase' = "DATA_OUT" <=> ~ r.in /\ r.wLength > 0
  <2>1. \/ ~ r.in /\ r.wLength > 0 /\ ctrl_phase' = "DATA_OUT"
        \/ ~ r.in /\ r.wLength = 0 /\ ctrl_phase' = "STATUS"
        \/ r.in /\ r.wLength > 0 /\ ctrl_phase' = "DATA_IN"
    BY <1>2, Zenon DEF UP!ToDataOut, UP!ToStatus, UP!ToDataIn
  <2> QED BY <2>1
<1> QED BY <1>2, <1>3, <1>4, <1>5 DEF r

LEMMA OtherPolled ==
  ASSUME UP!UsbTypes, U!do_usb_poll, transfer.token # "SETUP"
  PROVE  /\ UNCHANGED <<stage, asking, current, leaving, address>>
         /\ ~ leaving
         /\ transfer'.token = "none"
         /\ ctrl_phase' = "DATA_OUT" => ctrl_phase = "DATA_OUT" /\ ~ LastOut
         /\ \/ LastOut
            \/ ctrl_phase = "DATA_OUT" /\ current.bRequest # 1
            \/ delivered' \in {delivered, <<>>}
<1>1. UP!OnIn \/ UP!OnOut \/ UP!OnReset
  BY SamePoll, EndpointFits, UP!PollCases DEF UP!OnSetup, UP!Handles
<1>2. ~ leaving
  BY DEF U!do_usb_poll
<1>3. CASE UP!OnIn
  <2>1. /\ UNCHANGED <<current, leaving, delivered>>
        /\ UP!SendsOn \/ UP!SentAll \/ UP!Ignored
    BY <1>3, EndpointFits, UP!InEffect
  <2>2. /\ transfer.token = "IN" /\ transfer'.token = "none"
        /\ UNCHANGED <<stage, asking, address>>
    BY <1>3 DEF UP!OnIn, UP!Handles, UP!NoEvent
  <2>3. ctrl_phase' = "DATA_OUT" => ctrl_phase = "DATA_OUT"
    BY <2>1 DEF UP!SendsOn, UP!SentAll, UP!Ignored
  <2> QED BY <1>2, <2>1, <2>2, <2>3 DEF LastOut
<1>4. CASE UP!OnOut
  <2>1. /\ UNCHANGED <<current, leaving>>
        /\ UP!TakesMore \/ UP!TakesLast \/ UP!TakesNothing
    BY <1>4, EndpointFits, UP!OutEffect
  <2>2. /\ transfer.token = "OUT" /\ transfer'.token = "none"
        /\ UNCHANGED <<stage, asking, address>>
    BY <1>4 DEF UP!OnOut, UP!Handles, UP!NoEvent
  <2>3. UP!AllReceived(UP!Missing) <=> U!AllReceived((ctrl_data_remaining - transfer.len) % U!Words)
    <3>1. UP!Words = U!Words
      BY DEF UP!Words, U!Words
    <3> QED BY <3>1, Zenon DEF UP!AllReceived, U!AllReceived, UP!Missing
  <2>4. CASE UP!TakesMore
    BY <1>2, <2>1, <2>2, <2>3, <2>4 DEF UP!TakesMore, UP!TakesPacket, LastOut
  <2>5. CASE UP!TakesLast
    BY <1>2, <2>1, <2>2, <2>3, <2>5 DEF UP!TakesLast, UP!TakesPacket, LastOut
  <2>6. CASE UP!TakesNothing
    BY <1>2, <2>1, <2>2, <2>6 DEF UP!TakesNothing, LastOut
  <2> QED BY <2>1, <2>4, <2>5, <2>6
<1>5. CASE UP!OnReset
  <2>1. /\ UNCHANGED <<stage, asking, current, leaving, address>>
        /\ transfer.token = "none" /\ transfer' = transfer
        /\ ctrl_phase' = "IDLE" /\ delivered' = <<>>
    BY <1>5 DEF UP!OnReset, UP!HandleBusReset
  <2> QED BY <1>2, <2>1
<1> QED BY <1>1, <1>3, <1>4, <1>5

(* The host and the bus leave the device alone.                            *)
LEMMA OutsideLeaves ==
  ASSUME \/ \E t \in Traffic : U!Begin(t)
         \/ U!HostStep \/ U!GiveUp \/ U!BusReset
  PROVE  UNCHANGED <<ctrl_phase, ctrl_data_remaining, current, leaving, delivered>>
<1>1. UP!Outside
  BY SameHost DEF UP!Outside
<1> QED BY <1>1, EndpointFits, UP!OutsideKeeps DEF UP!ctrlVars

(* A transaction: a SETUP packet, another one, or the last one.            *)
SetupIsSent ==
  /\ stage = "setup" /\ stage' \in {"setup", "data", "status"} /\ asking' = asking
  /\ transfer'.token = "SETUP" /\ transfer'.packet = asking

GoesOn ==
  /\ stage \in {"data", "status"} /\ stage' \in {"data", "status"} /\ asking' = asking
  /\ transfer'.token # "SETUP"

ComesToEnd ==
  /\ stage = "status" /\ stage' = "idle"
  /\ transfer'.token # "SETUP"
  /\ ~ asking.in => tx.ack

LEMMA Transacted ==
  ASSUME U!HostStep
  PROVE  UP!Reaches /\ transfer.token = "none" /\ (SetupIsSent \/ GoesOn \/ ComesToEnd)
<1>1. CASE UP!SetupTransaction
  BY <1>1 DEF UP!SetupTransaction, UP!Event, UP!Reaches, SetupIsSent
<1>2. CASE UP!OutTransaction
  BY <1>2 DEF UP!OutTransaction, UP!Event, UP!Reaches, GoesOn
<1>3. CASE UP!InTransaction
  BY <1>3 DEF UP!InTransaction, UP!Event, UP!Reaches, GoesOn
<1>4. CASE UP!StatusTransaction
  <2>1. /\ stage = "status" /\ UP!Reaches /\ transfer.token = "none"
        /\ ~ asking.in => tx.ack
        /\ transfer'.token # "SETUP"
        /\ (stage' = stage /\ asking' = asking) \/ stage' = "idle"
    BY <1>4 DEF UP!StatusTransaction, UP!Event, UP!Reaches, UP!HostIdle
  <2> QED BY <2>1 DEF GoesOn, ComesToEnd
<1> QED BY <1>1, <1>2, <1>3, <1>4, SameHost DEF UP!HostStep

(***************************************************************************)
(* The requests of a session, and what dfu_handle_request() does with each.*)
(***************************************************************************)
IsOther(r) == ~ r.class /\ ~ r.in /\ r.wLength = 0 /\ r.bRequest = 5
IsBare(r)  == r.class /\ ~ r.in /\ r.wLength = 0 /\ r.bRequest \in {1, 4, 6}

LEMMA RequestKinds ==
  ASSUME NEW r, Sent(r) \in Traffic
  PROVE  \/ IsPoll(r) /\ r.bRequest = 3
         \/ IsOther(r) \/ IsBare(r)
         \/ IsBlock(r) /\ r.bRequest = 1 /\ r.value \in {0, 2}
<1> DEFINE t == Sent(r)
<1>1. /\ t.class = r.class /\ t.bRequest = r.bRequest /\ t.in = r.in
      /\ t.wLength = r.wLength /\ t.value = r.value
  BY DEF Sent
<1> HIDE DEF t
<1>2. CASE t = StatusReply
  BY <1>1, <1>2 DEF StatusReply, DFU_GETSTATUS, IsPoll
<1>3. CASE t = Address
  BY <1>1, <1>3 DEF Address, Plain, IsOther
<1>4. ASSUME NEW b \in {1, DFU_CLRSTATUS, DFU_ABORT}, t = Plain(TRUE, b, 0, 0)
      PROVE  IsBare(r)
  BY <1>1, <1>4 DEF Plain, IsBare, DFU_CLRSTATUS, DFU_ABORT
<1>5. ASSUME NEW n \in {0, 2}, NEW len \in 1 .. BufferSize, t = Plain(TRUE, 1, n, len)
      PROVE  IsBlock(r) /\ r.bRequest = 1 /\ r.value \in {0, 2}
  <2>1. t.class = TRUE /\ t.in = FALSE /\ t.wLength = len /\ t.bRequest = 1 /\ t.value = n
    BY <1>5 DEF Plain
  <2>2. len > 0
    BY LinkAssumption
  <2> QED BY <1>1, <2>1, <2>2 DEF IsBlock
<1> QED BY <1>2, <1>3, <1>4, <1>5, TrafficShape DEF t

LEMMA RequestEffect ==
  ASSUME NEW r, Sent(r) \in Traffic, Request(r)
  PROVE  /\ pc = "poll" /\ pc' = "check"
         /\ UNCHANGED <<flash, dfu_address, jobVars>>
         /\ Requests
         /\ IsPoll(r) \/ IsOther(r) => UNCHANGED asked
         /\ IsPoll(r) => state' = AfterPoll /\ status' = status
         /\ IsBlock(r) => awaiting' /\ dfu_block_num' = r.value
         /\ state \notin Ending =>
              (state' \in Ending <=> IsBare(r) /\ r.bRequest = 1)
<1> USE DEF Setup, SetState
<1>1. CASE IsPoll(r) /\ r.bRequest = 3
  <2>1. GetStatus
    BY <1>1 DEF Request, IsPoll, DFU_CLRSTATUS, DFU_ABORT
  <2>2. state \notin Ending => AfterPoll \notin Ending
    BY DEF AfterPoll, Ending
  <2> QED BY <1>1, <2>1, <2>2 DEF GetStatus, Requests, IsPoll, IsBlock, IsBare, IsOther
<1>2. CASE IsOther(r)
  <2>1. GetState
    BY <1>2 DEF Request, IsOther
  <2> QED BY <1>2, <2>1 DEF GetState, Requests, IsPoll, IsBlock, IsBare, IsOther
<1>3. CASE IsBare(r)
  <2>1. \/ r.bRequest = 1 /\ DnloadManifest
        \/ r.bRequest = 4 /\ ClrStatus
        \/ r.bRequest = 6 /\ Abort
    BY <1>3 DEF Request, IsBare, DFU_GETSTATUS, DFU_CLRSTATUS, DFU_ABORT
  <2>2. ~ IsPoll(r) /\ ~ IsOther(r) /\ ~ IsBlock(r)
    BY <1>3 DEF IsPoll, IsBlock, IsBare, IsOther
  <2>3. CASE r.bRequest = 1 /\ DnloadManifest
    BY <1>3, <2>2, <2>3 DEF DnloadManifest, Requests, Ending
  <2>4. CASE r.bRequest = 4 /\ ClrStatus
    BY <1>3, <2>2, <2>4 DEF ClrStatus, Requests, Ending
  <2>5. CASE r.bRequest = 6 /\ Abort
    BY <1>3, <2>2, <2>5 DEF Abort, Requests, Ending
  <2> QED BY <2>1, <2>3, <2>4, <2>5
<1>4. CASE IsBlock(r) /\ r.bRequest = 1 /\ r.value \in {0, 2}
  <2>1. DnloadBlock(r.value)
    BY <1>4 DEF Request, IsBlock, DFU_GETSTATUS, DFU_CLRSTATUS, DFU_ABORT
  <2>2. r.value \in 0 .. MaxBlock
    BY <1>4, HostAssumption, GeometryFacts
  <2>3. ~ IsPoll(r) /\ ~ IsOther(r) /\ ~ IsBare(r)
    BY <1>4 DEF IsPoll, IsBlock, IsBare, IsOther
  <2> QED BY <1>4, <2>1, <2>2, <2>3 DEF DnloadBlock, Requests, Ending
<1> QED BY <1>1, <1>2, <1>3, <1>4, RequestKinds

(***************************************************************************)
(* Every step of the program, the host and the bus is one of the endpoint  *)
(* and one of the DFU machine, or leaves them alone.                       *)
(***************************************************************************)
LEMMA NextIsTraffic ==
  /\ Address \in Traffic /\ NextTransfer \in Traffic
  /\ Address.class = FALSE /\ NextTransfer.class = TRUE
<1>1. BlockNumber(target, step) \in {0, 2}
  BY DEF BlockNumber
<1>2. NextTransfer \in Traffic
  BY <1>1 DEF NextTransfer, Traffic
<1>3. Address \in Traffic
  BY DEF Traffic
<1> QED BY <1>2, <1>3 DEF NextTransfer, Address, StatusReply, Plain

LEMMA EndpointMoves ==
  ASSUME [LinkNext]_linkVars
  PROVE  [UP!Next]_UP!vars
<1>1. UNCHANGED usbVars => UNCHANGED UP!vars
  BY DEF usbVars, UP!vars, UP!deviceVars, UP!ctrlVars, UP!hostVars
<1>2. \/ UNCHANGED usbVars
      \/ U!do_usb_poll \/ U!SystemReset
      \/ \E t \in Traffic : U!Begin(t)
      \/ U!HostStep \/ U!GiveUp \/ U!BusReset
  BY NextIsTraffic DEF LinkNext, Program, PollSetup, EnterHandler, LeaveHandler, PollOther,
     Handler, LoopTests, ChipReset, HostBegins, HostTransacts, HostGivesUp, BusIsReset,
     NewSession, linkVars
<1> QED BY <1>1, <1>2, SamePoll, SameHost DEF UP!Next

(* The data the device waits for are those of a step of the list.          *)
LEMMA DueStep ==
  ASSUME UP!UsbInv, Known, Script, ctrl_phase = "DATA_OUT"
  PROVE  /\ IsBlock(current) /\ current.bRequest = 1
         /\ due \in 1 .. LastStep(target) /\ current.value = BlockNumber(target, due)
<1>1. Sent(current) \in Traffic /\ Carries(current, due)
  BY DEF Known, Script
<1>2. ~ current.in /\ current.wLength > 0
  BY DEF UP!UsbInv, UP!Session
<1>3. current.wLength # 0
  BY <1>2
<1> QED BY <1>1, <1>2, <1>3, RequestKinds DEF Carries, IsPoll, IsOther, IsBare, IsBlock

LEMMA MachineMoves ==
  ASSUME LinkInv, [LinkNext]_linkVars
  PROVE  [Next]_vars
<1>0. Known /\ Script /\ UP!UsbInv /\ target \in Versions
  BY DEF LinkInv, Machines, Together, LinkTypes
<1>1. CASE PollSetup
  <2>1. Request(transfer.packet) /\ Sent(transfer.packet) \in Traffic
    BY <1>0, <1>1 DEF PollSetup, Known
  <2> QED BY <2>1, RequestEffect DEF Next
<1>2. CASE EnterHandler
  <2>1. Command(target, due) /\ ctrl_phase = "DATA_OUT"
    BY <1>2 DEF EnterHandler, LastOut
  <2>2. due \in 1 .. LastStep(target)
    BY <1>0, <2>1, DueStep
  <2>3. due \in Nat \ {0} /\ due <= LastStep(target)
    BY <1>0, <2>2, PartsOfImage
  <2>4. Transfers
    BY <1>0, <2>1, <2>3, CommandIsTransfer
  <2> QED BY <2>4 DEF Next
<1>3. CASE Handler \/ LoopTests \/ ChipReset
  BY <1>3 DEF Handler, LoopTests, ChipReset, Next, Device
<1>4. CASE LeaveHandler \/ PollOther
  BY <1>4 DEF LeaveHandler, PollOther
<1>5. CASE HostBegins \/ HostTransacts \/ HostGivesUp \/ BusIsReset \/ NewSession
  BY <1>5 DEF HostBegins, HostTransacts, HostGivesUp, BusIsReset, NewSession, Bus, SessionFails
<1>6. CASE UNCHANGED linkVars
  BY <1>6 DEF linkVars
<1> QED BY <1>1, <1>2, <1>3, <1>4, <1>5, <1>6 DEF LinkNext, Program

LEMMA MachinesStay ==
  ASSUME LinkInv, [LinkNext]_linkVars PROVE Machines'
<1>1. UP!UsbInv'
  BY EndpointMoves, EndpointStays DEF LinkInv, Machines
<1>2. TypeOK' /\ Control' /\ Kept'
  BY MachineMoves, MachineNext DEF LinkInv, Machines, MachineStep
<1> QED BY <1>1, <1>2 DEF Machines

(***************************************************************************)
(* What the invariant says of a state in which a step is possible.         *)
(***************************************************************************)

(* What the host is asking goes with where it is in its list.              *)
LEMMA AskingKinds ==
  ASSUME Known, phase \in Phases, stage # "idle"
  PROVE  /\ Sent(asking) \in Traffic
         /\ \/ IsOther(asking) /\ ~ asking.class
            \/ /\ IsBlock(asking) /\ phase = "setup"
               /\ asking.value = BlockNumber(target, step)
            \/ IsBare(asking) /\ asking.bRequest # 1 /\ phase \in {"clear", "abort"}
            \/ IsBare(asking) /\ asking.bRequest = 1 /\ phase = "leave"
            \/ IsPoll(asking) /\ phase \in {"open", "sync", "busy"}
<1> DEFINE t == Sent(asking)
<1>1. phase # "done" /\ t = IF asking.class THEN NextTransfer ELSE Address
  BY DEF Known
<1>2. /\ t.class = asking.class /\ t.bRequest = asking.bRequest /\ t.in = asking.in
      /\ t.wLength = asking.wLength /\ t.value = asking.value
  BY DEF Sent
<1>3. t \in Traffic
  BY <1>1, NextIsTraffic
<1> HIDE DEF t
<1>4. CASE t = Address
  <2>1. IsOther(asking) /\ ~ asking.class
    BY <1>2, <1>4 DEF Address, Plain, IsOther
  <2> QED BY <1>3, <2>1 DEF t
<1>5. CASE t = NextTransfer
  <2>1. phase = "clear" => t = Plain(TRUE, 4, 0, 0)
    BY <1>5 DEF NextTransfer, DFU_CLRSTATUS
  <2>2. phase = "abort" => t = Plain(TRUE, 6, 0, 0)
    BY <1>5 DEF NextTransfer, DFU_ABORT
  <2>3. phase = "leave" => t = Plain(TRUE, 1, 0, 0)
    BY <1>5 DEF NextTransfer
  <2>4. phase \in {"open", "sync", "busy"} => t = StatusReply
    BY <1>5 DEF NextTransfer
  <2>5. phase = "setup" => \E len \in 1 .. BufferSize :
                              t = Plain(TRUE, 1, BlockNumber(target, step), len)
    <3> DEFINE len == IF BlockNumber(target, step) = 0 THEN CommandBytes ELSE BlockBytes
    <3>1. len \in 1 .. BufferSize
      BY LinkAssumption
    <3>2. phase = "setup" => t = Plain(TRUE, 1, BlockNumber(target, step), len)
      BY <1>5 DEF NextTransfer
    <3> HIDE DEF len
    <3> QED BY <3>1, <3>2
  <2>6. CASE phase \in {"clear", "abort"}
    BY <1>2, <1>3, <2>1, <2>2, <2>6 DEF Plain, IsBare, t
  <2>7. CASE phase = "leave"
    BY <1>2, <1>3, <2>3, <2>7 DEF Plain, IsBare, t
  <2>8. CASE phase \in {"open", "sync", "busy"}
    BY <1>2, <1>3, <2>4, <2>8 DEF StatusReply, IsPoll, t
  <2>9. CASE phase = "setup"
    <3>1. PICK len \in 1 .. BufferSize : t = Plain(TRUE, 1, BlockNumber(target, step), len)
      BY <2>5, <2>9
    <3>2. len > 0
      BY LinkAssumption
    <3>3. IsBlock(asking) /\ asking.value = BlockNumber(target, step)
      BY <1>2, <3>1, <3>2 DEF Plain, IsBlock
    <3> QED BY <1>3, <2>9, <3>3 DEF t
  <2> QED BY <1>1, <2>6, <2>7, <2>8, <2>9 DEF Phases
<1> QED BY <1>1, <1>4, <1>5

(* While data are waited for, the host is at that step or at the start of  *)
(* a new session, and it reads no status.                                  *)
LEMMA TakingData ==
  ASSUME LinkInv, ctrl_phase = "DATA_OUT"
  PROVE  /\ ~ leaving /\ state \notin Ending
         /\ IsBlock(current) /\ current.bRequest = 1
         /\ due \in Nat \ {0} /\ due <= LastStep(target)
         /\ current.value = BlockNumber(target, due)
         /\ phase \in {"open", "setup"}
         /\ transfer.token # "SETUP" /\ phase = "setup" => due = step
         /\ ~ (UP!Heard /\ IsPoll(asking))
<1>0. UP!UsbInv /\ Calls /\ Known /\ Script /\ LinkTypes
  BY DEF LinkInv, Machines, Together
<1>1. ~ leaving /\ state \notin Ending
  BY <1>0 DEF Calls
<1>2. /\ IsBlock(current) /\ current.bRequest = 1
      /\ due \in 1 .. LastStep(target) /\ current.value = BlockNumber(target, due)
  BY <1>0, DueStep
<1>3. due \in Nat \ {0} /\ due <= LastStep(target)
  BY <1>0, <1>2, PartsOfImage DEF LinkTypes
<1>4. phase \in {"open", "setup"}
  BY <1>0 DEF Script
<1>5. transfer.token # "SETUP" /\ phase = "setup" => due = step
  BY <1>0, <1>3, <1>4 DEF Script
<1>6. ~ (UP!Heard /\ IsPoll(asking))
  BY <1>0 DEF UP!UsbInv, UP!ReadsReply, UP!Fresh, UP!Seen, UP!Over, IsPoll
<1> QED BY <1>1, <1>2, <1>3, <1>4, <1>5, <1>6

(* The chunks behind the host stay in the flash: a handler that is at work *)
(* is at the chunk of its step.                                            *)
LEMMA BeforeStays ==
  ASSUME LinkInv, [LinkNext]_linkVars, UNCHANGED <<target, step>>
  PROVE  Before'
<1>0. TypeOK /\ Kept /\ Calls /\ Script /\ OwnBlock /\ Before /\ LinkTypes
  BY DEF LinkInv, Machines, Together
<1>1. target \in Versions /\ step \in Nat
  BY <1>0, PartsOfImage DEF LinkTypes
<1>2. SUFFICES ASSUME NEW k \in DOMAIN Image[target], k < ChunkStart(target, step)
               PROVE  flash'[BootEnd + k] = Image[target][k]
  BY DEF Before
<1>3. flash[BootEnd + k] = Image[target][k]
  BY <1>0, <1>2 DEF Before
<1>4. BootEnd + k \in Pages /\ k \in Nat
  BY <1>1, ImageShape, GeometryFacts DEF Pages
<1>5. ASSUME pc \in Working PROVE ~ (wa <= BootEnd + k)
  <2>1. handling /\ transfer.token = "OUT" /\ ctrl_phase = "DATA_OUT"
    BY <1>0, <1>5 DEF Calls, LastOut
  <2>2. phase = "setup" /\ due = step
    <3>1. phase # "open"
      <4>1. phase = "open" => step = 1
        BY <1>0 DEF Script
      <4>2. IsErase(target, 1) /\ 1 \in Nat
        BY <1>1, StepAfter
      <4>3. ChunkStart(target, 1) <= 0
        BY <1>1, <4>2, StepAfter
      <4>4. ChunkStart(target, 1) \in Int
        BY <1>1, StepAfter
      <4> QED BY <1>2, <1>4, <4>1, <4>3, <4>4
    <3> QED BY <2>1, <3>1, TakingData
  <2>3. ~ IsErase(target, step)
    <3>1. IsErase(target, step) => ChunkStart(target, step) <= 0
      BY <1>1, StepAfter
    <3>2. ChunkStart(target, step) \in Int
      BY <1>1, StepAfter
    <3> QED BY <1>2, <1>4, <3>1, <3>2
  <2>4. wa = BootEnd + ChunkStart(target, step)
    BY <1>0, <1>5, <2>2, <2>3 DEF OwnBlock, Place, Working, Firmware
  <2>5. ChunkStart(target, step) \in Int
    BY <1>1, StepAfter
  <2> QED BY <1>2, <1>4, <2>4, <2>5, GeometryFacts
<1>6. flash'[BootEnd + k] = flash[BootEnd + k]
  BY <1>0, <1>4, <1>5, MachineMoves, KeepsOthers DEF MachineStep
<1> QED BY <1>3, <1>6

(* Nothing is behind a host at the start of its list.                      *)
LEMMA BeforeAtStart ==
  ASSUME target' \in Versions, step' = 1
  PROVE  Before'
<1>1. 1 \in Nat
  OBVIOUS
<1>2. IsErase(target', 1)
  BY <1>1, StepAfter
<1>3. ChunkStart(target', 1) <= 0 /\ ChunkStart(target', 1) \in Int
  BY <1>1, <1>2, StepAfter
<1>4. \A k \in DOMAIN Image[target'] : k \in Nat
  BY ImageShape
<1> QED BY <1>3, <1>4 DEF Before

(***************************************************************************)
(* The steps of the program.                                               *)
(***************************************************************************)
LEMMA PollSetupKeeps ==
  ASSUME LinkInv, Machines', PollSetup
  PROVE  Together'
<1> DEFINE r == transfer.packet
<1>0. /\ UP!UsbTypes /\ UP!Session /\ TypeOK /\ TypeOK' /\ UP!Session'
      /\ LinkTypes /\ Calls /\ Known /\ Script /\ Pointed
  BY DEF LinkInv, Machines, Together, UP!UsbInv
<1>1. /\ transfer.token = "SETUP" /\ Request(r) /\ U!do_usb_poll
      /\ answer' = IF r.class /\ r.bRequest = DFU_GETSTATUS
                   THEN [answer EXCEPT ![r.tag] = NowAnswers] ELSE answer
      /\ due' = asks
      /\ UNCHANGED <<handling, target, phase, step, asks>>
  BY DEF PollSetup, scriptVars
<1>2. /\ r \in UP!Requests /\ current' = r /\ delivered' = <<>> /\ ~ leaving
      /\ leaving' = (r.class /\ (r.bRequest = 0 \/ (r.bRequest = 1 /\ r.wLength = 0)))
      /\ ctrl_phase' = "DATA_OUT" <=> ~ r.in /\ r.wLength > 0
      /\ transfer'.token = "none"
      /\ UNCHANGED <<stage, asking, address>>
  BY <1>0, <1>1, SetupPolled
<1>3. Sent(r) \in Traffic /\ Carries(r, asks)
  BY <1>0, <1>1 DEF Known, Script
<1>4. phase \notin {"open", "done"} => r = asking /\ stage # "idle"
  BY <1>0, <1>1 DEF Known
<1> HIDE DEF r
<1>5. /\ pc = "poll" /\ pc' = "check"
      /\ UNCHANGED <<dfu_address, jobVars>>
      /\ IsPoll(r) \/ IsOther(r) => UNCHANGED asked
      /\ IsPoll(r) => state' = AfterPoll /\ status' = status
      /\ IsBlock(r) => awaiting' /\ dfu_block_num' = r.value
      /\ state \notin Ending => (state' \in Ending <=> IsBare(r) /\ r.bRequest = 1)
  BY <1>1, <1>3, RequestEffect
<1>6. \/ IsPoll(r) /\ r.bRequest = 3
      \/ IsOther(r) \/ IsBare(r)
      \/ IsBlock(r) /\ r.bRequest = 1 /\ r.value \in {0, 2}
  BY <1>3, RequestKinds
<1>7. ~ handling /\ state \notin Ending
  BY <1>0, <1>1, <1>2 DEF Calls, LastOut
<1>8. phase \notin {"open", "done"} =>
        \/ IsOther(r)
        \/ IsBlock(r) /\ phase = "setup"
        \/ IsBare(r) /\ r.bRequest # 1 /\ phase \in {"clear", "abort"}
        \/ IsBare(r) /\ r.bRequest = 1 /\ phase = "leave"
        \/ IsPoll(r) /\ phase \in {"open", "sync", "busy"}
  BY <1>0, <1>4, AskingKinds DEF LinkTypes
<1>9. ctrl_phase' = "DATA_OUT" => IsBlock(r) /\ asks # 0
  <2>1. r.wLength > 0 => r.wLength # 0
    OBVIOUS
  <2>2. ~ r.in /\ r.wLength > 0 => IsBlock(r)
    BY <1>6, <2>1 DEF IsPoll, IsOther, IsBare, IsBlock
  <2>3. IsBlock(r) => asks # 0
    BY <1>3 DEF Carries
  <2> QED BY <1>2, <2>2, <2>3
<1>10. LinkTypes'
  <2>1. answer' \in [Tags -> [state : dfu_state, status : dfu_status]]
    <3>1. CASE r.class /\ r.bRequest = DFU_GETSTATUS
      <4>1. NowAnswers \in [state : dfu_state, status : dfu_status]
        BY <1>0 DEF NowAnswers, AfterPoll, TypeOK, dfu_state
      <4> QED BY <1>0, <1>1, <3>1, <4>1 DEF LinkTypes
    <3>2. CASE ~ (r.class /\ r.bRequest = DFU_GETSTATUS)
      BY <1>0, <1>1, <3>2 DEF LinkTypes
    <3> QED BY <3>1, <3>2
  <2> QED BY <1>0, <1>1, <2>1 DEF LinkTypes
<1>11. Calls'
  <2>1. leaving' <=> IsBare(r) /\ r.bRequest = 1
    <3>1. IsBare(r) /\ r.bRequest = 1 => leaving'
      BY <1>2 DEF IsBare
    <3>2. leaving' => r.class /\ (r.bRequest = 0 \/ (r.bRequest = 1 /\ r.wLength = 0))
      BY <1>2
    <3>3. IsBlock(r) => r.wLength # 0
      BY DEF IsBlock
    <3> QED BY <1>6, <3>1, <3>2, <3>3 DEF IsBare, IsPoll, IsOther
  <2>2. leaving' => /\ ~ r.in /\ r.wLength = 0 /\ ctrl_phase' # "DATA_OUT"
                    /\ phase \in {"open", "leave", "done"} /\ asks = 0
    <3>1. IsBare(r) => ~ r.in /\ r.wLength = 0 /\ ~ IsBlock(r) /\ ~ IsPoll(r) /\ ~ IsOther(r)
      BY DEF IsBare, IsBlock, IsPoll, IsOther
    <3> QED BY <1>3, <1>8, <1>9, <2>1, <3>1 DEF Carries
  <2>3. ctrl_phase' = "DATA_OUT" => awaiting' /\ dfu_block_num' = current'.value
    BY <1>2, <1>5, <1>9
  <2> QED BY <1>1, <1>2, <1>5, <1>7, <2>1, <2>2, <2>3 DEF Calls, Working
<1>12. Known'
  BY <1>0, <1>1, <1>2, <1>3 DEF Known, NextTransfer
<1>13. Script'
  <2>1. ctrl_phase' = "DATA_OUT" => Carries(r, asks) /\ phase \in {"open", "setup"}
    <3>1. IsBlock(r) => ~ IsPoll(r) /\ ~ IsOther(r) /\ ~ IsBare(r)
      BY DEF IsBare, IsBlock, IsPoll, IsOther
    <3>2. asks # 0 => phase # "done"
      BY <1>0 DEF Script
    <3> QED BY <1>3, <1>8, <1>9, <3>1, <3>2
  <2>2. phase \in {"leave", "done"} => asks = 0
    BY <1>0 DEF Script
  <2>3. ctrl_phase' = "DATA_OUT" => Carries(current, due)'
    BY <1>1, <1>2, <2>1 DEF Carries
  <2>4. stage \in {"data", "status"} => Carries(asking, asks)'
    BY <1>0, <1>1, <1>2 DEF Script, Carries
  <2> QED BY <1>0, <1>1, <1>2, <2>1, <2>2, <2>3, <2>4 DEF Script
<1>14. Answered'
  <2>1. SUFFICES ASSUME UP!Heard', IsPoll(asking')
                 PROVE  answer'[asking'.tag] = [state |-> state', status |-> status']
    BY DEF Answered
  <2>2. r = asking'
    BY <1>0, <1>2, <2>1 DEF UP!Session
  <2>3. r.bRequest = 3 /\ r.class /\ r.tag \in Tags
    BY <1>2, <1>6, <2>1, <2>2 DEF IsPoll, IsBlock, IsOther, IsBare, UP!Requests, Tags
  <2>4. answer' = [answer EXCEPT ![r.tag] = NowAnswers]
    BY <1>1, <2>3 DEF DFU_GETSTATUS
  <2>5. answer'[r.tag] = NowAnswers
    BY <1>0, <2>3, <2>4 DEF LinkTypes
  <2> QED BY <1>5, <2>1, <2>2, <2>5 DEF NowAnswers
<1>15. Pointed'
  <2>1. phase \in {"sync", "busy"} => Done(step)'
    <3>1. phase \in {"sync", "busy"} => UNCHANGED asked
      BY <1>5, <1>8
    <3> QED BY <1>0, <1>1, <1>5, <3>1 DEF Pointed, Done, ChunkAsked, Place
  <2>2. ctrl_phase' = "DATA_OUT" /\ IsData(target, asks) => dfu_address = Place(asks)
    BY <1>0, <1>1 DEF Pointed
  <2> QED BY <1>0, <1>1, <1>2, <1>5, <1>7, <2>1, <2>2 DEF Pointed, Place
<1>16. OwnBlock'
  BY <1>5 DEF OwnBlock, Firmware
<1>17. Before'
  BY <1>1, BeforeStays DEF LinkNext, Program
<1> QED BY <1>10, <1>11, <1>12, <1>13, <1>14, <1>15, <1>16, <1>17 DEF Together

(* What the call of the data handler with the data of a step does.         *)
LEMMA CommandEffect ==
  ASSUME NEW v \in Versions, NEW n, Command(v, n)
  PROVE  /\ pc = "poll" /\ pc' \in Working \cup {"check"}
         /\ state' \in {state, "ERROR"}
         /\ pc' \in {"range", "block"} => IsErase(v, n)
         /\ pc' \in Firmware => /\ IsData(v, n)
                                /\ wa' = BlockAddress(dfu_block_num)
                                /\ rx' = Chunk(v, ChunkStart(v, n))
         /\ dfu_address' = IF IsAddress(v, n) THEN BootEnd + ChunkStart(v, n) ELSE dfu_address
         /\ IsData(v, n) =>
              asked' = LET first == BlockAddress(dfu_block_num)
                           data  == Chunk(v, ChunkStart(v, n))
                       IN [p \in {first + k : k \in DOMAIN data} |-> data[p - first]]
<1> USE DEF DataStage, Fail, Finish, Return, Working, Firmware
<1>1. CASE IsErase(v, n) /\ ErasePage(BootEnd + (n - 1) * PagesPerSector)
  <2>1. ~ IsAddress(v, n) /\ ~ IsData(v, n)
    BY <1>1 DEF IsAddress, IsData
  <2> QED BY <1>1, <2>1 DEF ErasePage
<1>2. CASE IsAddress(v, n) /\ ~ IsErase(v, n) /\ SetAddress(BootEnd + ChunkStart(v, n))
  BY <1>2 DEF SetAddress, IsData
<1>3. CASE IsData(v, n) /\ FirmwareBlock(Chunk(v, ChunkStart(v, n)))
  <2>1. ~ IsAddress(v, n) /\ ~ IsErase(v, n)
    BY <1>3 DEF IsData
  <2> QED BY <1>3, <2>1 DEF FirmwareBlock
<1> QED BY <1>1, <1>2, <1>3, CommandCases

LEMMA EnterHandlerKeeps ==
  ASSUME LinkInv, Machines', EnterHandler
  PROVE  Together'
<1>0. /\ TypeOK /\ LinkTypes /\ Calls /\ Known /\ Script /\ Pointed
      /\ target \in Versions
  BY DEF LinkInv, Machines, Together, LinkTypes
<1>1. /\ LastOut /\ ~ handling /\ handling' = TRUE /\ Command(target, due)
      /\ UNCHANGED <<ctrl_phase, ctrl_data_remaining, current, transfer, leaving, delivered,
                     stage, asking, answer, due, target, phase, step, asks>>
  BY DEF EnterHandler, usbVars, scriptVars
<1>2. /\ transfer.token = "OUT" /\ ctrl_phase = "DATA_OUT"
  BY <1>1 DEF LastOut
<1>3. /\ ~ leaving /\ state \notin Ending
      /\ due \in Nat \ {0} /\ due <= LastStep(target)
      /\ current.value = BlockNumber(target, due)
      /\ phase \in {"open", "setup"} /\ (phase = "setup" => due = step)
      /\ ~ (UP!Heard /\ IsPoll(asking))
  BY <1>2, TakingData
<1>4. /\ pc = "poll" /\ pc' \in Working \cup {"check"}
      /\ state' \in {state, "ERROR"}
      /\ pc' \in {"range", "block"} => IsErase(target, due)
      /\ pc' \in Firmware => /\ IsData(target, due)
                             /\ wa' = BlockAddress(dfu_block_num)
                             /\ rx' = Chunk(target, ChunkStart(target, due))
      /\ dfu_address' = IF IsAddress(target, due) THEN Place(due) ELSE dfu_address
      /\ IsData(target, due) =>
           asked' = LET first == BlockAddress(dfu_block_num)
                        data  == Chunk(target, ChunkStart(target, due))
                    IN [p \in {first + k : k \in DOMAIN data} |-> data[p - first]]
  BY <1>0, <1>1, CommandEffect DEF Place
<1>5. IsData(target, due) => BlockAddress(dfu_block_num) = Place(due)
  <2>1. IsData(target, due) => dfu_block_num = 2 /\ dfu_address = Place(due)
    BY <1>0, <1>1, <1>2, <1>3 DEF Calls, BlockNumber, IsData, Pointed
  <2> QED BY <1>0, <2>1, BlockTwo DEF TypeOK
<1>6. LinkTypes'
  BY <1>0, <1>1 DEF LinkTypes
<1>7. Calls'
  <2>1. state' \notin Ending /\ ~ leaving'
    BY <1>1, <1>3, <1>4 DEF Ending
  <2>2. LastOut'
    BY <1>1 DEF LastOut, U!AllReceived
  <2> QED BY <1>1, <1>4, <2>1, <2>2 DEF Calls, Working
<1>8. Known' /\ Script'
  BY <1>0, <1>1 DEF Known, NextTransfer, Script, Carries
<1>9. Answered'
  <2>1. UP!Heard' = UP!Heard
    BY <1>1 DEF UP!Heard, UP!Talking
  <2> QED BY <1>1, <1>3, <2>1 DEF Answered
<1>10. Pointed'
  <2>1. Done(due)'
    <3>1. IsData(target, due) => ~ IsAddress(target, due)
      BY DEF IsData
    <3>2. IsAddress(target, due) => dfu_address' = Place(due)
      BY <1>4
    <3>3. IsData(target, due) => ChunkAsked(Place(due), Chunk(target, ChunkStart(target, due)))'
      BY <1>1, <1>4, <1>5 DEF ChunkAsked, Place
    <3> QED BY <1>1, <3>2, <3>3 DEF Done, Place
  <2>2. phase = "setup" /\ IsData(target, step) => dfu_address' = Place(step)
    BY <1>0, <1>3, <1>4 DEF Pointed, IsData
  <2>3. IsData(target, due) => dfu_address' = Place(due)
    BY <1>0, <1>2, <1>4 DEF Pointed, IsData
  <2> QED BY <1>1, <1>2, <1>3, <2>1, <2>2, <2>3 DEF Pointed, Place
<1>11. OwnBlock'
  BY <1>1, <1>4, <1>5 DEF OwnBlock, Place
<1>12. Before'
  BY <1>1, BeforeStays DEF LinkNext, Program
<1> QED BY <1>6, <1>7, <1>8, <1>9, <1>10, <1>11, <1>12 DEF Together

(* A step inside the data handler.                                         *)
LEMMA HandlerKeeps ==
  ASSUME LinkInv, Machines', Handler
  PROVE  Together'
<1>0. /\ LinkTypes /\ Calls /\ Known /\ Script /\ Pointed /\ OwnBlock
  BY DEF LinkInv, Machines, Together
<1>1. /\ DataSteps
      /\ UNCHANGED <<ctrl_phase, ctrl_data_remaining, current, transfer, leaving, delivered,
                     stage, asking, handling, answer, due, target, phase, step, asks>>
  BY DEF Handler, usbVars, scriptVars
<1>2. /\ pc \in Working /\ pc' \in Working \cup {"check"}
      /\ pc' \in {"range", "block"} => pc = "range"
      /\ state' \in {state, "ERROR"}
      /\ UNCHANGED <<dfu_address, dfu_block_num, awaiting, asked>>
      /\ pc' \in Firmware => pc \in Firmware /\ UNCHANGED <<wa, rx>>
  BY <1>1, HandlerEffect
<1>3. handling /\ LastOut /\ ctrl_phase = "DATA_OUT"
  BY <1>0, <1>2 DEF Calls, LastOut
<1>4. ~ leaving /\ state \notin Ending /\ ~ (UP!Heard /\ IsPoll(asking))
  BY <1>3, TakingData
<1>5. LinkTypes'
  BY <1>0, <1>1 DEF LinkTypes
<1>6. Calls'
  <2>1. state' \notin Ending /\ ~ leaving'
    BY <1>1, <1>2, <1>4 DEF Ending
  <2>2. LastOut'
    BY <1>1, <1>3 DEF LastOut, U!AllReceived
  <2> QED BY <1>1, <1>2, <1>3, <2>1, <2>2 DEF Calls, Working
<1>7. Known' /\ Script'
  BY <1>0, <1>1 DEF Known, NextTransfer, Script, Carries
<1>8. Answered'
  <2>1. UP!Heard' = UP!Heard
    BY <1>1 DEF UP!Heard, UP!Talking
  <2> QED BY <1>1, <1>4, <2>1 DEF Answered
<1>9. Pointed'
  BY <1>0, <1>1, <1>2 DEF Pointed, Done, Place, ChunkAsked
<1>10. OwnBlock'
  BY <1>0, <1>1, <1>2 DEF OwnBlock, Place
<1>11. Before'
  BY <1>1, BeforeStays DEF LinkNext, Program
<1> QED BY <1>5, <1>6, <1>7, <1>8, <1>9, <1>10, <1>11 DEF Together

(* An event that is no SETUP packet: the data handler is back from its     *)
(* call, or there was none.                                                *)
LEMMA OtherPollKeeps ==
  ASSUME LinkInv, Machines', LeaveHandler \/ PollOther
  PROVE  Together'
<1>0. /\ UP!UsbTypes /\ LinkTypes /\ Calls /\ Known /\ Script /\ Answered /\ Pointed /\ OwnBlock
  BY DEF LinkInv, Machines, Together, UP!UsbInv
<1>1. /\ U!do_usb_poll /\ transfer.token # "SETUP"
      /\ pc \in {"poll", "check"}
      /\ handling' = FALSE /\ (LastOut => handling) /\ (handling => LastOut)
      /\ UNCHANGED <<state, status, dfu_address, dfu_block_num, pc, awaiting, wa, i, rx, asked,
                     answer, due, target, phase, step, asks>>
  BY <1>0 DEF LeaveHandler, PollOther, LastOut, vars, scriptVars, Calls
<1>2. /\ UNCHANGED <<stage, asking, current, leaving, address>>
      /\ ~ leaving
      /\ transfer'.token = "none"
      /\ ctrl_phase' = "DATA_OUT" => ctrl_phase = "DATA_OUT" /\ ~ LastOut
      /\ \/ LastOut
         \/ ctrl_phase = "DATA_OUT" /\ current.bRequest # 1
         \/ delivered' \in {delivered, <<>>}
  BY <1>0, <1>1, OtherPolled
<1>3. LinkTypes'
  BY <1>0, <1>1 DEF LinkTypes
<1>4. Calls'
  BY <1>0, <1>1, <1>2 DEF Calls, Working
<1>5. Known'
  BY <1>0, <1>1, <1>2 DEF Known, NextTransfer
<1>6. Script'
  BY <1>0, <1>1, <1>2 DEF Script, Carries
<1>7. Answered'
  <2>1. UP!Heard' => UP!Heard
    BY <1>1, <1>2 DEF UP!Heard, UP!Talking
  <2> QED BY <1>0, <1>1, <1>2, <2>1 DEF Answered
<1>8. Pointed'
  <2>1. LastOut \/ delivered' \in {delivered, <<>>}
    BY <1>2, TakingData
  <2>2. delivered' # <<>> => handling \/ delivered # <<>>
    BY <1>1, <2>1
  <2>3. delivered' # <<>> => due # 0 /\ Done(due)
    BY <1>0, <2>2 DEF Pointed
  <2>4. delivered' # <<>> => Done(due)'
    BY <1>1, <2>3 DEF Done, Place, ChunkAsked
  <2>5. phase \in {"sync", "busy"} => Done(step)'
    BY <1>0, <1>1 DEF Pointed, Done, Place, ChunkAsked
  <2> QED BY <1>0, <1>1, <1>2, <2>3, <2>4, <2>5 DEF Pointed, Place
<1>9. OwnBlock'
  BY <1>1 DEF OwnBlock, Firmware
<1>10. Before'
  BY <1>1, BeforeStays DEF LinkNext, Program
<1> QED BY <1>3, <1>4, <1>5, <1>6, <1>7, <1>8, <1>9, <1>10 DEF Together

LEMMA LoopTestsKeeps ==
  ASSUME LinkInv, Machines', LoopTests
  PROVE  Together'
<1>0. /\ UP!Session /\ LinkTypes /\ Calls /\ Known /\ Script /\ Answered /\ Pointed /\ OwnBlock
  BY DEF LinkInv, Machines, Together, UP!UsbInv
<1>1. /\ ~ handling /\ pc = "check"
      /\ state' = IF state = "MANIFEST_SYNC" THEN "MANIFEST_WAIT_RESET" ELSE state
      /\ pc' = IF state' \in {"MANIFEST_WAIT_RESET", "APP_DETACH"} THEN "reset" ELSE "poll"
      /\ UNCHANGED <<status, dfu_address, dfu_block_num, awaiting, wa, i, rx, asked,
                     ctrl_phase, current, transfer, leaving, delivered, stage, asking,
                     handling, answer, due, target, phase, step, asks>>
  BY DEF LoopTests, MainCheck, usbVars, scriptVars
<1>2. LinkTypes'
  BY <1>0, <1>1 DEF LinkTypes
<1>3. Calls'
  <2>1. state' \in Ending <=> state \in Ending
    BY <1>1 DEF Ending
  <2>2. pc' = "reset" => state' \in Ending
    BY <1>1 DEF Ending
  <2> QED BY <1>0, <1>1, <2>1, <2>2 DEF Calls, Working
<1>4. Known' /\ Script'
  BY <1>0, <1>1 DEF Known, NextTransfer, Script, Carries
<1>5. Answered'
  <2>1. UP!Heard' = UP!Heard
    BY <1>1 DEF UP!Heard, UP!Talking
  <2>2. UP!Heard /\ IsPoll(asking) => ~ leaving
    BY <1>0 DEF UP!Session, Calls, IsPoll
  <2>3. ~ leaving => UNCHANGED state
    BY <1>0, <1>1 DEF Calls, Ending
  <2> QED BY <1>0, <1>1, <2>1, <2>2, <2>3 DEF Answered
<1>6. Pointed'
  BY <1>0, <1>1 DEF Pointed, Done, Place, ChunkAsked
<1>7. OwnBlock'
  BY <1>1 DEF OwnBlock, Firmware
<1>8. Before'
  BY <1>1, BeforeStays DEF LinkNext, Program
<1> QED BY <1>2, <1>3, <1>4, <1>5, <1>6, <1>7, <1>8 DEF Together

LEMMA ChipResetKeeps ==
  ASSUME LinkInv, Machines', ChipReset
  PROVE  Together'
<1>0. LinkTypes /\ Calls
  BY DEF LinkInv, Machines, Together
<1>1. /\ pc = "reset" /\ pc' = "poll" /\ state' = "DFU_IDLE"
      /\ phase' = "done" /\ due' = 0
      /\ UNCHANGED <<handling, answer, target, step, asks>>
  BY DEF ChipReset, Restart
<1>2. /\ leaving /\ leaving' = FALSE
      /\ ctrl_phase' = "IDLE" /\ transfer'.token = "none" /\ delivered' = <<>>
      /\ stage' = "idle"
  BY SameHost DEF ChipReset, UP!SystemReset, UP!HostIdle, UP!NoEvent
<1>3. ~ handling /\ asks = 0
  BY <1>0, <1>1, <1>2 DEF Calls, Working
<1>4. LinkTypes'
  BY <1>0, <1>1, PartsOfImage DEF LinkTypes, Phases
<1>5. Calls'
  BY <1>1, <1>2, <1>3 DEF Calls, Working, Ending
<1>6. Known' /\ Script' /\ Answered'
  BY <1>1, <1>2, <1>3 DEF Known, Script, Answered, UP!Heard, UP!Talking
<1>7. Pointed' /\ OwnBlock'
  BY <1>1, <1>2, <1>3 DEF Pointed, OwnBlock, Firmware
<1>8. Before'
  BY <1>1, BeforeStays DEF LinkNext, Program
<1> QED BY <1>4, <1>5, <1>6, <1>7, <1>8 DEF Together

(***************************************************************************)
(* The steps of the host and the bus.                                      *)
(***************************************************************************)
LEMMA SentTraffic ==
  ASSUME NEW t \in Traffic
  PROVE  Sent(t) = t
BY TrafficShape DEF Sent, StatusReply, Address, Plain

(* Before the list there is an erase.                                      *)
LEMMA NoData ==
  ASSUME NEW v \in Versions
  PROVE  ~ IsData(v, 0) /\ ~ IsData(v, 1) /\ 1 <= LastStep(v)
<1>1. Erases(v) \in Nat /\ Chunks(v) \in Nat /\ 1 \in Nat
  BY PartsOfImage
<1>2. IsErase(v, 1)
  BY <1>1, StepAfter
<1> QED BY <1>1, <1>2 DEF IsData, IsErase, LastStep

LEMMA HostBeginsKeeps ==
  ASSUME LinkInv, Machines', HostBegins
  PROVE  Together'
<1> DEFINE t == IF address = 0 THEN Address ELSE NextTransfer
<1>0. LinkTypes /\ Calls /\ Known /\ Script /\ Answered /\ Pointed /\ OwnBlock
  BY DEF LinkInv, Machines, Together
<1>1. /\ phase # "done" /\ U!Begin(t)
      /\ UNCHANGED <<state, status, dfu_address, dfu_block_num, pc, awaiting, wa, i, rx, asked,
                     handling, answer, due, target, phase, step, asks>>
  BY DEF HostBegins, Bus, vars, scriptVars
<1>2. t \in Traffic /\ t.class = (t # Address) /\ (t = Address \/ t = NextTransfer)
  BY NextIsTraffic
<1> HIDE DEF t
<1>3. UNCHANGED <<ctrl_phase, ctrl_data_remaining, current, leaving, delivered>>
  BY <1>1, <1>2, OutsideLeaves
<1>4. /\ stage = "idle" /\ stage' = "setup" /\ UNCHANGED transfer
      /\ asking' = [class |-> t.class, bRequest |-> t.bRequest, in |-> t.in,
                    wLength |-> t.wLength, reply |-> t.reply, value |-> t.value,
                    tag |-> 1 - asking.tag]
  BY <1>1, SameHost DEF UP!Begin, UP!deviceVars
<1>5. Sent(asking') = t /\ asking'.class = t.class
  <2>1. Sent(asking') = Sent(t)
    BY <1>4 DEF Sent
  <2> QED BY <1>2, <1>4, <2>1, SentTraffic
<1>6. LinkTypes'
  BY <1>0, <1>1 DEF LinkTypes
<1>7. Calls'
  BY <1>0, <1>1, <1>3, <1>4 DEF Calls, LastOut, U!AllReceived
<1>8. Known'
  <2>1. Sent(asking') = IF asking'.class THEN NextTransfer' ELSE Address
    BY <1>1, <1>2, <1>5 DEF NextTransfer
  <2> QED BY <1>0, <1>1, <1>3, <1>4, <2>1 DEF Known, Sent
<1>9. Script'
  BY <1>0, <1>1, <1>3, <1>4 DEF Script, Carries
<1>10. Answered'
  BY <1>4 DEF Answered, UP!Heard, UP!Talking
<1>11. Pointed'
  BY <1>0, <1>1, <1>3, <1>4 DEF Pointed, Done, Place, ChunkAsked
<1>12. OwnBlock'
  BY <1>0, <1>1 DEF OwnBlock, Place
<1>13. Before'
  BY <1>1, BeforeStays DEF LinkNext
<1> QED BY <1>6, <1>7, <1>8, <1>9, <1>10, <1>11, <1>12, <1>13 DEF Together

(* The host gives up, or the bus is reset.                                 *)
LEMMA SessionFailsKeeps ==
  ASSUME LinkInv, Machines', HostGivesUp \/ BusIsReset
  PROVE  Together'
<1>0. LinkTypes /\ Calls /\ Known /\ Script /\ Answered /\ Pointed /\ OwnBlock
  BY DEF LinkInv, Machines, Together
<1>1. /\ U!GiveUp \/ U!BusReset
      /\ phase' = IF phase \in {"leave", "done"} THEN "done" ELSE "open"
      /\ step' = IF phase \in {"leave", "done"} THEN step ELSE 1
      /\ UNCHANGED <<state, status, dfu_address, dfu_block_num, pc, awaiting, wa, i, rx, asked,
                     handling, answer, due, target, asks>>
  BY DEF HostGivesUp, BusIsReset, SessionFails, Bus, vars
<1>2. UNCHANGED <<ctrl_phase, ctrl_data_remaining, current, leaving, delivered>>
  BY <1>1, OutsideLeaves
<1>3. stage' = "idle" /\ UNCHANGED transfer
  BY <1>1, SameHost DEF UP!GiveUp, UP!BusReset, UP!HostIdle, UP!deviceVars
<1>4. LinkTypes'
  BY <1>0, <1>1, PartsOfImage DEF LinkTypes, Phases
<1>5. Calls'
  BY <1>0, <1>1, <1>2, <1>3 DEF Calls, LastOut, U!AllReceived
<1>6. Known'
  BY <1>0, <1>1, <1>2, <1>3 DEF Known
<1>7. Script'
  BY <1>0, <1>1, <1>2, <1>3 DEF Script, Carries
<1>8. Answered'
  BY <1>3 DEF Answered, UP!Heard, UP!Talking
<1>9. Pointed'
  BY <1>0, <1>1, <1>2, <1>3 DEF Pointed, Done, Place, ChunkAsked
<1>10. OwnBlock'
  BY <1>0, <1>1 DEF OwnBlock, Place
<1>11. Before'
  <2>1. step' = step => Before'
    BY <1>1, BeforeStays DEF LinkNext
  <2>2. step' = 1 => Before'
    BY <1>0, <1>1, BeforeAtStart DEF LinkTypes
  <2> QED BY <1>1, <2>1, <2>2
<1> QED BY <1>4, <1>5, <1>6, <1>7, <1>8, <1>9, <1>10, <1>11 DEF Together

LEMMA NewSessionKeeps ==
  ASSUME LinkInv, Machines', NewSession
  PROVE  Together'
<1>0. LinkTypes /\ Calls /\ Known /\ Script /\ Pointed
  BY DEF LinkInv, Machines, Together
<1>1. /\ phase = "done" /\ stage = "idle" /\ phase' = "open" /\ step' = 1
      /\ target' \in Versions
      /\ UNCHANGED <<state, status, dfu_address, dfu_block_num, pc, awaiting, wa, i, rx, asked,
                     handling, answer, due, asks, ctrl_phase, ctrl_data_remaining, current,
                     transfer, leaving, delivered, stage, asking>>
  BY DEF NewSession, Bus, vars, usbVars
<1>2. asks = 0 /\ due = 0
  BY <1>0, <1>1 DEF Script
<1>3. ~ handling /\ delivered = <<>>
  BY <1>0, <1>2 DEF Pointed
<1>4. ctrl_phase # "DATA_OUT" /\ pc \notin Working
  BY <1>0, <1>1, <1>3 DEF Script, Calls
<1>5. LinkTypes'
  BY <1>0, <1>1, <1>2, PartsOfImage DEF LinkTypes, Phases
<1>6. Calls'
  BY <1>0, <1>1, <1>3, <1>4 DEF Calls
<1>7. Known'
  BY <1>0, <1>1, <1>4 DEF Known
<1>8. Script'
  <2>1. transfer.token = "SETUP" => Carries(transfer.packet, asks)'
    BY <1>0, <1>1, <1>2 DEF Script, Carries
  <2> QED BY <1>0, <1>1, <1>2, <1>4, <2>1 DEF Script
<1>9. Answered'
  BY <1>1 DEF Answered, UP!Heard, UP!Talking
<1>10. Pointed'
  BY <1>1, <1>2, <1>3, <1>4, NoData DEF Pointed
<1>11. OwnBlock'
  BY <1>1, <1>4 DEF OwnBlock, Working, Firmware
<1>12. Before'
  BY <1>1, BeforeAtStart
<1> QED BY <1>5, <1>6, <1>7, <1>8, <1>9, <1>10, <1>11, <1>12 DEF Together

(* No handler runs while the host can be heard.                            *)
LEMMA Listening ==
  ASSUME LinkInv, HostTransacts
  PROVE  /\ UP!Reaches /\ transfer.token = "none" /\ due = asks
         /\ SetupIsSent \/ GoesOn \/ ComesToEnd
         /\ ~ handling /\ pc \notin Working
         /\ UNCHANGED <<ctrl_phase, ctrl_data_remaining, current, leaving, delivered>>
         /\ UNCHANGED <<state, status, dfu_address, dfu_block_num, pc, awaiting, wa, i, rx, asked,
                        handling, answer, due, target>>
         /\ asks' = CASE stage # "setup" -> asks
                      [] stage = "setup" /\ asking.wLength > 0 /\ ~ asking.in -> step
                      [] OTHER -> 0
         /\ IF stage' = "idle" THEN Completed ELSE UNCHANGED <<phase, step>>
<1>0. Calls /\ Script
  BY DEF LinkInv, Together
<1>1. U!HostStep
  BY DEF HostTransacts
<1>2. UP!Reaches /\ transfer.token = "none" /\ (SetupIsSent \/ GoesOn \/ ComesToEnd)
  BY <1>1, Transacted
<1>3. UNCHANGED <<ctrl_phase, ctrl_data_remaining, current, leaving, delivered>>
  BY <1>1, OutsideLeaves
<1>4. ~ handling /\ pc \notin Working /\ due = asks
  BY <1>0, <1>2 DEF Calls, LastOut, Script
<1> QED BY <1>2, <1>3, <1>4 DEF HostTransacts, Bus, vars

LEMMA SetupSentKeeps ==
  ASSUME LinkInv, Machines', HostTransacts, SetupIsSent
  PROVE  Together'
<1>0. LinkTypes /\ Calls /\ Known /\ Script /\ Pointed /\ OwnBlock
  BY DEF LinkInv, Machines, Together
<1>1. /\ ~ handling /\ pc \notin Working /\ due = asks
      /\ UNCHANGED <<ctrl_phase, ctrl_data_remaining, current, leaving, delivered>>
      /\ UNCHANGED <<state, status, dfu_address, dfu_block_num, pc, awaiting, wa, i, rx, asked,
                     handling, answer, due, target>>
  BY Listening
<1>2. /\ stage = "setup" /\ stage' \in {"setup", "data", "status"} /\ asking' = asking
      /\ transfer'.token = "SETUP" /\ transfer'.packet = asking
  BY DEF SetupIsSent
<1>3. /\ UNCHANGED <<phase, step>>
      /\ asks' = IF asking.wLength > 0 /\ ~ asking.in THEN step ELSE 0
  BY <1>2, Listening
<1>4. /\ Sent(asking) \in Traffic
      /\ \/ IsOther(asking) /\ ~ asking.class
         \/ /\ IsBlock(asking) /\ phase = "setup"
            /\ asking.value = BlockNumber(target, step)
         \/ IsBare(asking) /\ asking.bRequest # 1 /\ phase \in {"clear", "abort"}
         \/ IsBare(asking) /\ asking.bRequest = 1 /\ phase = "leave"
         \/ IsPoll(asking) /\ phase \in {"open", "sync", "busy"}
  BY <1>0, <1>2, AskingKinds DEF LinkTypes
<1>5. \/ /\ IsBlock(asking) /\ phase = "setup" /\ asking.value = BlockNumber(target, step)
         /\ asks' = step /\ step \in 1 .. LastStep(target)
      \/ ~ IsBlock(asking) /\ asks' = 0
  <2>1. IsOther(asking) \/ IsBare(asking) \/ IsPoll(asking) => ~ IsBlock(asking) /\ asks' = 0
    BY <1>3 DEF IsOther, IsBare, IsPoll, IsBlock
  <2>2. IsBlock(asking) => asks' = step
    BY <1>3 DEF IsBlock
  <2>3. phase = "setup" => step \in 1 .. LastStep(target)
    BY <1>0, PartsOfImage DEF Script, LinkTypes
  <2> QED BY <1>4, <2>1, <2>2, <2>3
<1>6. LinkTypes'
  BY <1>0, <1>1, <1>3, <1>5, PartsOfImage DEF LinkTypes
<1>7. Calls'
  BY <1>0, <1>1, <1>3, <1>5 DEF Calls
<1>8. Known'
  BY <1>0, <1>1, <1>2, <1>3, <1>4 DEF Known, NextTransfer
<1>9. Script'
  <2>1. Carries(asking, asks')
    BY <1>5 DEF Carries
  <2>2. Carries(transfer.packet, asks)' /\ Carries(asking, asks)'
    BY <1>1, <1>2, <2>1 DEF Carries
  <2>3. asks' # 0 => asks' = step /\ phase = "setup"
    BY <1>5
  <2>4. ctrl_phase = "DATA_OUT" => Carries(current, due)'
    BY <1>0, <1>1 DEF Script, Carries
  <2> QED BY <1>0, <1>1, <1>2, <1>3, <2>2, <2>3, <2>4 DEF Script
<1>10. Answered'
  BY <1>2 DEF Answered, UP!Heard
<1>11. Pointed'
  <2>1. IsData(target, asks') => dfu_address = Place(asks')
    <3>1. asks' = 0 => ~ IsData(target, asks')
      BY <1>0, NoData DEF LinkTypes
    <3> QED BY <1>0, <1>5, <3>1 DEF Pointed
  <2>2. IsData(target', asks') => dfu_address' = Place(asks)'
    BY <1>1, <2>1 DEF Place
  <2>3. phase \in {"sync", "busy"} => Done(step)'
    BY <1>0, <1>1, <1>3 DEF Pointed, Done, Place, ChunkAsked
  <2>4. delivered # <<>> => due # 0 /\ Done(due)'
    BY <1>0, <1>1 DEF Pointed, Done, Place, ChunkAsked
  <2> QED BY <1>0, <1>1, <1>2, <1>3, <2>2, <2>3, <2>4 DEF Pointed, Place
<1>12. OwnBlock'
  BY <1>1 DEF OwnBlock, Working, Firmware
<1>13. Before'
  BY <1>1, <1>3, BeforeStays DEF LinkNext
<1> QED BY <1>6, <1>7, <1>8, <1>9, <1>10, <1>11, <1>12, <1>13 DEF Together

LEMMA GoesOnKeeps ==
  ASSUME LinkInv, Machines', HostTransacts, GoesOn
  PROVE  Together'
<1>0. LinkTypes /\ Calls /\ Known /\ Script /\ Answered /\ Pointed /\ OwnBlock
  BY DEF LinkInv, Machines, Together
<1>1. /\ ~ handling /\ pc \notin Working /\ due = asks /\ transfer.token = "none"
      /\ UNCHANGED <<ctrl_phase, ctrl_data_remaining, current, leaving, delivered>>
      /\ UNCHANGED <<state, status, dfu_address, dfu_block_num, pc, awaiting, wa, i, rx, asked,
                     handling, answer, due, target>>
  BY Listening
<1>2. /\ stage \in {"data", "status"} /\ stage' \in {"data", "status"} /\ asking' = asking
      /\ transfer'.token # "SETUP"
  BY DEF GoesOn
<1>3. UNCHANGED <<phase, step, asks>>
  BY <1>2, Listening
<1>4. LinkTypes'
  BY <1>0, <1>1, <1>3 DEF LinkTypes
<1>5. Calls'
  BY <1>0, <1>1, <1>3 DEF Calls
<1>6. Known'
  BY <1>0, <1>1, <1>2, <1>3 DEF Known, NextTransfer
<1>7. Script'
  BY <1>0, <1>1, <1>2, <1>3 DEF Script, Carries
<1>8. Answered'
  <2>1. UP!Heard
    BY <1>1, <1>2 DEF UP!Heard, UP!Talking
  <2> QED BY <1>0, <1>1, <1>2, <2>1 DEF Answered
<1>9. Pointed'
  BY <1>0, <1>1, <1>2, <1>3 DEF Pointed, Done, Place, ChunkAsked
<1>10. OwnBlock'
  BY <1>1 DEF OwnBlock, Working, Firmware
<1>11. Before'
  BY <1>1, <1>3, BeforeStays DEF LinkNext
<1> QED BY <1>4, <1>5, <1>6, <1>7, <1>8, <1>9, <1>10, <1>11 DEF Together

(* Where the end of a transfer may take the host.                          *)
GetsTo ==
  /\ phase' \in Phases /\ step' \in 1 .. LastStep(target) + 1
  /\ leaving => phase' \in {"open", "leave", "done"}
  /\ ctrl_phase = "DATA_OUT" => phase' \in {"open", "setup"}
  /\ asks # 0 => phase' = "open" \/ (asks = step' /\ phase' \in {"setup", "sync"})
  /\ phase' \in {"open", "clear", "abort"} => step' = 1
  /\ phase' \in {"setup", "sync", "busy"} => step' <= LastStep(target)
  /\ phase' \in {"leave", "done"} => asks = 0
  /\ phase' \in {"sync", "busy"} => Done(step')
  /\ phase' = "setup" /\ IsData(target, step') => dfu_address = Place(step')
  /\ Before'

LEMMA GetsToKeeps ==
  ASSUME LinkInv, HostTransacts, ComesToEnd, GetsTo
  PROVE  Together'
<1>0. LinkTypes /\ Calls /\ Known /\ Script /\ Pointed
  BY DEF LinkInv, Machines, Together
<1>1. /\ ~ handling /\ pc \notin Working /\ due = asks /\ transfer.token = "none"
      /\ UNCHANGED <<ctrl_phase, ctrl_data_remaining, current, leaving, delivered>>
      /\ UNCHANGED <<state, status, dfu_address, dfu_block_num, pc, awaiting, wa, i, rx, asked,
                     handling, answer, due, target>>
  BY Listening
<1>2. stage = "status" /\ stage' = "idle" /\ transfer'.token # "SETUP"
  BY DEF ComesToEnd
<1>3. UNCHANGED asks
  BY <1>2, Listening
<1>4. LinkTypes'
  BY <1>0, <1>1, <1>3 DEF LinkTypes, GetsTo
<1>5. Calls'
  BY <1>0, <1>1, <1>3 DEF Calls, GetsTo
<1>6. Known'
  BY <1>0, <1>1, <1>2 DEF Known
<1>7. Script'
  <2>1. ctrl_phase = "DATA_OUT" => Carries(current, due)'
    BY <1>0, <1>1 DEF Script, Carries
  <2> QED BY <1>1, <1>2, <1>3, <2>1 DEF Script, GetsTo
<1>8. Answered'
  BY <1>2 DEF Answered, UP!Heard, UP!Talking
<1>9. Pointed'
  <2>1. phase' \in {"sync", "busy"} => Done(step)'
    BY <1>1 DEF GetsTo, Done, Place, ChunkAsked
  <2>2. delivered # <<>> => due # 0 /\ Done(due)'
    BY <1>0, <1>1 DEF Pointed, Done, Place, ChunkAsked
  <2> QED BY <1>0, <1>1, <1>2, <2>1, <2>2 DEF Pointed, Place, GetsTo
<1>10. OwnBlock'
  BY <1>1 DEF OwnBlock, Working, Firmware
<1> QED BY <1>4, <1>5, <1>6, <1>7, <1>8, <1>9, <1>10 DEF Together, GetsTo

(* The end of a transfer with no data: the address, or a bare command.     *)
LEMMA BareEnds ==
  ASSUME LinkInv, HostTransacts, ComesToEnd, IsOther(asking) \/ IsBare(asking)
  PROVE  GetsTo
<1>0. LinkTypes /\ Calls /\ Known /\ Script /\ Pointed
  BY DEF LinkInv, Machines, Together
<1>1. /\ due = asks /\ transfer.token = "none" /\ Completed /\ UNCHANGED target
      /\ stage = "status"
  BY Listening DEF ComesToEnd
<1>2. asks = 0
  BY <1>0, <1>1 DEF Script, Carries, IsBlock, IsOther, IsBare
<1>3. \/ IsOther(asking) /\ ~ asking.class
      \/ IsBare(asking) /\ phase \in {"clear", "abort"}
      \/ IsBare(asking) /\ phase = "leave"
  BY <1>0, <1>1, AskingKinds DEF LinkTypes, IsOther, IsBare, IsBlock, IsPoll
<1>4. UNCHANGED step
  BY <1>1 DEF Completed, IsOther, IsBare
<1>5. Before'
  BY <1>1, <1>4, BeforeStays DEF LinkNext
<1>6. CASE IsOther(asking) /\ ~ asking.class
  <2>1. UNCHANGED phase
    BY <1>1, <1>6 DEF Completed
  <2> QED BY <1>0, <1>1, <1>2, <1>4, <1>5, <2>1 DEF GetsTo, LinkTypes, Calls, Script, Pointed
<1>7. CASE IsBare(asking) /\ phase \in {"clear", "abort"}
  <2>1. phase' = "open"
    BY <1>1, <1>7 DEF Completed, IsBare
  <2> QED BY <1>0, <1>1, <1>2, <1>4, <1>5, <1>7, <2>1
          DEF GetsTo, LinkTypes, Phases, Calls, Script
<1>8. CASE IsBare(asking) /\ phase = "leave"
  <2>1. phase' = "done"
    BY <1>1, <1>8 DEF Completed, IsBare
  <2> QED BY <1>0, <1>1, <1>2, <1>4, <1>5, <1>8, <2>1
          DEF GetsTo, LinkTypes, Phases, Calls, Script
<1> QED BY <1>3, <1>6, <1>7, <1>8

(* The end of a DNLOAD with data: the data handler has had them.           *)
LEMMA BlockEnds ==
  ASSUME LinkInv, HostTransacts, ComesToEnd, IsBlock(asking)
  PROVE  GetsTo
<1>0. /\ LinkTypes /\ Calls /\ Known /\ Script /\ Pointed
      /\ UP!UsbInv /\ UP!Session
  BY DEF LinkInv, Machines, Together, UP!UsbInv
<1>1. /\ due = asks /\ transfer.token = "none" /\ Completed /\ UNCHANGED target
      /\ stage = "status" /\ UP!Reaches /\ ~ handling
  BY Listening DEF ComesToEnd
<1>2. phase = "setup" /\ Sent(asking) \in Traffic
  BY <1>0, <1>1, AskingKinds DEF LinkTypes, IsOther, IsBare, IsBlock, IsPoll
<1>3. asking.bRequest = 1 /\ asking.wLength > 0 /\ ~ asking.in
  BY <1>2, RequestKinds DEF IsOther, IsBare, IsBlock, IsPoll
<1>4. phase' = "sync" /\ UNCHANGED step
  BY <1>1, <1>2, <1>3 DEF Completed, IsBlock
<1>5. asks = step /\ asks # 0 /\ step <= LastStep(target)
  BY <1>0, <1>1, <1>2, PartsOfImage DEF Script, Carries, LinkTypes
<1>6. UP!Heard /\ UP!SendsBlock
  BY <1>0, <1>1, EndpointTells DEF UP!Heard, UP!Talking, UP!WholeBlocks
<1>7. /\ ctrl_phase = "IDLE"
      /\ delivered = UP!Block(asking)
  BY <1>1, <1>3, <1>6 DEF UP!SendsBlock, UP!DFU_DNLOAD
<1>8. delivered # <<>>
  <2>1. asking \in UP!Requests
    BY <1>0 DEF UP!UsbInv, UP!UsbTypes
  <2>2. Len(UP!Block(asking)) = asking.wLength
    BY <2>1, EndpointFits, UP!BlockShape
  <2> QED BY <1>3, <1>7, <2>1, <2>2
<1>9. Done(step)
  BY <1>0, <1>1, <1>5, <1>8 DEF Pointed
<1>10. Before'
  BY <1>1, <1>4, BeforeStays DEF LinkNext
<1>11. ~ leaving
  BY <1>0, <1>2 DEF Calls
<1> QED BY <1>0, <1>1, <1>4, <1>5, <1>7, <1>9, <1>10, <1>11 DEF GetsTo, LinkTypes, Phases

(* The step after one that was confirmed.                                  *)
LEMMA StepConfirmed ==
  ASSUME LinkInv, UNCHANGED <<flash, target>>, step' = step + 1, step <= LastStep(target),
         Done(step), Holds(asked)
  PROVE  /\ Before'
         /\ IsData(target, step + 1) => dfu_address = Place(step + 1)
<1>0. LinkTypes /\ Before
  BY DEF LinkInv, Together
<1>1. target \in Versions /\ step \in Nat
  BY <1>0, PartsOfImage DEF LinkTypes
<1>2. /\ IsErase(target, step) => /\ ~ IsData(target, step + 1)
                                  /\ ChunkStart(target, step + 1) <= 0
      /\ IsAddress(target, step) => ChunkStart(target, step + 1) = ChunkStart(target, step)
      /\ IsData(target, step) =>
           /\ ~ IsData(target, step + 1)
           /\ ChunkStart(target, step + 1) = ChunkStart(target, step) + TransferPages
      /\ ChunkStart(target, step) \in Int
  BY <1>1, StepAfter
<1>3. IsErase(target, step) \/ IsAddress(target, step) \/ IsData(target, step)
  BY DEF IsData
<1>4. IsData(target, step + 1) => dfu_address = Place(step + 1)
  BY <1>2, <1>3 DEF Done, Place
<1>5. ASSUME NEW k \in DOMAIN Image[target], k < ChunkStart(target, step + 1)
      PROVE  flash[BootEnd + k] = Image[target][k]
  <2>1. k \in Nat
    BY <1>1, ImageShape
  <2>2. CASE k < ChunkStart(target, step)
    BY <1>0, <2>2 DEF Before
  <2>3. CASE ~ (k < ChunkStart(target, step))
    <3>1. ~ IsErase(target, step + 1) \/ ChunkStart(target, step + 1) > 0
      BY <1>5, <2>1, <1>1, StepAfter
    <3>2. IsData(target, step)
      BY <1>2, <1>3, <1>5, <2>1, <2>3, <1>1, StepAfter
    <3>3. ~ IsErase(target, step)
      BY <3>2 DEF IsData
    <3>4. ChunkAsked(BootEnd + ChunkStart(target, step), Chunk(target, ChunkStart(target, step)))
      BY <3>2 DEF Done, Place
    <3>5. ChunkStart(target, step) <= k /\ k < ChunkStart(target, step) + TransferPages
      BY <1>2, <1>5, <2>1, <2>3, <3>2
    <3> QED BY <1>1, <3>3, <3>4, <3>5, AskedIsHeld
  <2> QED BY <2>2, <2>3
<1>6. Before'
  BY <1>5 DEF Before
<1> QED BY <1>4, <1>6

(* The end of a GETSTATUS: the reply is true of the device.                *)
LEMMA PollEnds ==
  ASSUME LinkInv, HostTransacts, ComesToEnd, IsPoll(asking)
  PROVE  GetsTo
<1> DEFINE got == answer[asking.tag]
           wrong == got.status # "OK"
                    \/ (phase = "sync" /\ BlockNumber(target, step) = 0 /\ got.state # "DNBUSY")
<1>0. /\ TypeOK /\ Kept /\ LinkTypes /\ Calls /\ Known /\ Script /\ Answered /\ Pointed
      /\ UP!Session
  BY DEF LinkInv, Machines, Together, UP!UsbInv
<1>1. /\ due = asks /\ transfer.token = "none" /\ Completed /\ UNCHANGED <<flash, target>>
      /\ stage = "status" /\ ~ handling /\ pc \notin Working
  BY Listening DEF ComesToEnd, HostTransacts, Bus, vars, flashVars
<1>2. asks = 0 /\ due = 0
  BY <1>0, <1>1 DEF Script, Carries, IsBlock, IsPoll
<1>3. phase \in {"open", "sync", "busy"}
  BY <1>0, <1>1, AskingKinds DEF LinkTypes, IsOther, IsBare, IsBlock, IsPoll
<1>4. UP!Heard
  BY <1>1 DEF UP!Heard, UP!Talking
<1>5. got.state = state /\ got.status = status
  BY <1>0, <1>4 DEF Answered
<1>6. ~ leaving
  BY <1>0, <1>4 DEF UP!Session, Calls, IsPoll
<1>7. ctrl_phase # "DATA_OUT"
  BY <1>4, TakingData
<1>8. Judge(got)
  BY <1>1 DEF Completed, IsPoll
<1>9. /\ target \in Versions /\ step \in Nat \ {0} /\ LastStep(target) \in Nat
      /\ step \in 1 .. LastStep(target) + 1
  BY <1>0, PartsOfImage DEF LinkTypes
<1>10. UNCHANGED step => Before'
  BY <1>1, BeforeStays DEF LinkNext
<1>11. CASE phase = "open"
  <2>1. phase' \in {"setup", "clear", "abort"} /\ UNCHANGED step /\ step = 1
    BY <1>0, <1>8, <1>11 DEF Judge, Script
  <2>2. ~ IsData(target, 1) /\ 1 <= LastStep(target)
    BY <1>9, NoData
  <2> QED BY <1>1, <1>2, <1>6, <1>7, <1>9, <1>10, <2>1, <2>2 DEF GetsTo, Phases
<1>12. CASE phase # "open" /\ wrong
  <2>1. phase' = "open" /\ step' = 1
    BY <1>8, <1>12 DEF Judge
  <2>2. Before'
    BY <1>1, <1>9, <2>1, BeforeAtStart
  <2> QED BY <1>1, <1>2, <1>6, <1>7, <1>9, <2>1, <2>2 DEF GetsTo, Phases
<1>13. CASE phase # "open" /\ ~ wrong /\ got.state \in {"DNLOAD_SYNC", "DNBUSY"}
  <2>1. phase' = "busy" /\ UNCHANGED step
    BY <1>8, <1>13 DEF Judge
  <2>2. step <= LastStep(target) /\ Done(step)
    BY <1>0, <1>3, <1>13 DEF Script, Pointed
  <2> QED BY <1>1, <1>2, <1>6, <1>7, <1>9, <1>10, <2>1, <2>2 DEF GetsTo, Phases
<1>14. CASE phase # "open" /\ ~ wrong /\ got.state \notin {"DNLOAD_SYNC", "DNBUSY"}
  <2>1. /\ step' = step + 1
        /\ phase' = IF step = LastStep(target) THEN "leave" ELSE "setup"
    BY <1>8, <1>14 DEF Judge
  <2>2. step <= LastStep(target) /\ Done(step)
    BY <1>0, <1>3, <1>14 DEF Script, Pointed
  <2>3. Holds(asked)
    <3>1. status = "OK"
      BY <1>5, <1>14
    <3>2. pc \in {"poll", "check"}
      BY <1>0, <1>1, <1>6 DEF TypeOK, Calls
    <3> QED BY <1>0, <3>1, <3>2 DEF Kept
  <2>4. /\ Before'
        /\ IsData(target, step + 1) => dfu_address = Place(step + 1)
    BY <1>1, <2>1, <2>2, <2>3, StepConfirmed
  <2>5. phase' = "setup" => step + 1 <= LastStep(target)
    BY <1>9, <2>1, <2>2
  <2>6. phase' \in {"leave", "setup"} /\ step' \in 1 .. LastStep(target) + 1
    BY <1>9, <2>1, <2>2
  <2>7. leaving => phase' \in {"open", "leave", "done"}
    BY <1>6
  <2> QED BY <1>1, <1>2, <1>6, <1>7, <2>1, <2>4, <2>5, <2>6 DEF GetsTo, Phases
<1> QED BY <1>11, <1>12, <1>13, <1>14

LEMMA EndsKeeps ==
  ASSUME LinkInv, HostTransacts, ComesToEnd
  PROVE  Together'
<1>1. Known /\ phase \in Phases /\ stage # "idle"
  BY DEF LinkInv, Together, LinkTypes, ComesToEnd
<1>2. IsOther(asking) \/ IsBare(asking) \/ IsBlock(asking) \/ IsPoll(asking)
  BY <1>1, AskingKinds
<1> QED BY <1>2, BareEnds, BlockEnds, PollEnds, GetsToKeeps

(***************************************************************************)
(* The invariant holds.                                                    *)
(***************************************************************************)
LEMMA NothingMoves ==
  ASSUME LinkInv, Machines', UNCHANGED linkVars
  PROVE  Together'
<1>0. LinkTypes /\ Calls /\ Known /\ Script /\ Answered /\ Pointed /\ OwnBlock /\ Before
  BY DEF LinkInv, Together
<1>1. /\ UNCHANGED <<ctrl_phase, ctrl_data_remaining, current, transfer, leaving, delivered,
                     stage, asking, handling, answer, due, target, phase, step, asks>>
      /\ UNCHANGED <<flash, state, status, dfu_address, dfu_block_num, pc, awaiting, wa, rx, asked>>
  BY DEF linkVars, vars, usbVars, scriptVars, flashVars
<1>2. LinkTypes'
  BY <1>0, <1>1 DEF LinkTypes
<1>3. Calls'
  BY <1>0, <1>1 DEF Calls, LastOut, U!AllReceived
<1>6. Known' /\ Script'
  <2>1. NextTransfer' = NextTransfer
    BY <1>1 DEF NextTransfer
  <2> QED BY <1>0, <1>1, <2>1 DEF Known, Script, Carries
<1>4. Answered'
  BY <1>0, <1>1 DEF Answered, UP!Heard, UP!Talking
<1>5. Pointed' /\ OwnBlock' /\ Before'
  BY <1>0, <1>1 DEF Pointed, Done, Place, ChunkAsked, OwnBlock, Before
<1> QED BY <1>2, <1>3, <1>4, <1>5, <1>6 DEF Together

LEMMA LinkInvInit == LinkInit => LinkInv
<1> SUFFICES ASSUME LinkInit PROVE LinkInv
  OBVIOUS
<1>1. /\ Init /\ U!Init /\ handling = FALSE /\ target \in Versions
      /\ answer = [g \in Tags |-> [state |-> "DFU_IDLE", status |-> "OK"]]
      /\ phase = "open" /\ step = 1 /\ asks = 0 /\ due = 0
  BY DEF LinkInit
<1>2. UP!UsbInv
  BY <1>1, SameStart, EndpointStarts
<1>3. TypeOK /\ Control /\ Kept
  BY <1>1, TypeInit, ControlInit, KeptInit
<1>4. pc = "poll" /\ state = "DFU_IDLE"
  BY <1>1 DEF Init
<1>5. /\ ctrl_phase = "IDLE" /\ transfer.token = "none" /\ stage = "idle" /\ ~ leaving
      /\ delivered = <<>>
  BY <1>1, SameStart DEF UP!Init, UP!NoEvent
<1>6. LinkTypes
  <2>1. answer \in [Tags -> [state : dfu_state, status : dfu_status]]
    BY <1>1 DEF dfu_state, dfu_status
  <2>2. 1 \in 1 .. LastStep(target) + 1 /\ 0 \in 0 .. LastStep(target)
    BY <1>1, PartsOfImage
  <2>3. handling \in BOOLEAN /\ "open" \in Phases
    BY <1>1 DEF Phases
  <2> QED BY <1>1, <2>1, <2>2, <2>3, Zenon DEF LinkTypes
<1>7. Calls
  BY <1>1, <1>4, <1>5 DEF Calls, Working, Ending
<1>8. Known /\ Script /\ Answered
  BY <1>1, <1>5 DEF Known, Script, Answered, UP!Heard, UP!Talking
<1>9. Pointed /\ OwnBlock
  BY <1>1, <1>4, <1>5 DEF Pointed, OwnBlock, Firmware
<1>10. Before
  <2>1. ChunkStart(target, 1) <= 0 /\ ChunkStart(target, 1) \in Int
    BY <1>1, StepAfter
  <2>2. \A k \in DOMAIN Image[target] : k \in Nat
    BY <1>1, ImageShape
  <2> QED BY <1>1, <2>1, <2>2 DEF Before
<1> QED BY <1>2, <1>3, <1>6, <1>7, <1>8, <1>9, <1>10 DEF LinkInv, Machines, Together

LEMMA LinkInvNext == LinkInv /\ [LinkNext]_linkVars => LinkInv'
<1> SUFFICES ASSUME LinkInv, [LinkNext]_linkVars PROVE LinkInv'
  OBVIOUS
<1>1. Machines'
  BY MachinesStay
<1>2. ASSUME Program PROVE Together'
  BY <1>1, <1>2, PollSetupKeeps, EnterHandlerKeeps, OtherPollKeeps, HandlerKeeps,
     LoopTestsKeeps, ChipResetKeeps DEF Program
<1>3. ASSUME HostTransacts PROVE Together'
  <2>1. SetupIsSent \/ GoesOn \/ ComesToEnd
    BY <1>3, Listening
  <2> QED BY <1>1, <1>3, <2>1, SetupSentKeeps, GoesOnKeeps, EndsKeeps
<1>4. Together'
  BY <1>1, <1>2, <1>3, HostBeginsKeeps, SessionFailsKeeps, NewSessionKeeps, NothingMoves
     DEF LinkNext
<1> QED BY <1>1, <1>4 DEF LinkInv

LEMMA LinkInvariant == LinkSpec => []LinkInv
BY LinkInvInit, LinkInvNext, PTL DEF LinkSpec

(* Every variable of the program, the bus and the host has its type; the   *)
(* data handler runs only for an OUT packet (usb.cpp:375-517).             *)
THEOREM LinkTypeCorrect == LinkSpec => []LinkTypeOK
<1>1. LinkInv => LinkTypeOK
  <2> SUFFICES ASSUME LinkInv PROVE LinkTypeOK
    OBVIOUS
  <2>1. TypeOK /\ LinkTypes /\ Calls /\ UP!UsbTypeOK
    BY DEF LinkInv, Machines, Together, UP!UsbInv, UP!UsbTypes
  <2>2. handling => transfer.token = "OUT"
    BY <2>1 DEF Calls, LastOut
  <2> QED BY <2>1, <2>2, SameTypes DEF LinkTypes, LinkTypeOK
<1> QED BY <1>1, LinkInvariant, PTL

(* Whenever usb.cpp waits for the data of a DNLOAD, dfu.cpp expects data,  *)
(* with the block number of that transfer; and the main loop is on its way *)
(* to a reset exactly when usb.cpp polls no more (usb.cpp:396-441,         *)
(* 496-508; dfu.cpp:80-100, 335-350).                                      *)
THEOREM ComponentsSupportEachOther == LinkSpec => []ComponentsAgree
<1>1. LinkInv => ComponentsAgree
  <2> SUFFICES ASSUME LinkInv PROVE ComponentsAgree
    OBVIOUS
  <2>1. Calls
    BY DEF LinkInv, Together
  <2>2. pc = "poll" => ~ handling
    BY <2>1 DEF Calls, Working
  <2> QED BY <2>1, <2>2 DEF Calls, ComponentsAgree, Ending
<1> QED BY <1>1, LinkInvariant, PTL

(* A status the host has got to the end of is still true of the device,    *)
(* whatever handshakes were lost on the way (dfu.cpp:113-139,              *)
(* usb.cpp:396-427).                                                       *)
THEOREM StatusStaysCurrent == LinkSpec => []StatusIsCurrent
<1>1. LinkInv => StatusIsCurrent
  <2> SUFFICES ASSUME LinkInv PROVE StatusIsCurrent
    OBVIOUS
  <2>1. Answered
    BY DEF LinkInv, Together
  <2> QED BY <2>1 DEF Answered, StatusIsCurrent, UP!Heard, UP!Talking, IsPoll
<1> QED BY <1>1, LinkInvariant, PTL

(* The list of chunks goes up in the image.                                *)
LEMMA ChunksAscend ==
  ASSUME NEW v \in Versions, NEW m \in Nat, NEW n \in Nat, m < n, IsData(v, m)
  PROVE  ChunkStart(v, m) + TransferPages <= ChunkStart(v, n)
<1>0. Erases(v) \in Nat /\ TransferPages \in Nat
  BY PartsOfImage, GeometryFacts
<1>1. ~ IsErase(v, m) /\ ~ IsErase(v, n)
  BY <1>0 DEF IsData, IsErase
<1>2. PICK j \in Nat : /\ ChunkStart(v, m) = j * TransferPages
                       /\ m = Erases(v) + 2 * j + 2
  BY <1>1, StepShape DEF IsData
<1>3. PICK k \in Nat : /\ ChunkStart(v, n) = k * TransferPages
                       /\ n \in {Erases(v) + 2 * k + 1, Erases(v) + 2 * k + 2}
  BY <1>1, StepShape
<1>4. j + 1 <= k
  BY <1>0, <1>2, <1>3
<1>5. (j + 1) * TransferPages <= k * TransferPages
  BY <1>0, <1>4, TimesMono
<1>6. (j + 1) * TransferPages = j * TransferPages + TransferPages
  BY <1>0
<1> QED BY <1>2, <1>3, <1>5, <1>6

(* A host that goes on was told the truth: every block it sent before is   *)
(* in the flash, though a lost handshake makes the device see a request    *)
(* twice and a host may give up on a data handler that is still running    *)
(* (dfu.cpp:113-139, 238-279; usb.cpp:375-517).                            *)
THEOREM ConfirmedStaysHeld == LinkSpec => []ConfirmedBlocksHeld
<1>1. LinkInv => ConfirmedBlocksHeld
  <2> SUFFICES ASSUME LinkInv, NEW m \in BlocksBefore(step) PROVE Held(m)
    BY DEF ConfirmedBlocksHeld
  <2>0. LinkTypes /\ Before
    BY DEF LinkInv, Together
  <2>1. target \in Versions /\ step \in Nat /\ step <= LastStep(target) + 1
        /\ LastStep(target) \in Nat
    BY <2>0, PartsOfImage DEF LinkTypes
  <2>2. m \in Nat /\ m < step /\ m <= LastStep(target) /\ IsData(target, m)
    BY <2>1 DEF BlocksBefore, IsData
  <2> DEFINE first == ChunkStart(target, m)
  <2>3. first + TransferPages <= ChunkStart(target, step)
    BY <2>1, <2>2, ChunksAscend
  <2>4. SUFFICES ASSUME NEW k \in DOMAIN Chunk(target, first)
                 PROVE  flash[BootEnd + first + k] = Image[target][first + k]
    BY DEF Held
  <2>5. /\ first \in Nat /\ k \in Nat /\ first + k \in DOMAIN Image[target]
        /\ Chunk(target, first) \in Blocks
    BY <2>1, <2>2, ChunkShape DEF IsData
  <2>6. k < TransferPages
    <3>1. PICK n \in 1 .. TransferPages : Chunk(target, first) \in [0 .. (n - 1) -> Data]
      BY <2>5 DEF Blocks
    <3>2. k \in 0 .. (n - 1)
      BY <3>1
    <3> QED BY <2>5, <3>1, <3>2, GeometryFacts
  <2>7. ChunkStart(target, step) \in Int
    BY <2>1, StepAfter
  <2> HIDE DEF first
  <2>8. first + k < ChunkStart(target, step)
    BY <2>3, <2>5, <2>6, <2>7, GeometryFacts
  <2>9. flash[BootEnd + (first + k)] = Image[target][first + k]
    BY <2>0, <2>5, <2>8 DEF Before
  <2> QED BY <2>5, <2>9, GeometryFacts
<1> QED BY <1>1, LinkInvariant, PTL

(* What dfu.cpp does in a session is what Dfu.tla says it does: the        *)
(* requests usb.cpp passes on and the data it hands over are among those   *)
(* the model of the machine alone allows for (usb.cpp:396-441, 484-511;    *)
(* dfu.cpp:80-279). So every theorem of DfuProofs holds of the whole.      *)
THEOREM SessionIsDfu == LinkSpec => Spec
<1>1. LinkInit => Init
  BY DEF LinkInit
<1>2. LinkInv /\ [LinkNext]_linkVars => [Next]_vars
  BY MachineMoves
<1> QED BY <1>1, <1>2, LinkInvariant, PTL DEF LinkSpec, Spec

(* The endpoint of a session is that of Usb.tla under these transfers: it  *)
(* calls the data handler as DnloadPipe says, and a host gets its own      *)
(* replies, with the DFU machine behind it (usb.cpp:375-517).              *)
THEOREM SessionIsUsb == LinkSpec => UP!Spec
<1>1. LinkInit => UP!Init
  BY SameStart DEF LinkInit
<1>2. [LinkNext]_linkVars => [UP!Next]_UP!vars
  BY EndpointMoves
<1> QED BY <1>1, <1>2, PTL DEF LinkSpec, UP!Spec

=============================================================================
