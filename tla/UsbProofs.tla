------------------------------ MODULE UsbProofs -----------------------------
(***************************************************************************)
(* Theorems about Usb.tla for every packet size, every receive buffer and  *)
(* every set of control transfers a host may start, with any number of     *)
(* lost handshakes, abandoned transfers and bus resets.                    *)
(***************************************************************************)
EXTENDS Usb, SequenceTheorems, TLAPS

(***************************************************************************)
(* Packets and what they are cut from.                                     *)
(***************************************************************************)
Byte == {0, 1} \X Nat

Start(data, n) == SubSeq(data, 1, n)

LEMMA BytesShape ==
  ASSUME NEW g \in {0, 1}, NEW n \in Nat
  PROVE  /\ Bytes(g, n) \in Seq(Byte)
         /\ Len(Bytes(g, n)) = n
         /\ \A k \in 1 .. n : Bytes(g, n)[k] = <<g, k>>
<1>1. Bytes(g, n) \in [1 .. n -> Byte]
  BY DEF Bytes, Byte
<1>2. Bytes(g, n) \in Seq(Byte)
  BY <1>1, SeqDef
<1>3. DOMAIN Bytes(g, n) = 1 .. n
  BY DEF Bytes
<1>4. Len(Bytes(g, n)) = n
  BY <1>2, <1>3, LenProperties
<1> QED BY <1>2, <1>4 DEF Bytes

LEMMA StartShape ==
  ASSUME NEW data \in Seq(Byte), NEW n \in 0 .. Len(data)
  PROVE  /\ Start(data, n) \in Seq(Byte)
         /\ Len(Start(data, n)) = n
         /\ \A k \in 1 .. n : Start(data, n)[k] = data[k]
<1>1. Len(data) \in Nat /\ \A k \in 1 .. n : data[k] \in Byte
  BY LenProperties
<1> QED BY <1>1, SubSeqProperties DEF Start

LEMMA PacketShape ==
  ASSUME NEW data \in Seq(Byte), NEW n \in Nat
  PROVE  /\ Packet(data, n) \in Seq(Byte)
         /\ Len(Packet(data, n)) \in 0 .. MaxPacket
         /\ n <= Len(data) => n + Len(Packet(data, n)) = Least(n + MaxPacket, Len(data))
         /\ \A k \in 1 .. Len(Packet(data, n)) : Packet(data, n)[k] = data[n + k]
<1> DEFINE last == Least(n + MaxPacket, Len(data))
<1>1. Len(data) \in Nat /\ \A k \in 1 .. Len(data) : data[k] \in Byte
  BY LenProperties
<1>2. last \in Nat /\ last <= Len(data) /\ last <= n + MaxPacket
  BY <1>1, PacketAssumption DEF Least
<1>3. \A k \in (n + 1) .. last : data[k] \in Byte
  BY <1>1, <1>2
<1>4. /\ Packet(data, n) \in Seq(Byte)
      /\ Len(Packet(data, n)) = IF n + 1 <= last THEN last - n ELSE 0
      /\ \A k \in 1 .. (last - n) : Packet(data, n)[k] = data[n + k]
  <2>1. n + 1 \in Int /\ last \in Int /\ last - (n + 1) + 1 = last - n
        /\ \A k \in 1 .. (last - n) : n + 1 + k - 1 = n + k
    BY <1>2
  <2> HIDE DEF last
  <2>2. /\ SubSeq(data, n + 1, last) \in Seq(Byte)
        /\ Len(SubSeq(data, n + 1, last)) = IF n + 1 <= last THEN last - (n + 1) + 1 ELSE 0
        /\ \A k \in 1 .. (last - (n + 1) + 1) :
              SubSeq(data, n + 1, last)[k] = data[n + 1 + k - 1]
    BY <1>3, <2>1, SubSeqProperties
  <2>3. Packet(data, n) = SubSeq(data, n + 1, last)
    BY DEF Packet, last
  <2> QED BY <1>2, <2>1, <2>2, <2>3
<1>5. n <= Len(data) => n <= last
  BY <1>1, PacketAssumption DEF Least
<1> HIDE DEF last
<1>6. last - n <= MaxPacket
  BY <1>2, PacketAssumption
<1> QED BY <1>2, <1>4, <1>5, <1>6, PacketAssumption DEF last

LEMMA Joined ==
  ASSUME NEW s \in Seq(Byte), NEW t \in Seq(Byte)
  PROVE  LET both == s \o t
         IN /\ both \in Seq(Byte)
            /\ Len(both) = Len(s) + Len(t)
            /\ \A k \in 1 .. Len(both) : both[k] = IF k <= Len(s) THEN s[k] ELSE t[k - Len(s)]
            /\ \A k \in 1 .. Len(s) : both[k] = s[k]
<1>1. /\ s \o t \in Seq(Byte)
      /\ Len(s \o t) = Len(s) + Len(t)
      /\ \A k \in 1 .. Len(s) + Len(t) :
            (s \o t)[k] = IF k <= Len(s) THEN s[k] ELSE t[k - Len(s)]
  BY ConcatProperties, Zenon
<1>2. Len(s) \in Nat /\ Len(t) \in Nat
  BY LenProperties
<1> DEFINE both == s \o t
<1>3. /\ both \in Seq(Byte)
      /\ Len(both) = Len(s) + Len(t)
      /\ \A k \in 1 .. Len(s) + Len(t) : both[k] = IF k <= Len(s) THEN s[k] ELSE t[k - Len(s)]
  BY <1>1
<1> HIDE DEF both
<1>4. \A k \in 1 .. Len(s) : both[k] = s[k]
  BY <1>2, <1>3
<1>5. \A k \in 1 .. Len(both) : both[k] = IF k <= Len(s) THEN s[k] ELSE t[k - Len(s)]
  BY <1>3
<1> QED BY <1>3, <1>4, <1>5 DEF both

(* A packet continues what was sent before it.                             *)
LEMMA PacketContinues ==
  ASSUME NEW data \in Seq(Byte), NEW n \in 0 .. Len(data)
  PROVE  /\ Start(data, n) \o Packet(data, n) = Start(data, Least(n + MaxPacket, Len(data)))
         /\ Start(data, n) \o Packet(data, n) \in Seq(Byte)
         /\ Len(Start(data, n) \o Packet(data, n)) = n + Len(Packet(data, n))
<1> DEFINE last == Least(n + MaxPacket, Len(data))
           both == Start(data, n) \o Packet(data, n)
<1>1. n \in Nat /\ Len(data) \in Nat /\ last \in 0 .. Len(data) /\ n <= last
  BY LenProperties, PacketAssumption DEF Least
<1>2. /\ Start(data, n) \in Seq(Byte) /\ Len(Start(data, n)) = n
      /\ \A k \in 1 .. n : Start(data, n)[k] = data[k]
  BY StartShape
<1>3. /\ Packet(data, n) \in Seq(Byte) /\ n + Len(Packet(data, n)) = last
      /\ Len(Packet(data, n)) \in Nat
      /\ \A k \in 1 .. Len(Packet(data, n)) : Packet(data, n)[k] = data[n + k]
  BY <1>1, PacketShape
<1>4. /\ Start(data, last) \in Seq(Byte) /\ Len(Start(data, last)) = last
      /\ \A k \in 1 .. last : Start(data, last)[k] = data[k]
  BY <1>1, StartShape
<1> HIDE DEF last
<1>5. /\ both \in Seq(Byte) /\ Len(both) = last
      /\ \A k \in 1 .. last : both[k] = IF k <= n THEN Start(data, n)[k]
                                        ELSE Packet(data, n)[k - n]
  <2> DEFINE s == Start(data, n)
             t == Packet(data, n)
  <2>1. s \in Seq(Byte) /\ t \in Seq(Byte)
    BY <1>2, <1>3
  <2> HIDE DEF s, t
  <2>2. /\ s \o t \in Seq(Byte) /\ Len(s \o t) = Len(s) + Len(t)
        /\ \A k \in 1 .. Len(s \o t) :
              (s \o t)[k] = IF k <= Len(s) THEN s[k] ELSE t[k - Len(s)]
    BY <2>1, Joined, Zenon
  <2>3. both = s \o t
    BY DEF s, t
  <2> HIDE DEF both
  <2>4. /\ both \in Seq(Byte) /\ Len(both) = Len(s) + Len(t)
        /\ \A k \in 1 .. Len(both) : both[k] = IF k <= Len(s) THEN s[k] ELSE t[k - Len(s)]
    BY <2>2, <2>3, Zenon
  <2>5. Len(s) = n /\ Len(both) = last
    BY <1>2, <1>3, <2>4 DEF s, t
  <2>6. \A k \in 1 .. last : both[k] = IF k <= n THEN s[k] ELSE t[k - n]
    BY <2>4, <2>5, Zenon
  <2> QED BY <2>4, <2>5, <2>6, Zenon DEF s, t
<1> HIDE DEF both
<1>6. \A k \in 1 .. last : both[k] = data[k]
  <2> SUFFICES ASSUME NEW k \in 1 .. last PROVE both[k] = data[k]
    OBVIOUS
  <2>1. CASE k <= n
    <3>1. k \in 1 .. n
      BY <2>1, <1>1
    <3> QED BY <1>2, <1>5, <2>1, <3>1
  <2>2. CASE ~ k <= n
    <3>1. k - n \in 1 .. Len(Packet(data, n)) /\ n + (k - n) = k
      BY <1>1, <1>3, <2>2
    <3> QED BY <1>3, <1>5, <2>2, <3>1
  <2> QED BY <2>1, <2>2
<1>7. \A k \in 1 .. Len(both) : both[k] = Start(data, last)[k]
  BY <1>4, <1>5, <1>6
<1>8. both = Start(data, last)
  BY <1>4, <1>5, <1>7, SeqEqual
<1> QED BY <1>3, <1>5, <1>8 DEF last, both

LEMMA StartWhole ==
  ASSUME NEW data \in Seq(Byte)
  PROVE  Start(data, Len(data)) = data
BY SubSeqFull DEF Start

(* The DMA buffer begins with the packet put into it.                      *)
LEMMA OverlayShape ==
  ASSUME NEW data \in Seq(Byte), ep0_buffer \in Seq(Byte)
  PROVE  /\ Overlay(data) \in Seq(Byte)
         /\ Len(data) <= Len(Overlay(data))
         /\ Len(ep0_buffer) <= Len(Overlay(data))
         /\ Start(Overlay(data), Len(data)) = data
<1> DEFINE tail == SubSeq(ep0_buffer, Len(data) + 1, Len(ep0_buffer))
<1>1. /\ Len(data) \in Nat /\ Len(ep0_buffer) \in Nat
      /\ \A k \in (Len(data) + 1) .. Len(ep0_buffer) : ep0_buffer[k] \in Byte
  BY LenProperties
<1>2. /\ tail \in Seq(Byte)
      /\ Len(tail) = IF Len(data) + 1 <= Len(ep0_buffer)
                     THEN Len(ep0_buffer) - (Len(data) + 1) + 1 ELSE 0
  BY <1>1, SubSeqProperties
<1>3. Overlay(data) = data \o tail
  BY DEF Overlay
<1> HIDE DEF tail
<1>4. /\ Overlay(data) \in Seq(Byte) /\ Len(Overlay(data)) = Len(data) + Len(tail)
      /\ \A k \in 1 .. Len(data) : Overlay(data)[k] = data[k]
  <2> DEFINE both == data \o tail
  <2>1. /\ both \in Seq(Byte) /\ Len(both) = Len(data) + Len(tail)
        /\ \A k \in 1 .. Len(data) : both[k] = data[k]
    BY <1>2, Joined, Zenon
  <2> QED BY <1>3, <2>1, Zenon
<1>5. Len(data) \in 0 .. Len(Overlay(data)) /\ Len(ep0_buffer) <= Len(Overlay(data))
  BY <1>1, <1>2, <1>4
<1>6. /\ Start(Overlay(data), Len(data)) \in Seq(Byte)
      /\ Len(Start(Overlay(data), Len(data))) = Len(data)
      /\ \A k \in 1 .. Len(data) : Start(Overlay(data), Len(data))[k] = data[k]
  BY <1>4, <1>5, StartShape
<1>7. Start(Overlay(data), Len(data)) = data
  BY <1>6, SeqEqual
<1> QED BY <1>4, <1>5, <1>7

(* The first packet of what is left is the packet that comes next.         *)
LEMMA RestContinues ==
  ASSUME ctrl_data \in Seq(Byte), NEW left \in 1 .. Len(ctrl_data)
  PROVE  /\ Rest(left) \in Seq(Byte)
         /\ Packet(Rest(left), 0) = Packet(ctrl_data, Len(ctrl_data) - left)
<1> DEFINE n == Len(ctrl_data) - left
<1>1. Len(ctrl_data) \in Nat /\ left \in Nat /\ n \in Nat /\ n <= Len(ctrl_data)
      /\ \A k \in (n + 1) .. Len(ctrl_data) : ctrl_data[k] \in Byte
  BY LenProperties
<1>2. /\ Rest(left) \in Seq(Byte) /\ Len(Rest(left)) = left
      /\ \A k \in 1 .. left : Rest(left)[k] = ctrl_data[n + k]
  <2>1. /\ SubSeq(ctrl_data, n + 1, Len(ctrl_data)) \in Seq(Byte)
        /\ Len(SubSeq(ctrl_data, n + 1, Len(ctrl_data)))
              = IF n + 1 <= Len(ctrl_data) THEN Len(ctrl_data) - (n + 1) + 1 ELSE 0
        /\ \A k \in 1 .. (Len(ctrl_data) - (n + 1) + 1) :
              SubSeq(ctrl_data, n + 1, Len(ctrl_data))[k] = ctrl_data[n + 1 + k - 1]
    BY <1>1, SubSeqProperties
  <2>2. /\ n + 1 <= Len(ctrl_data) /\ Len(ctrl_data) - (n + 1) + 1 = left
        /\ \A k \in 1 .. left : n + 1 + k - 1 = n + k
    BY <1>1
  <2>3. Rest(left) = SubSeq(ctrl_data, n + 1, Len(ctrl_data))
    BY DEF Rest
  <2> HIDE DEF n
  <2> QED BY <2>1, <2>2, <2>3
<1> DEFINE p == Packet(Rest(left), 0)
           q == Packet(ctrl_data, n)
<1>3. /\ p \in Seq(Byte) /\ 0 + Len(p) = Least(0 + MaxPacket, left)
      /\ \A k \in 1 .. Len(p) : p[k] = Rest(left)[0 + k]
      /\ Len(p) \in Nat
  <2> DEFINE rest == Rest(left)
  <2>1. rest \in Seq(Byte) /\ 0 \in Nat /\ 0 <= Len(rest) /\ Len(rest) = left
    BY <1>1, <1>2
  <2> HIDE DEF rest
  <2>2. /\ Packet(rest, 0) \in Seq(Byte) /\ 0 + Len(Packet(rest, 0)) = Least(0 + MaxPacket, left)
        /\ \A k \in 1 .. Len(Packet(rest, 0)) : Packet(rest, 0)[k] = rest[0 + k]
        /\ Len(Packet(rest, 0)) \in 0 .. MaxPacket
    BY <2>1, PacketShape
  <2>3. Len(Packet(rest, 0)) \in Nat
    BY <2>2, PacketAssumption
  <2> QED BY <2>2, <2>3 DEF rest
<1>4. /\ q \in Seq(Byte) /\ n + Len(q) = Least(n + MaxPacket, Len(ctrl_data))
      /\ \A k \in 1 .. Len(q) : q[k] = ctrl_data[n + k]
      /\ Len(q) \in Nat
  <2> HIDE DEF n
  <2> QED BY <1>1, PacketShape
<1>5. left = Len(ctrl_data) - n
  BY <1>1
<1> HIDE DEF n, p, q
<1>6. Len(p) = Len(q) /\ Len(p) <= left
  BY <1>1, <1>3, <1>4, <1>5, PacketAssumption DEF Least
<1>7. \A k \in 1 .. Len(p) : p[k] = q[k]
  <2> SUFFICES ASSUME NEW k \in 1 .. Len(p) PROVE p[k] = q[k]
    OBVIOUS
  <2>1. k \in 1 .. left /\ 0 + k = k /\ k \in 1 .. Len(q)
    BY <1>1, <1>3, <1>6
  <2> QED BY <1>2, <1>3, <1>4, <2>1
<1>8. p = q
  BY <1>3, <1>4, <1>6, <1>7, SeqEqual
<1> QED BY <1>2, <1>8 DEF p, q, n

(***************************************************************************)
(* The inductive invariant.                                                *)
(***************************************************************************)

Tokens == {"none", "SETUP", "IN", "OUT"}

Requests ==
  {r \in [class : BOOLEAN, bRequest : Int, in : BOOLEAN, wLength : 0 .. (Words - 1),
          reply : Nat, value : Nat, tag : {0, 1}] :
     /\ ~ r.in => r.wLength <= BufferSize /\ r.reply = 0
     /\ r.wLength = 0 => ~ r.in
     /\ SetsAddress(r) => r.wLength = 0 /\ r.value \in 1 .. (Addresses - 1)}

UsbTypes ==
  /\ UsbTypeOK
  /\ ctrl_data \in Seq(Byte) /\ dfu_rx \in Seq(Byte) /\ ep0_buffer \in Seq(Byte)
  /\ received \in Seq(Byte) /\ delivered \in Seq(Byte)
  /\ current \in Requests /\ asking \in Requests
  /\ transfer \in [token : Tokens, len : 0 .. MaxPacket, packet : Requests]
  /\ transfer.token = "OUT" => transfer.len <= Len(ep0_buffer)

(* Which of the two knows the new address, and which requests may be under *)
(* way on which.                                                           *)
Addressing ==
  /\ address # 0 => usb_dev_addr = address
  /\ bus_rst => address = 0
  /\ asking.class => address # 0
  /\ SetsAddress(asking) => address = 0
  /\ transfer.token = "SETUP" =>
       /\ transfer.packet.class => address # 0 \/ bus_rst
       /\ SetsAddress(transfer.packet) => address = 0
  /\ ctrl_phase # "IDLE" /\ current.class => address # 0 \/ bus_rst
  /\ transfer.token \in {"SETUP", "OUT"} /\ ~ bus_rst => DEV_ADDR = address
  /\ transfer.token = "IN" /\ ctrl_phase = "STATUS" /\ SetsAddress(current) /\ ~ bus_rst
       => address # 0
  /\ ctrl_phase = "STATUS" /\ SetsAddress(current) => usb_dev_addr = current.value
  /\ AddressAgrees

Talking == stage \in {"data", "status"}

(* The device has seen the SETUP of the transfer the host is in.           *)
Heard == Talking /\ transfer.token # "SETUP"

Session ==
  /\ stage = "setup" => expected /\ received = <<>>
  /\ Talking => ~ bus_rst
  /\ Talking /\ transfer.token = "SETUP" =>
       /\ transfer.packet = asking /\ expected /\ received = <<>>
       /\ stage = "status" => asking.wLength = 0
  /\ Heard => current = asking
  /\ Talking /\ transfer.token = "IN" => asking.in
  /\ stage = "data" => asking.wLength > 0
  /\ Heard /\ asking.wLength = 0 => ctrl_phase = "STATUS"
  /\ ctrl_phase = "STATUS" => tx.len = 0
  /\ ctrl_phase = "DATA_OUT" => ~ current.in /\ current.wLength > 0

(* The answer of a request, the part of it that was sent, and the packet   *)
(* that is being sent.                                                     *)
Reply(r) == SubSeq(Answer(r), 1, Least(r.reply, r.wLength))

Done == Len(ctrl_data) - ctrl_data_remaining

SendsReply ==
  ctrl_phase = "DATA_IN" =>
    /\ current.in /\ ctrl_data = Reply(current)
    /\ Done \in 0 .. Len(ctrl_data)
    /\ tx.ack /\ ep0_tog = ~ tx.tog
    /\ tx.len = Len(Packet(ctrl_data, Done))
    /\ transfer.token # "SETUP" => Start(ep0_buffer, tx.len) = Packet(ctrl_data, Done)

(* The host has not seen the packet; it has; there is none left.           *)
Fresh ==
  /\ ctrl_phase = "DATA_IN" /\ transfer.token = "none" /\ stage = "data"
  /\ tx.tog = expected
  /\ received = Start(ctrl_data, Done)

Seen ==
  /\ ctrl_phase = "DATA_IN" /\ tx.tog # expected
  /\ received = Start(ctrl_data, Done) \o Packet(ctrl_data, Done)

Over == ctrl_phase = "IDLE" /\ tx.tog # expected /\ received = Reply(asking)

ReadsReply ==
  Heard /\ asking.in =>
    /\ Fresh \/ Seen \/ Over
    /\ stage = "status" => received = Reply(asking)

(* The block of an OUT transfer, as far as the bus does not repeat packets.*)
Block(r) == Bytes(r.tag, r.wLength)

NextPacket == Packet(Block(current), Len(dfu_rx))

Filling ==
  ctrl_phase = "DATA_OUT" =>
    /\ Len(dfu_rx) < current.wLength
    /\ ctrl_data_remaining = current.wLength - Len(dfu_rx)
    /\ dfu_rx = Start(Block(current), Len(dfu_rx))
    /\ transfer.token = "OUT" =>
         transfer.len = Len(NextPacket) /\ Start(ep0_buffer, transfer.len) = NextPacket

SendsBlock ==
  Heard /\ ~ asking.in /\ asking.wLength > 0 =>
    \/ /\ ctrl_phase = "DATA_OUT" /\ transfer.token = "none" /\ stage = "data"
       /\ received = dfu_rx
    \/ /\ ctrl_phase = "DATA_OUT" /\ transfer.token = "OUT"
       /\ received = dfu_rx \o NextPacket
       /\ stage = "status" <=> Len(received) = asking.wLength
    \/ /\ ctrl_phase = "IDLE" /\ transfer.token = "none" /\ stage = "status"
       /\ tx.len = 0
       /\ asking.bRequest = DFU_DNLOAD => delivered = Block(asking)

WholeBlocks == BlockWhole /\ Filling /\ SendsBlock

NoneRepeated == "out" \notin Losses

UsbInv ==
  /\ UsbTypes /\ Addressing /\ Session /\ SendsReply /\ ReadsReply
  /\ NoneRepeated => WholeBlocks

(***************************************************************************)
(* What the steps do.                                                      *)
(***************************************************************************)
Handles(token) ==
  /\ ~ leaving
  /\ transfer.token = token /\ transfer' = NoEvent
  /\ UNCHANGED <<bus_rst, stage, asking, expected, received, address, faults>>

OnSetup == Handles("SETUP") /\ HandleSetup(transfer.packet)
OnIn    == Handles("IN") /\ HandleIn
OnOut   == Handles("OUT") /\ HandleOut

OnReset ==
  /\ transfer.token = "none" /\ bus_rst /\ HandleBusReset
  /\ UNCHANGED <<stage, asking, expected, received, address, faults>>

LEMMA PollCases ==
  ASSUME do_usb_poll PROVE OnSetup \/ OnIn \/ OnOut \/ OnReset
BY DEF do_usb_poll, OnSetup, OnIn, OnOut, OnReset, Handles, hostVars

LEMMA Widths == Words \in Nat \ {0} /\ Addresses \in Nat \ {0, 1}
BY DEF Words, Addresses

LEMMA WordRange ==
  ASSUME NEW a \in Int
  PROVE  a % Words \in 0 .. (Words - 1) /\ (a \in 0 .. (Words - 1) => a % Words = a)
<1>1. a % Words \in Int /\ 0 <= a % Words /\ a % Words < Words
  BY DEF Words
<1>2. 0 <= a /\ a < Words => a % Words = a
  BY DEF Words
<1> QED BY <1>1, <1>2, Widths

LEMMA AddressRange ==
  ASSUME NEW a \in Nat
  PROVE  a % Addresses \in 0 .. (Addresses - 1) /\ (a < Addresses => a % Addresses = a)
<1>1. a % Addresses \in Int /\ 0 <= a % Addresses /\ a % Addresses < Addresses
  BY DEF Addresses
<1>2. a < Addresses => a % Addresses = a
  BY DEF Addresses
<1> QED BY <1>1, <1>2, Widths

LEMMA NoRequestShape ==
  ASSUME NEW g \in {0, 1}
  PROVE  /\ NoRequest \in Requests
         /\ LET r == [NoRequest EXCEPT !.tag = g]
            IN /\ r \in Requests /\ r.class = FALSE /\ r.in = FALSE /\ r.tag = g
               /\ r.wLength = 0 /\ ~ SetsAddress(r)
<1> DEFINE r == [NoRequest EXCEPT !.tag = g]
           all == [class : BOOLEAN, bRequest : Int, in : BOOLEAN, wLength : 0 .. (Words - 1),
                   reply : Nat, value : Nat, tag : {0, 1}]
<1>1. 0 \in 0 .. (Words - 1) /\ 0 <= BufferSize /\ -1 # USB_REQ_SET_ADDRESS /\ -1 \in Int
  BY PacketAssumption, Widths DEF USB_REQ_SET_ADDRESS
<1>2. NoRequest \in all /\ r \in all
  BY <1>1 DEF NoRequest
<1>3. /\ NoRequest.class = FALSE /\ NoRequest.in = FALSE /\ NoRequest.tag = 0
      /\ NoRequest.wLength = 0 /\ NoRequest.reply = 0 /\ NoRequest.bRequest = -1
  BY DEF NoRequest
<1>4. /\ r.class = FALSE /\ r.in = FALSE /\ r.tag = g
      /\ r.wLength = 0 /\ r.reply = 0 /\ r.bRequest = -1
  BY <1>2, <1>3, Zenon DEF NoRequest
<1> HIDE DEF r
<1>5. NoRequest \in Requests /\ r \in Requests /\ ~ SetsAddress(r)
  BY <1>1, <1>2, <1>3, <1>4 DEF Requests, SetsAddress
<1> QED BY <1>4, <1>5 DEF r

LEMMA NoEventShape ==
  /\ NoEvent \in [token : Tokens, len : 0 .. MaxPacket, packet : Requests]
  /\ NoEvent.token = "none" /\ NoEvent.len = 0
BY NoRequestShape, PacketAssumption DEF NoEvent, Tokens

LEMMA ReplyShape ==
  ASSUME NEW r \in Requests
  PROVE  /\ Answer(r) \in Seq(Byte)
         /\ Reply(r) \in Seq(Byte) /\ Len(Reply(r)) <= r.wLength
         /\ Len(Reply(r)) \in 0 .. (Words - 1)
<1>1. r.tag \in {0, 1} /\ r.reply \in Nat /\ r.wLength \in 0 .. (Words - 1)
  BY DEF Requests
<1>2. Answer(r) \in Seq(Byte) /\ Len(Answer(r)) = r.reply
  BY <1>1, BytesShape DEF Answer
<1>3. Least(r.reply, r.wLength) \in 0 .. r.reply /\ Least(r.reply, r.wLength) <= r.wLength
  BY <1>1, Widths DEF Least
<1>4. /\ Start(Answer(r), Least(r.reply, r.wLength)) \in Seq(Byte)
      /\ Len(Start(Answer(r), Least(r.reply, r.wLength))) = Least(r.reply, r.wLength)
  BY <1>2, <1>3, StartShape
<1>5. Reply(r) = Start(Answer(r), Least(r.reply, r.wLength))
  BY DEF Reply, Start
<1> QED BY <1>1, <1>2, <1>3, <1>4, <1>5, Widths

LEMMA EmptyPacket ==
  /\ <<>> \in Seq(Byte) /\ Len(<<>>) = 0
  /\ Packet(<<>>, 0) \in Seq(Byte) /\ Len(Packet(<<>>, 0)) = 0
<1>1. <<>> \in Seq(Byte) /\ Len(<<>>) = 0
  BY EmptySeq
<1> DEFINE e == <<>>
<1>2. e \in Seq(Byte) /\ Len(e) = 0 /\ 0 \in Nat /\ 0 <= Len(e)
  BY <1>1
<1> HIDE DEF e
<1>3. /\ Packet(e, 0) \in Seq(Byte)
      /\ Len(Packet(e, 0)) \in 0 .. MaxPacket
      /\ 0 + Len(Packet(e, 0)) = Least(0 + MaxPacket, Len(e))
  BY <1>2, PacketShape
<1>4. Len(Packet(e, 0)) = 0
  BY <1>2, <1>3, PacketAssumption DEF Least
<1> QED BY <1>1, <1>3, <1>4 DEF e

LEMMA SendEffect ==
  ASSUME NEW data \in Seq(Byte), NEW tog \in BOOLEAN, ep0_buffer \in Seq(Byte),
         ep0_send(data, tog)
  PROVE  /\ ep0_buffer' \in Seq(Byte)
         /\ tx' = [ack |-> TRUE, tog |-> tog, len |-> Len(Packet(data, 0))]
         /\ tx' \in [ack : BOOLEAN, tog : BOOLEAN, len : 0 .. MaxPacket]
         /\ Start(ep0_buffer', tx'.len) = Packet(data, 0)
         /\ tx'.len <= Len(ep0_buffer')
         /\ ep0_tog' = ~ tog
<1>1. Packet(data, 0) \in Seq(Byte) /\ Len(Packet(data, 0)) \in 0 .. MaxPacket
  BY PacketShape
<1>2. /\ ep0_buffer' = Overlay(Packet(data, 0))
      /\ tx' = [ack |-> TRUE, tog |-> tog, len |-> Len(Packet(data, 0))]
      /\ ep0_tog' = ~ tog
  BY DEF ep0_send
<1>3. /\ Overlay(Packet(data, 0)) \in Seq(Byte)
      /\ Len(Packet(data, 0)) <= Len(Overlay(Packet(data, 0)))
      /\ Start(Overlay(Packet(data, 0)), Len(Packet(data, 0))) = Packet(data, 0)
  BY <1>1, OverlayShape
<1>4. tx'.len = Len(Packet(data, 0))
  BY <1>2
<1> QED BY <1>1, <1>2, <1>3, <1>4

LEMMA SendEmpty ==
  ASSUME NEW tog \in BOOLEAN, ep0_buffer \in Seq(Byte), ep0_send(<<>>, tog)
  PROVE  tx'.ack /\ tx'.len = 0 /\ tx'.tog = tog
<1> DEFINE e == <<>>
<1>1. e \in Seq(Byte) /\ ep0_send(e, tog) /\ Len(Packet(e, 0)) = 0
  BY EmptyPacket
<1> HIDE DEF e
<1>2. tx' = [ack |-> TRUE, tog |-> tog, len |-> Len(Packet(e, 0))]
  BY <1>1, SendEffect
<1> QED BY <1>1, <1>2

(* A SETUP packet leads to one of three phases, by direction and length.   *)
ToDataOut(r) ==
  /\ ~ r.in /\ r.wLength > 0
  /\ ctrl_phase' = "DATA_OUT" /\ ctrl_data_remaining' = r.wLength /\ dfu_rx' = <<>>
  /\ tx' = [tx EXCEPT !.ack = FALSE] /\ ep0_tog' = TRUE
  /\ UNCHANGED <<ctrl_data, ep0_buffer>>

ToStatus(r) ==
  /\ ~ r.in /\ r.wLength = 0
  /\ ctrl_phase' = "STATUS"
  /\ ep0_send(<<>>, TRUE)
  /\ UNCHANGED <<ctrl_data, ctrl_data_remaining, dfu_rx>>

ToDataIn(r) ==
  /\ r.in /\ r.wLength > 0
  /\ ctrl_phase' = "DATA_IN"
  /\ ctrl_data' = Reply(r) /\ ctrl_data_remaining' = Len(Reply(r))
  /\ ep0_send(Reply(r), TRUE)
  /\ UNCHANGED dfu_rx

LEMMA SetupEffect ==
  ASSUME UsbTypes, OnSetup
  PROVE  LET r == transfer.packet
         IN /\ r \in Requests /\ current' = r /\ delivered' = <<>>
            /\ UNCHANGED DEV_ADDR
            /\ RouteRequest(r)
            /\ ToDataOut(r) \/ ToStatus(r) \/ ToDataIn(r)
<1> DEFINE r == transfer.packet
<1>1. r \in Requests
  BY DEF UsbTypes
<1>2. /\ r.wLength \in Nat /\ r.reply \in Nat
      /\ ~ r.in => r.reply = 0
      /\ r.wLength = 0 => ~ r.in
  BY <1>1 DEF Requests
<1>3. HandleSetup(r)
  BY DEF OnSetup
<1> HIDE DEF r
<1>4. current' = r /\ delivered' = <<>> /\ UNCHANGED DEV_ADDR /\ RouteRequest(r)
  BY <1>3 DEF HandleSetup
<1>5. ToDataOut(r) \/ ToStatus(r) \/ ToDataIn(r)
  <2> DEFINE data == IF r.wLength = 0 THEN Answer(r) ELSE Reply(r)
  <2>1. \/ /\ r.wLength > 0 /\ ~ r.in
           /\ ctrl_phase' = "DATA_OUT"
           /\ ctrl_data_remaining' = r.wLength
           /\ dfu_rx' = <<>>
           /\ tx' = [tx EXCEPT !.ack = FALSE]
           /\ ep0_tog' = TRUE
           /\ UNCHANGED <<ctrl_data, ep0_buffer>>
        \/ /\ r.wLength = 0 /\ r.reply = 0
           /\ ctrl_phase' = "STATUS"
           /\ ep0_send(<<>>, TRUE)
           /\ UNCHANGED <<ctrl_data, ctrl_data_remaining, dfu_rx>>
        \/ /\ r.in \/ (r.wLength = 0 /\ r.reply > 0)
           /\ ctrl_phase' = "DATA_IN"
           /\ ctrl_data' = data
           /\ ctrl_data_remaining' = Len(data)
           /\ ep0_send(data, TRUE)
           /\ UNCHANGED dfu_rx
    BY <1>3, Zenon DEF HandleSetup, RewindRx, Reply
  <2>2. r.in => data = Reply(r) /\ r.wLength > 0
    BY <1>2
  <2>3. r.wLength = 0 => ~ r.in /\ r.reply = 0
    BY <1>2
  <2>4. ~ (r.wLength = 0 /\ r.reply > 0)
    BY <1>2, <2>3
  <2> HIDE DEF data
  <2> QED BY <2>1, <2>2, <2>3, <2>4, Zenon DEF ToDataOut, ToStatus, ToDataIn
<1> QED BY <1>1, <1>4, <1>5 DEF r

(* A packet was taken by the host: the next one, the end, or nothing.      *)
Left == ctrl_data_remaining - Least(ctrl_data_remaining, MaxPacket)

SendsOn ==
  /\ ctrl_phase = "DATA_IN" /\ Left > 0
  /\ ctrl_data_remaining' = Left
  /\ ep0_send(Rest(Left), ep0_tog)
  /\ UNCHANGED <<ctrl_phase, DEV_ADDR>>

SentAll ==
  /\ \/ ctrl_phase = "DATA_IN" /\ ctrl_data_remaining > 0 /\ Left = 0
        /\ ctrl_data_remaining' = 0
     \/ ctrl_phase = "STATUS" /\ UNCHANGED ctrl_data_remaining
  /\ ctrl_phase' = "IDLE"
  /\ ApplyAddress
  /\ UNCHANGED <<ep0_buffer, tx, ep0_tog>>

Ignored ==
  /\ \/ ctrl_phase \in {"IDLE", "DATA_OUT"}
     \/ ctrl_phase = "DATA_IN" /\ ctrl_data_remaining = 0
  /\ UNCHANGED <<ctrl_phase, ctrl_data_remaining, ep0_buffer, tx, ep0_tog, DEV_ADDR>>

LEMMA InEffect ==
  ASSUME UsbTypes, OnIn
  PROVE  /\ UNCHANGED <<ctrl_data, dfu_rx, usb_dev_addr, current, leaving, delivered>>
         /\ SendsOn \/ SentAll \/ Ignored
         /\ Left \in 0 .. ctrl_data_remaining
<1>1. ctrl_data_remaining \in 0 .. (Words - 1)
  BY DEF UsbTypes, UsbTypeOK
<1>2. Left \in 0 .. ctrl_data_remaining
  BY <1>1, PacketAssumption DEF Left, Least
<1>3. SendsOn \/ SentAll \/ Ignored
  BY <1>1, <1>2 DEF OnIn, HandleIn, SendsOn, SentAll, Ignored, Left
<1> QED BY <1>2, <1>3 DEF OnIn, HandleIn

(* A packet came: it is taken for the block, or there is none under way.   *)
Taken ==
  LET data == SubSeq(ep0_buffer, 1, transfer.len)
  IN IF Len(dfu_rx) + transfer.len <= BufferSize THEN dfu_rx \o data ELSE dfu_rx

Missing == (ctrl_data_remaining - transfer.len) % Words

TakesPacket ==
  /\ ctrl_phase = "DATA_OUT"
  /\ dfu_rx' = Taken /\ ctrl_data_remaining' = Missing

TakesMore ==
  /\ TakesPacket /\ ~ AllReceived(Missing)
  /\ UNCHANGED <<delivered, ctrl_phase, ep0_buffer, tx, ep0_tog>>

TakesLast ==
  /\ TakesPacket /\ AllReceived(Missing)
  /\ delivered' = IF current.bRequest = DFU_DNLOAD THEN Taken ELSE delivered
  /\ ctrl_phase' = "IDLE"
  /\ ep0_send(<<>>, ep0_tog)

TakesNothing ==
  /\ ctrl_phase # "DATA_OUT"
  /\ UNCHANGED <<ctrl_phase, ctrl_data_remaining, dfu_rx, ep0_buffer, tx, ep0_tog, delivered>>

LEMMA OutEffect ==
  ASSUME OnOut
  PROVE  /\ UNCHANGED <<ctrl_data, usb_dev_addr, current, DEV_ADDR, leaving>>
         /\ TakesMore \/ TakesLast \/ TakesNothing
BY DEF OnOut, HandleOut, TakesPacket, TakesMore, TakesLast, TakesNothing, Taken, Missing

(* What host, controller and bus leave alone.                              *)
Outside ==
  \/ \E t \in Transfers : Begin(t)
  \/ HostStep \/ GiveUp \/ BusReset

LEMMA OutsideKeeps ==
  ASSUME Outside
  PROVE  UNCHANGED <<ctrlVars, tx, DEV_ADDR, leaving, delivered>>
BY DEF Outside, Begin, HostStep, SetupTransaction, OutTransaction, InTransaction,
   StatusTransaction, GiveUp, BusReset, deviceVars

LEMMA StepCases ==
  ASSUME [Next]_vars
  PROVE  OnSetup \/ OnIn \/ OnOut \/ OnReset \/ SystemReset \/ Outside \/ UNCHANGED vars
BY PollCases DEF Next, Outside

(***************************************************************************)
(* Types.                                                                  *)
(***************************************************************************)
LEMMA TypesPoll ==
  ASSUME UsbInv, OnSetup \/ OnIn \/ OnOut \/ OnReset
  PROVE  UsbTypes'
<1>0. UsbTypes /\ SendsReply
  BY DEF UsbInv
<1>1. CASE OnSetup
  <2> DEFINE r == transfer.packet
  <2>1. /\ r \in Requests /\ current' = r /\ delivered' = <<>>
        /\ UNCHANGED DEV_ADDR
        /\ RouteRequest(r)
        /\ ToDataOut(r) \/ ToStatus(r) \/ ToDataIn(r)
    BY <1>0, <1>1, SetupEffect
  <2>2. /\ transfer' = NoEvent
        /\ UNCHANGED <<bus_rst, stage, asking, expected, received, address, faults>>
    BY <1>1 DEF OnSetup, Handles
  <2> HIDE DEF r
  <2>3. r.wLength \in 0 .. (Words - 1) /\ r.class \in BOOLEAN /\ r.value \in Nat
    BY <2>1 DEF Requests
  <2>4. leaving' \in BOOLEAN
    BY <2>1, <2>3 DEF RouteRequest
  <2>5. usb_dev_addr' \in 0 .. (Addresses - 1)
    BY <1>0, <2>1, <2>3, AddressRange DEF RouteRequest, UsbTypes, UsbTypeOK
  <2>6. <<>> \in Seq(Byte) /\ Len(<<>>) = 0 /\ BufferSize \in Nat
    BY EmptySeq, PacketAssumption
  <2>7. CASE ToDataOut(r)
    <3>1. tx' \in [ack : BOOLEAN, tog : BOOLEAN, len : 0 .. MaxPacket] /\ tx'.ack = FALSE
      BY <1>0, <2>7 DEF ToDataOut, UsbTypes, UsbTypeOK
    <3> QED BY <1>0, <2>1, <2>2, <2>3, <2>4, <2>5, <2>6, <2>7, <3>1, NoEventShape
            DEF ToDataOut, UsbTypes, UsbTypeOK
  <2>8. CASE ToStatus(r)
    <3>1. /\ tx' \in [ack : BOOLEAN, tog : BOOLEAN, len : 0 .. MaxPacket]
          /\ ep0_buffer' \in Seq(Byte) /\ tx'.len <= Len(ep0_buffer') /\ ep0_tog' \in BOOLEAN
      BY <1>0, <2>6, <2>8, SendEffect DEF ToStatus, UsbTypes
    <3> QED BY <1>0, <2>1, <2>2, <2>3, <2>4, <2>5, <2>6, <2>8, <3>1, NoEventShape
            DEF ToStatus, UsbTypes, UsbTypeOK
  <2>9. CASE ToDataIn(r)
    <3>0. Reply(r) \in Seq(Byte) /\ Len(Reply(r)) \in 0 .. (Words - 1)
      BY <2>1, ReplyShape
    <3>1. /\ tx' \in [ack : BOOLEAN, tog : BOOLEAN, len : 0 .. MaxPacket]
          /\ ep0_buffer' \in Seq(Byte) /\ tx'.len <= Len(ep0_buffer') /\ ep0_tog' \in BOOLEAN
      BY <1>0, <2>9, <3>0, SendEffect DEF ToDataIn, UsbTypes
    <3> QED BY <1>0, <2>1, <2>2, <2>3, <2>4, <2>5, <2>6, <2>9, <3>0, <3>1, NoEventShape
            DEF ToDataIn, UsbTypes, UsbTypeOK
  <2> QED BY <2>1, <2>7, <2>8, <2>9
<1>2. CASE OnIn
  <2>1. /\ UNCHANGED <<ctrl_data, dfu_rx, usb_dev_addr, current, leaving, delivered>>
        /\ SendsOn \/ SentAll \/ Ignored
        /\ Left \in 0 .. ctrl_data_remaining
    BY <1>0, <1>2, InEffect
  <2>2. /\ transfer' = NoEvent /\ transfer.token = "IN"
        /\ UNCHANGED <<bus_rst, stage, asking, expected, received, address, faults>>
    BY <1>2 DEF OnIn, Handles
  <2>3. CASE SendsOn
    <3>1. Left \in 1 .. Len(ctrl_data) /\ ctrl_data \in Seq(Byte) /\ Left \in 0 .. (Words - 1)
      <4>1. ctrl_data_remaining \in 0 .. (Words - 1) /\ Len(ctrl_data) \in Nat
        BY <1>0, LenProperties DEF UsbTypes, UsbTypeOK
      <4>2. Done \in 0 .. Len(ctrl_data)
        BY <1>0, <2>3 DEF SendsOn, SendsReply
      <4> QED BY <1>0, <2>1, <2>3, <4>1, <4>2, Widths DEF SendsOn, Done, UsbTypes
    <3>2. Rest(Left) \in Seq(Byte)
      BY <3>1, RestContinues
    <3>3. /\ tx' \in [ack : BOOLEAN, tog : BOOLEAN, len : 0 .. MaxPacket]
          /\ ep0_buffer' \in Seq(Byte) /\ tx'.len <= Len(ep0_buffer') /\ ep0_tog' \in BOOLEAN
      BY <1>0, <2>3, <3>2, SendEffect DEF SendsOn, UsbTypes, UsbTypeOK
    <3> QED BY <1>0, <2>1, <2>2, <2>3, <3>1, <3>3, NoEventShape DEF SendsOn, UsbTypes, UsbTypeOK
  <2>4. CASE SentAll
    BY <1>0, <2>1, <2>2, <2>4, NoEventShape, Widths
       DEF SentAll, ApplyAddress, UsbTypes, UsbTypeOK
  <2>5. CASE Ignored
    BY <1>0, <2>1, <2>2, <2>5, NoEventShape DEF Ignored, UsbTypes, UsbTypeOK
  <2> QED BY <2>1, <2>3, <2>4, <2>5
<1>3. CASE OnOut
  <2>1. /\ UNCHANGED <<ctrl_data, usb_dev_addr, current, DEV_ADDR, leaving>>
        /\ TakesMore \/ TakesLast \/ TakesNothing
    BY <1>3, OutEffect
  <2>2. /\ transfer' = NoEvent /\ transfer.token = "OUT"
        /\ UNCHANGED <<bus_rst, stage, asking, expected, received, address, faults>>
    BY <1>3 DEF OnOut, Handles
  <2>3. Taken \in Seq(Byte) /\ Len(Taken) <= BufferSize
    <3> DEFINE data == Start(ep0_buffer, transfer.len)
    <3>1. /\ ep0_buffer \in Seq(Byte) /\ transfer.len \in 0 .. Len(ep0_buffer)
          /\ dfu_rx \in Seq(Byte) /\ Len(dfu_rx) <= BufferSize
      BY <1>0, <2>2, LenProperties, PacketAssumption DEF UsbTypes, UsbTypeOK
    <3>2. data \in Seq(Byte) /\ Len(data) = transfer.len
      BY <3>1, StartShape
    <3>3. Taken = IF Len(dfu_rx) + transfer.len <= BufferSize THEN dfu_rx \o data ELSE dfu_rx
      BY DEF Taken, Start
    <3> HIDE DEF data
    <3>4. dfu_rx \o data \in Seq(Byte) /\ Len(dfu_rx \o data) = Len(dfu_rx) + Len(data)
      BY <3>1, <3>2, Joined, Zenon
    <3> QED BY <3>1, <3>2, <3>3, <3>4
  <2>4. Missing \in 0 .. (Words - 1)
    <3>1. ctrl_data_remaining - transfer.len \in Int
      BY <1>0, Widths, PacketAssumption DEF UsbTypes, UsbTypeOK
    <3> QED BY <3>1, WordRange DEF Missing
  <2>5. CASE TakesMore
    BY <1>0, <2>1, <2>2, <2>3, <2>4, <2>5, NoEventShape
       DEF TakesMore, TakesPacket, UsbTypes, UsbTypeOK
  <2>6. CASE TakesLast
    <3>1. /\ tx' \in [ack : BOOLEAN, tog : BOOLEAN, len : 0 .. MaxPacket]
          /\ ep0_buffer' \in Seq(Byte) /\ tx'.len <= Len(ep0_buffer') /\ ep0_tog' \in BOOLEAN
      BY <1>0, <2>6, EmptyPacket, SendEffect DEF TakesLast, UsbTypes, UsbTypeOK
    <3>2. delivered' \in Seq(Byte)
      BY <1>0, <2>3, <2>6 DEF TakesLast, UsbTypes
    <3> QED BY <1>0, <2>1, <2>2, <2>3, <2>4, <2>6, <3>1, <3>2, NoEventShape
            DEF TakesLast, TakesPacket, UsbTypes, UsbTypeOK
  <2>7. CASE TakesNothing
    BY <1>0, <2>1, <2>2, <2>7, NoEventShape DEF TakesNothing, UsbTypes, UsbTypeOK
  <2> QED BY <2>1, <2>5, <2>6, <2>7
<1>4. CASE OnReset
  <2>1. <<>> \in Seq(Byte) /\ 0 \in 0 .. (Addresses - 1)
    BY Widths, EmptySeq
  <2>2. /\ ep0_tog' = TRUE /\ DEV_ADDR' = 0 /\ ctrl_phase' = "IDLE" /\ bus_rst' = FALSE
        /\ delivered' = <<>>
        /\ UNCHANGED <<ctrl_data, ctrl_data_remaining, dfu_rx, usb_dev_addr, current,
                       ep0_buffer, tx, transfer, leaving, stage, asking, expected,
                       received, address, faults>>
    BY <1>4 DEF OnReset, HandleBusReset
  <2> QED BY <1>0, <2>1, <2>2 DEF UsbTypes, UsbTypeOK
<1> QED BY <1>1, <1>2, <1>3, <1>4

LEMMA IdleHost ==
  ASSUME UsbTypes, HostIdle
  PROVE  /\ stage' = "idle" /\ expected' = TRUE /\ received' = <<>>
         /\ received' \in Seq(Byte)
         /\ asking' \in Requests /\ asking'.class = FALSE /\ ~ SetsAddress(asking')
<1>1. asking.tag \in {0, 1}
  BY DEF UsbTypes, Requests
<1>2. asking' = [NoRequest EXCEPT !.tag = asking.tag]
  BY DEF HostIdle
<1>3. <<>> \in Seq(Byte)
  BY EmptySeq
<1> QED BY <1>1, <1>2, <1>3, NoRequestShape DEF HostIdle

LEMMA BeginEffect ==
  ASSUME UsbTypes, NEW t \in Transfers, Begin(t)
  PROVE  /\ asking' \in Requests
         /\ asking'.class => address # 0
         /\ SetsAddress(asking') => address = 0
         /\ stage = "idle" /\ stage' = "setup" /\ expected' = TRUE /\ received' = <<>>
         /\ UNCHANGED <<deviceVars, address, faults>>
<1>1. asking.tag \in {0, 1} /\ 1 - asking.tag \in {0, 1}
  BY DEF UsbTypes, Requests
<1>2. asking' = [class |-> t.class, bRequest |-> t.bRequest, in |-> t.in,
                 wLength |-> t.wLength, reply |-> t.reply, value |-> t.value,
                 tag |-> 1 - asking.tag]
  BY DEF Begin
<1>3. SetsAddress(asking') <=> SetsAddress(t)
  BY <1>2 DEF SetsAddress
<1>4. /\ t.class \in BOOLEAN /\ t.in \in BOOLEAN
      /\ t.bRequest \in Int /\ t.reply \in Nat
      /\ t.wLength \in 0 .. (Words - 1) /\ t.value \in Nat
      /\ ~ t.in => t.wLength <= BufferSize /\ t.reply = 0
      /\ t.wLength = 0 => ~ t.in
      /\ SetsAddress(t) => t.wLength = 0 /\ t.value \in 1 .. (Addresses - 1)
  BY TransferAssumption, Widths
<1>5. /\ asking'.class = t.class /\ asking'.in = t.in /\ asking'.wLength = t.wLength
      /\ asking'.reply = t.reply /\ asking'.value = t.value
  BY <1>2
<1>6. asking' \in [class : BOOLEAN, bRequest : Int, in : BOOLEAN, wLength : 0 .. (Words - 1),
                   reply : Nat, value : Nat, tag : {0, 1}]
  BY <1>1, <1>2, <1>4
<1>7. asking' \in Requests
  BY <1>3, <1>4, <1>5, <1>6 DEF Requests
<1> QED BY <1>3, <1>5, <1>7 DEF Begin

LEMMA EventShape ==
  ASSUME UsbTypes, NEW token \in Tokens, NEW len \in 0 .. MaxPacket, Event(token, len)
  PROVE  /\ transfer' \in [token : Tokens, len : 0 .. MaxPacket, packet : Requests]
         /\ transfer'.token = token /\ transfer'.len = len
         /\ token = "SETUP" => transfer'.packet = asking
BY NoRequestShape DEF Event, UsbTypes

LEMMA TypesOutside ==
  ASSUME UsbInv, SystemReset \/ Outside \/ UNCHANGED vars
  PROVE  UsbTypes'
<1>0. UsbTypes /\ SendsReply
  BY DEF UsbInv
<1>1. <<>> \in Seq(Byte) /\ Len(<<>>) = 0 /\ 0 \in 0 .. (Addresses - 1) /\ 0 \in 0 .. (Words - 1)
      /\ 0 \in 0 .. MaxPacket /\ 0 <= BufferSize
  BY EmptySeq, Widths, PacketAssumption
<1>2. CASE SystemReset
  <2>1. /\ stage' = "idle" /\ expected' = TRUE /\ received' \in Seq(Byte)
        /\ asking' \in Requests
    BY <1>0, <1>2, IdleHost DEF SystemReset
  <2>2. tx' \in [ack : BOOLEAN, tog : BOOLEAN, len : 0 .. MaxPacket] /\ tx'.ack = FALSE
    BY <1>1, <1>2 DEF SystemReset
  <2> QED BY <1>0, <1>1, <1>2, <2>1, <2>2, NoRequestShape, NoEventShape
          DEF SystemReset, UsbTypes, UsbTypeOK
<1>3. ASSUME NEW t \in Transfers, Begin(t) PROVE UsbTypes'
  <2>1. /\ asking' \in Requests
        /\ stage' = "setup" /\ expected' = TRUE /\ received' = <<>>
        /\ UNCHANGED <<ctrl_phase, ctrl_data, ctrl_data_remaining, dfu_rx, usb_dev_addr,
              ep0_tog, current, ep0_buffer, tx, DEV_ADDR, transfer, bus_rst, leaving,
              delivered, address, faults>>
    BY <1>0, <1>3, BeginEffect DEF deviceVars, ctrlVars
  <2> QED BY <1>0, <1>1, <2>1 DEF UsbTypes, UsbTypeOK
<1>4. ASSUME NEW where, NEW arrived \in BOOLEAN, Handshake(arrived, where)
      PROVE  faults' \in 0 .. MaxFaults
  BY <1>0, <1>4, PacketAssumption DEF Handshake, UsbTypes, UsbTypeOK
<1>5. CASE SetupTransaction
  <2>1. /\ Event("SETUP", 0) /\ ep0_buffer' = <<>>
        /\ stage' \in {"setup", "status", "data"}
        /\ faults' \in 0 .. MaxFaults
        /\ UNCHANGED <<ctrl_phase, ctrl_data, ctrl_data_remaining, dfu_rx, usb_dev_addr,
              ep0_tog, current, tx, DEV_ADDR, bus_rst, leaving, delivered, asking,
              expected, received, address>>
    BY <1>4, <1>5 DEF SetupTransaction, ctrlVars
  <2>2. /\ transfer' \in [token : Tokens, len : 0 .. MaxPacket, packet : Requests]
        /\ transfer'.token = "SETUP" /\ transfer'.len = 0
    BY <1>0, <1>1, <2>1, EventShape DEF Tokens
  <2> QED BY <1>0, <1>1, <2>1, <2>2 DEF UsbTypes, UsbTypeOK
<1>6. CASE OutTransaction
  <2> DEFINE data == Packet(Bytes(asking.tag, asking.wLength), Len(received))
  <2>1. data \in Seq(Byte) /\ Len(data) \in 0 .. MaxPacket
    <3>1. asking.tag \in {0, 1} /\ asking.wLength \in Nat
      BY <1>0, Widths DEF UsbTypes, Requests
    <3>2. Len(received) \in Nat
      BY <1>0, LenProperties DEF UsbTypes
    <3> QED BY <3>1, <3>2, BytesShape, PacketShape
  <2>2. /\ Event("OUT", Len(data)) /\ ep0_buffer' = Overlay(data)
        /\ received' \in {received, received \o data}
        /\ stage' \in {"data", "status"} /\ transfer.token = "none"
        /\ faults' \in 0 .. MaxFaults
        /\ UNCHANGED <<ctrl_phase, ctrl_data, ctrl_data_remaining, dfu_rx, usb_dev_addr,
              ep0_tog, current, tx, DEV_ADDR, bus_rst, leaving, delivered, asking,
              expected, address>>
    BY <1>4, <1>6 DEF OutTransaction, ctrlVars, Reaches
  <2> HIDE DEF data
  <2>3. /\ ep0_buffer' \in Seq(Byte) /\ Len(data) <= Len(ep0_buffer')
        /\ Len(ep0_buffer) <= Len(ep0_buffer')
    BY <1>0, <2>1, <2>2, OverlayShape DEF UsbTypes
  <2>4. received' \in Seq(Byte)
    <3>1. received \o data \in Seq(Byte)
      BY <1>0, <2>1, Joined, Zenon DEF UsbTypes
    <3> QED BY <1>0, <2>2, <3>1 DEF UsbTypes
  <2>5. /\ transfer' \in [token : Tokens, len : 0 .. MaxPacket, packet : Requests]
        /\ transfer'.token = "OUT" /\ transfer'.len = Len(data)
    BY <1>0, <2>1, <2>2, EventShape DEF Tokens
  <2>6. tx.ack => tx.len <= Len(ep0_buffer')
    <3>1. tx.len \in Nat /\ Len(ep0_buffer) \in Nat /\ Len(ep0_buffer') \in Nat
      BY <1>0, <2>3, LenProperties, PacketAssumption DEF UsbTypes, UsbTypeOK
    <3> QED BY <1>0, <2>2, <2>3, <3>1 DEF UsbTypes, UsbTypeOK
  <2> QED BY <1>0, <2>2, <2>3, <2>4, <2>5, <2>6 DEF UsbTypes, UsbTypeOK
<1>7. CASE InTransaction
  <2> DEFINE data == SubSeq(ep0_buffer, 1, tx.len)
  <2>1. data \in Seq(Byte)
    <3>1. tx.len \in 0 .. Len(ep0_buffer) /\ ep0_buffer \in Seq(Byte)
      BY <1>0, <1>7, LenProperties, PacketAssumption
         DEF InTransaction, Reaches, UsbTypes, UsbTypeOK
    <3> QED BY <3>1, StartShape DEF Start
  <2>2. /\ received' \in {received, received \o data}
        /\ expected' \in {expected, ~ expected}
        /\ stage' \in {"data", "status"}
        /\ Event("IN", 0) \/ UNCHANGED transfer
        /\ faults' \in 0 .. MaxFaults /\ transfer.token = "none"
        /\ UNCHANGED <<ctrl_phase, ctrl_data, ctrl_data_remaining, dfu_rx, usb_dev_addr,
              ep0_tog, current, ep0_buffer, tx, DEV_ADDR, bus_rst, leaving, delivered,
              asking, address>>
    BY <1>4, <1>7 DEF InTransaction, ctrlVars, Reaches
  <2> HIDE DEF data
  <2>3. received' \in Seq(Byte)
    <3>1. received \o data \in Seq(Byte)
      BY <1>0, <2>1, Joined, Zenon DEF UsbTypes
    <3> QED BY <1>0, <2>2, <3>1 DEF UsbTypes
  <2>4. /\ transfer' \in [token : Tokens, len : 0 .. MaxPacket, packet : Requests]
        /\ transfer'.token \in {"none", "IN"}
    BY <1>0, <1>1, <2>2, EventShape DEF Tokens, UsbTypes
  <2> QED BY <1>0, <2>2, <2>3, <2>4 DEF UsbTypes, UsbTypeOK
<1>8. CASE StatusTransaction
  <2>1. /\ HostIdle \/ UNCHANGED <<stage, asking, expected, received>>
        /\ Event("OUT", 0) \/ Event("IN", 0) \/ UNCHANGED transfer
        /\ address' = IF SetsAddress(asking) THEN asking.value ELSE address
        /\ faults' \in 0 .. MaxFaults /\ transfer.token = "none"
        /\ UNCHANGED <<ctrl_phase, ctrl_data, ctrl_data_remaining, dfu_rx, usb_dev_addr,
              ep0_tog, current, ep0_buffer, tx, DEV_ADDR, bus_rst, leaving, delivered>>
    BY <1>4, <1>8 DEF StatusTransaction, ctrlVars, Reaches
  <2>2. /\ asking' \in Requests /\ received' \in Seq(Byte)
        /\ stage' \in {"idle", "setup", "data", "status"} /\ expected' \in BOOLEAN
    BY <1>0, <2>1, IdleHost DEF UsbTypes, UsbTypeOK
  <2>3. /\ transfer' \in [token : Tokens, len : 0 .. MaxPacket, packet : Requests]
        /\ transfer'.token \in {"none", "IN", "OUT"}
        /\ transfer'.token = "OUT" => transfer'.len = 0
    BY <1>0, <1>1, <2>1, EventShape DEF Tokens, UsbTypes
  <2>4. address' \in 0 .. (Addresses - 1)
    <3>1. SetsAddress(asking) => asking.value \in 1 .. (Addresses - 1)
      BY <1>0 DEF UsbTypes, Requests
    <3>2. \A a \in 1 .. (Addresses - 1) : a \in 0 .. (Addresses - 1)
      BY Widths
    <3>3. address \in 0 .. (Addresses - 1)
      BY <1>0 DEF UsbTypes, UsbTypeOK
    <3> QED BY <2>1, <3>1, <3>2, <3>3
  <2>5. 0 <= Len(ep0_buffer)
    BY <1>0, LenProperties DEF UsbTypes
  <2> QED BY <1>0, <2>1, <2>2, <2>3, <2>4, <2>5 DEF UsbTypes, UsbTypeOK
<1>9. CASE GiveUp \/ BusReset
  <2>1. /\ stage' = "idle" /\ expected' = TRUE /\ received' \in Seq(Byte)
        /\ asking' \in Requests
    BY <1>0, <1>9, IdleHost DEF GiveUp, BusReset
  <2>2. /\ faults' \in 0 .. MaxFaults
        /\ address' = 0 \/ address' = address
        /\ bus_rst' = TRUE \/ bus_rst' = bus_rst
        /\ UNCHANGED <<ctrl_phase, ctrl_data, ctrl_data_remaining, dfu_rx, usb_dev_addr,
              ep0_tog, current, ep0_buffer, tx, DEV_ADDR, transfer, leaving, delivered>>
    BY <1>0, <1>9, PacketAssumption
       DEF GiveUp, BusReset, Fault, deviceVars, ctrlVars, UsbTypes, UsbTypeOK
  <2>3. address' \in 0 .. (Addresses - 1)
    BY <1>0, <1>1, <2>2 DEF UsbTypes, UsbTypeOK
  <2>4. bus_rst' \in BOOLEAN
    BY <1>0, <2>2, Zenon DEF UsbTypes, UsbTypeOK
  <2> QED BY <1>0, <2>1, <2>2, <2>3, <2>4 DEF UsbTypes, UsbTypeOK
<1>10. CASE UNCHANGED vars
  BY <1>0, <1>10 DEF vars, deviceVars, ctrlVars, hostVars, UsbTypes, UsbTypeOK
<1> QED BY <1>2, <1>3, <1>5, <1>6, <1>7, <1>8, <1>9, <1>10 DEF Outside, HostStep

LEMMA TypesNext ==
  ASSUME UsbInv, [Next]_vars PROVE UsbTypes'
BY StepCases, TypesPoll, TypesOutside

(***************************************************************************)
(* Addresses.                                                              *)
(***************************************************************************)
LEMMA RequestFacts ==
  ASSUME NEW r \in Requests
  PROVE  /\ r.wLength = 0 => ~ r.in
         /\ SetsAddress(r) =>
              /\ r.wLength = 0 /\ ~ r.in /\ ~ r.class
              /\ r.value # 0 /\ r.value % Addresses = r.value
         /\ ~ SetsAddress(r) /\ ~ r.class => r.bRequest # USB_REQ_SET_ADDRESS
<1>1. /\ r.wLength = 0 => ~ r.in
      /\ SetsAddress(r) => r.wLength = 0 /\ r.value \in 1 .. (Addresses - 1)
  BY DEF Requests
<1>2. SetsAddress(r) => r.value \in Nat /\ r.value < Addresses /\ r.value # 0
  BY <1>1, Widths
<1> QED BY <1>1, <1>2, AddressRange DEF SetsAddress

LEMMA AddressingPoll ==
  ASSUME UsbInv, OnSetup \/ OnIn \/ OnOut \/ OnReset
  PROVE  Addressing'
<1>0. UsbTypes /\ Addressing /\ SendsReply
  BY DEF UsbInv
<1>1. CASE OnSetup
  <2> DEFINE r == transfer.packet
  <2>1. /\ r \in Requests /\ current' = r /\ UNCHANGED DEV_ADDR
        /\ usb_dev_addr' = IF SetsAddress(r) THEN r.value % Addresses ELSE usb_dev_addr
    BY <1>0, <1>1, SetupEffect DEF RouteRequest
  <2>2. /\ transfer' = NoEvent /\ transfer.token = "SETUP"
        /\ UNCHANGED <<bus_rst, asking, address>>
    BY <1>1 DEF OnSetup, Handles
  <2>3. /\ r.class => address # 0 \/ bus_rst
        /\ SetsAddress(r) => address = 0 /\ r.value % Addresses = r.value
    BY <1>0, <2>1, <2>2, RequestFacts DEF Addressing
  <2> HIDE DEF r
  <2> QED BY <1>0, <2>1, <2>2, <2>3, NoEventShape DEF Addressing, AddressAgrees
<1>2. CASE OnIn
  <2>1. /\ UNCHANGED <<usb_dev_addr, current, bus_rst, asking, address>>
        /\ SendsOn \/ SentAll \/ Ignored
        /\ transfer' = NoEvent /\ transfer.token = "IN"
    BY <1>0, <1>2, InEffect DEF OnIn, Handles
  <2>2. CASE SentAll
    <3>1. ctrl_phase' = "IDLE" /\ ctrl_phase \in {"DATA_IN", "STATUS"}
      BY <2>2 DEF SentAll
    <3>2. /\ SetsAddress(current) => ~ current.in /\ ~ current.class
          /\ ~ SetsAddress(current) /\ ~ current.class
               => current.bRequest # USB_REQ_SET_ADDRESS
      BY <1>0, RequestFacts DEF UsbTypes
    <3>3. bus_rst \/ DEV_ADDR' = address
      <4>1. CASE current.bRequest = USB_REQ_SET_ADDRESS
        <5>1. DEV_ADDR' = usb_dev_addr
          BY <2>2, <4>1 DEF SentAll, ApplyAddress
        <5>2. bus_rst \/ address # 0
          BY <1>0, <2>1, <3>1, <3>2, <4>1 DEF Addressing, SendsReply
        <5> QED BY <1>0, <5>1, <5>2 DEF Addressing
      <4>2. CASE current.bRequest # USB_REQ_SET_ADDRESS
        BY <1>0, <2>2, <4>2 DEF SentAll, ApplyAddress, Addressing, AddressAgrees, SetsAddress
      <4> QED BY <4>1, <4>2
    <3> QED BY <1>0, <2>1, <3>1, <3>3, NoEventShape DEF Addressing, AddressAgrees
  <2>3. CASE SendsOn \/ Ignored
    <3>1. UNCHANGED <<ctrl_phase, DEV_ADDR>>
      BY <2>3 DEF SendsOn, Ignored
    <3> QED BY <1>0, <2>1, <3>1, NoEventShape DEF Addressing, AddressAgrees
  <2> QED BY <2>1, <2>2, <2>3
<1>3. CASE OnOut
  <2>1. /\ UNCHANGED <<usb_dev_addr, current, DEV_ADDR, bus_rst, asking, address>>
        /\ transfer' = NoEvent /\ transfer.token = "OUT"
        /\ ctrl_phase' \in {"IDLE", ctrl_phase}
    BY <1>3, OutEffect DEF OnOut, Handles, TakesMore, TakesLast, TakesNothing
  <2> QED BY <1>0, <2>1, NoEventShape DEF Addressing, AddressAgrees
<1>4. CASE OnReset
  <2>1. /\ ctrl_phase' = "IDLE" /\ DEV_ADDR' = 0 /\ bus_rst' = FALSE /\ bus_rst
        /\ transfer.token = "none"
        /\ UNCHANGED <<usb_dev_addr, current, transfer, asking, address>>
    BY <1>4 DEF OnReset, HandleBusReset
  <2> QED BY <1>0, <2>1 DEF Addressing, AddressAgrees
<1> QED BY <1>1, <1>2, <1>3, <1>4

LEMMA AddressingOutside ==
  ASSUME UsbInv, SystemReset \/ Outside \/ UNCHANGED vars
  PROVE  Addressing'
<1>0. UsbTypes /\ Addressing /\ Session
  BY DEF UsbInv
<1>1. CASE SystemReset
  BY <1>0, <1>1, IdleHost, NoEventShape DEF SystemReset, Addressing, AddressAgrees
<1>2. ASSUME NEW t \in Transfers, Begin(t) PROVE Addressing'
  <2>1. /\ asking'.class => address # 0
        /\ SetsAddress(asking') => address = 0
        /\ UNCHANGED <<ctrl_phase, usb_dev_addr, current, DEV_ADDR, transfer, bus_rst, address>>
    BY <1>0, <1>2, BeginEffect DEF deviceVars, ctrlVars
  <2> QED BY <1>0, <2>1 DEF Addressing, AddressAgrees
<1>3. CASE SetupTransaction \/ OutTransaction
  <2>1. /\ \/ transfer'.token = "SETUP" /\ transfer'.packet = asking
           \/ transfer'.token = "OUT"
        /\ DEV_ADDR = address
        /\ UNCHANGED <<ctrl_phase, usb_dev_addr, current, DEV_ADDR, bus_rst, asking, address>>
    BY <1>3 DEF SetupTransaction, OutTransaction, Event, Reaches, ctrlVars
  <2> QED BY <1>0, <2>1 DEF Addressing, AddressAgrees
<1>4. CASE InTransaction
  <2>1. /\ transfer'.token = "IN" \/ transfer' = transfer
        /\ DEV_ADDR = address /\ ~ bus_rst /\ transfer.token = "none"
        /\ stage = "data" /\ asking.in
        /\ UNCHANGED <<ctrl_phase, usb_dev_addr, current, DEV_ADDR, bus_rst, asking, address>>
    BY <1>4 DEF InTransaction, Event, Reaches, ctrlVars
  <2>2. ~ SetsAddress(current)
    <3>1. current = asking
      BY <1>0, <2>1 DEF Session, Heard, Talking
    <3> QED BY <1>0, <2>1, <3>1, RequestFacts DEF UsbTypes
  <2> QED BY <1>0, <2>1, <2>2 DEF Addressing, AddressAgrees
<1>5. CASE StatusTransaction
  <2>1. /\ DEV_ADDR = address /\ ~ bus_rst /\ transfer.token = "none" /\ stage = "status"
        /\ \/ asking.in /\ transfer'.token = "OUT"
           \/ ~ asking.in /\ transfer'.token = "IN"
           \/ ~ asking.in /\ transfer' = transfer
        /\ HostIdle \/ (asking.in /\ UNCHANGED asking)
        /\ address' = IF SetsAddress(asking) THEN asking.value ELSE address
        /\ UNCHANGED <<ctrl_phase, usb_dev_addr, current, DEV_ADDR, bus_rst>>
    BY <1>5 DEF StatusTransaction, Event, Reaches, ctrlVars
  <2>2. current = asking /\ (asking.wLength = 0 => ctrl_phase = "STATUS")
    BY <1>0, <2>1 DEF Session, Heard, Talking
  <2>3. \/ asking'.class = FALSE /\ ~ SetsAddress(asking')
        \/ asking.in /\ asking' = asking
    BY <1>0, <2>1, IdleHost
  <2>4. CASE SetsAddress(asking)
    <3>1. asking.wLength = 0 /\ ~ asking.in /\ asking.value # 0 /\ ~ asking.class
      BY <1>0, <2>4, RequestFacts DEF UsbTypes
    <3>2. ctrl_phase = "STATUS" /\ usb_dev_addr = asking.value /\ SetsAddress(current)
      BY <1>0, <2>2, <2>4, <3>1 DEF Addressing
    <3> QED BY <1>0, <2>1, <2>2, <2>3, <2>4, <3>1, <3>2 DEF Addressing, AddressAgrees
  <2>5. CASE ~ SetsAddress(asking)
    BY <1>0, <2>1, <2>2, <2>3, <2>5 DEF Addressing, AddressAgrees
  <2> QED BY <2>4, <2>5
<1>6. CASE GiveUp \/ BusReset
  <2>1. /\ asking'.class = FALSE /\ ~ SetsAddress(asking')
        /\ UNCHANGED <<ctrl_phase, usb_dev_addr, current, DEV_ADDR, transfer>>
        /\ UNCHANGED <<address, bus_rst>> \/ (address' = 0 /\ bus_rst' = TRUE)
    BY <1>0, <1>6, IdleHost DEF GiveUp, BusReset, deviceVars, ctrlVars
  <2> QED BY <1>0, <2>1 DEF Addressing, AddressAgrees
<1>7. CASE UNCHANGED vars
  BY <1>0, <1>7 DEF vars, deviceVars, ctrlVars, hostVars, Addressing, AddressAgrees
<1> QED BY <1>1, <1>2, <1>3, <1>4, <1>5, <1>6, <1>7 DEF Outside, HostStep

LEMMA AddressingNext ==
  ASSUME UsbInv, [Next]_vars PROVE Addressing'
BY StepCases, AddressingPoll, AddressingOutside

(***************************************************************************)
(* The transfer of the host and the request the device is answering.       *)
(***************************************************************************)
LEMMA SessionPoll ==
  ASSUME UsbInv, OnSetup \/ OnIn \/ OnOut \/ OnReset
  PROVE  Session'
<1>0. UsbTypes /\ Session
  BY DEF UsbInv
<1>1. CASE OnSetup
  <2> DEFINE r == transfer.packet
  <2>1. /\ r \in Requests /\ current' = r
        /\ ToDataOut(r) \/ ToStatus(r) \/ ToDataIn(r)
    BY <1>0, <1>1, SetupEffect
  <2>2. /\ transfer'.token = "none" /\ transfer.token = "SETUP"
        /\ UNCHANGED <<bus_rst, stage, asking, expected, received>>
    BY <1>1, NoEventShape DEF OnSetup, Handles
  <2>3. Talking => r = asking
    BY <1>0, <2>2 DEF Session
  <2> HIDE DEF r
  <2>4. r.wLength \in Nat
    BY <2>1, Widths DEF Requests
  <2>5. ctrl_phase' = "STATUS" => tx'.len = 0
    <3>1. ToStatus(r) => tx'.len = 0
      BY <1>0, SendEmpty DEF ToStatus, UsbTypes
    <3> QED BY <2>1, <3>1 DEF ToDataOut, ToDataIn
  <2>6. /\ ctrl_phase' = "DATA_OUT" => ~ r.in /\ r.wLength > 0
        /\ r.wLength = 0 => ctrl_phase' = "STATUS"
    <3>1. CASE ToDataOut(r)
      BY <2>4, <3>1 DEF ToDataOut
    <3>2. CASE ToStatus(r)
      BY <3>2 DEF ToStatus
    <3>3. CASE ToDataIn(r)
      BY <2>4, <3>3 DEF ToDataIn
    <3> QED BY <2>1, <3>1, <3>2, <3>3
  <2> QED BY <1>0, <2>1, <2>2, <2>3, <2>5, <2>6 DEF Session, Heard, Talking
<1>2. CASE OnIn
  <2>1. /\ SendsOn \/ SentAll \/ Ignored
        /\ UNCHANGED <<current, bus_rst, stage, asking, expected, received>>
        /\ transfer'.token = "none" /\ transfer.token = "IN"
    BY <1>0, <1>2, InEffect, NoEventShape DEF OnIn, Handles
  <2>2. /\ ctrl_phase' = "STATUS" => ctrl_phase = "STATUS" /\ tx' = tx
        /\ ctrl_phase' = "DATA_OUT" => ctrl_phase = "DATA_OUT"
    BY <2>1 DEF SendsOn, SentAll, Ignored
  <2>3. Talking => asking.wLength # 0
    BY <1>0, <2>1, RequestFacts DEF Session, UsbTypes
  <2> QED BY <1>0, <2>1, <2>2, <2>3 DEF Session, Heard, Talking
<1>3. CASE OnOut
  <2>1. /\ TakesMore \/ TakesLast \/ TakesNothing
        /\ UNCHANGED <<current, bus_rst, stage, asking, expected, received>>
        /\ transfer'.token = "none" /\ transfer.token = "OUT"
    BY <1>3, OutEffect, NoEventShape DEF OnOut, Handles
  <2>2. /\ ctrl_phase' = "STATUS" => ctrl_phase = "STATUS" /\ tx' = tx
        /\ ctrl_phase = "STATUS" => ctrl_phase' = "STATUS"
        /\ ctrl_phase' = "DATA_OUT" => ctrl_phase = "DATA_OUT"
    BY <2>1 DEF TakesMore, TakesLast, TakesNothing, TakesPacket
  <2> QED BY <1>0, <2>1, <2>2 DEF Session, Heard, Talking
<1>4. CASE OnReset
  <2>1. /\ ctrl_phase' = "IDLE" /\ bus_rst
        /\ UNCHANGED <<stage, asking, expected, received>>
    BY <1>4 DEF OnReset, HandleBusReset
  <2> QED BY <1>0, <2>1 DEF Session, Heard, Talking
<1> QED BY <1>1, <1>2, <1>3, <1>4

LEMMA SessionOutside ==
  ASSUME UsbInv, SystemReset \/ Outside \/ UNCHANGED vars
  PROVE  Session'
<1>0. UsbTypes /\ Session
  BY DEF UsbInv
<1>1. CASE SystemReset
  BY <1>0, <1>1, IdleHost DEF SystemReset, Session, Heard, Talking
<1>2. ASSUME NEW t \in Transfers, Begin(t) PROVE Session'
  BY <1>0, <1>2, BeginEffect DEF deviceVars, ctrlVars, Session, Heard, Talking
<1>3. CASE SetupTransaction
  <2>1. /\ stage = "setup" /\ ~ bus_rst
        /\ transfer'.token = "SETUP" /\ transfer'.packet = asking
        /\ \/ stage' = "setup"
           \/ stage' = "status" /\ asking.wLength = 0
           \/ stage' = "data" /\ asking.wLength # 0
        /\ UNCHANGED <<ctrl_phase, current, tx, bus_rst, asking, expected, received>>
    BY <1>3 DEF SetupTransaction, Event, Reaches, ctrlVars
  <2>2. asking.wLength \in Nat
    BY <1>0, Widths DEF UsbTypes, Requests
  <2> QED BY <1>0, <2>1, <2>2 DEF Session, Heard, Talking
<1>4. CASE OutTransaction \/ InTransaction
  <2>1. /\ stage = "data" /\ transfer.token = "none" /\ stage' \in {"data", "status"}
        /\ transfer'.token = "OUT" \/ (asking.in /\ transfer'.token \in {"none", "IN"})
        /\ UNCHANGED <<ctrl_phase, current, tx, bus_rst, asking>>
    BY <1>4 DEF OutTransaction, InTransaction, Event, Reaches, ctrlVars
  <2>2. asking.wLength \in Nat /\ asking.wLength # 0
    BY <1>0, <2>1, Widths DEF UsbTypes, Requests, Session
  <2> QED BY <1>0, <2>1, <2>2 DEF Session, Heard, Talking
<1>5. CASE StatusTransaction
  <2>1. /\ stage = "status" /\ transfer.token = "none"
        /\ \/ HostIdle
           \/ /\ UNCHANGED <<stage, asking, expected, received>>
              /\ transfer'.token \in {"none", "OUT"}
        /\ UNCHANGED <<ctrl_phase, current, tx, bus_rst>>
    BY <1>5 DEF StatusTransaction, Event, Reaches, ctrlVars
  <2>2. stage' = "idle" \/ ( /\ UNCHANGED <<stage, asking, expected, received>>
                             /\ transfer'.token \in {"none", "OUT"} )
    BY <1>0, <2>1, IdleHost
  <2> QED BY <1>0, <2>1, <2>2 DEF Session, Heard, Talking
<1>6. CASE GiveUp \/ BusReset
  <2>1. stage' = "idle" /\ UNCHANGED <<ctrl_phase, current, tx>>
    BY <1>0, <1>6, IdleHost DEF GiveUp, BusReset, deviceVars, ctrlVars
  <2> QED BY <1>0, <2>1 DEF Session, Heard, Talking
<1>7. CASE UNCHANGED vars
  BY <1>0, <1>7 DEF vars, deviceVars, ctrlVars, hostVars, Session, Heard, Talking
<1> QED BY <1>1, <1>2, <1>3, <1>4, <1>5, <1>6, <1>7 DEF Outside, HostStep

LEMMA SessionNext ==
  ASSUME UsbInv, [Next]_vars PROVE Session'
BY StepCases, SessionPoll, SessionOutside

(***************************************************************************)
(* The answer of an IN transfer.                                           *)
(***************************************************************************)
LEMMA Sending ==
  ASSUME UsbTypes, SendsReply, ctrl_phase = "DATA_IN"
  PROVE  /\ Len(ctrl_data) \in Nat /\ Done \in 0 .. Len(ctrl_data)
         /\ ctrl_data_remaining = Len(ctrl_data) - Done
         /\ Left > 0 => /\ Left \in 1 .. Len(ctrl_data)
                        /\ Left = Len(ctrl_data) - (Done + MaxPacket)
         /\ Left = 0 => Len(ctrl_data) <= Done + MaxPacket
<1>1. ctrl_data_remaining \in Nat /\ Len(ctrl_data) \in Nat
  BY LenProperties, Widths DEF UsbTypes, UsbTypeOK
<1>2. Done \in 0 .. Len(ctrl_data)
  BY DEF SendsReply
<1> QED BY <1>1, <1>2, PacketAssumption DEF Done, Left, Least

LEMMA SendsReplyPoll ==
  ASSUME UsbInv, OnSetup \/ OnIn \/ OnOut \/ OnReset
  PROVE  SendsReply'
<1>0. UsbTypes /\ SendsReply
  BY DEF UsbInv
<1>1. CASE OnSetup
  <2> DEFINE r == transfer.packet
  <2>1. /\ r \in Requests /\ current' = r
        /\ ToDataOut(r) \/ ToStatus(r) \/ ToDataIn(r)
    BY <1>0, <1>1, SetupEffect
  <2> HIDE DEF r
  <2>2. CASE ToDataIn(r)
    <3> DEFINE data == Reply(r)
    <3>1. data \in Seq(Byte) /\ Len(data) \in Nat
      BY <2>1, ReplyShape, LenProperties
    <3>2. /\ r.in /\ ctrl_data' = data /\ ctrl_data_remaining' = Len(data)
          /\ ep0_send(data, TRUE) /\ Reply(current)' = data
      BY <2>1, <2>2 DEF ToDataIn, Reply, Answer
    <3> HIDE DEF data
    <3>3. /\ tx' = [ack |-> TRUE, tog |-> TRUE, len |-> Len(Packet(data, 0))]
          /\ Start(ep0_buffer', tx'.len) = Packet(data, 0)
          /\ ep0_tog' = FALSE
      BY <1>0, <3>1, <3>2, SendEffect DEF UsbTypes
    <3>4. Done' = 0 /\ 0 \in 0 .. Len(data) /\ Packet(data, 0) = Packet(ctrl_data', Done')
      BY <3>1, <3>2 DEF Done
    <3>5. tx'.ack = TRUE /\ tx'.tog = TRUE /\ tx'.len = Len(Packet(data, 0))
      BY <3>3
    <3> QED BY <2>1, <3>2, <3>3, <3>4, <3>5, Zenon DEF SendsReply
  <2>3. CASE ToDataOut(r) \/ ToStatus(r)
    BY <2>3 DEF ToDataOut, ToStatus, SendsReply
  <2> QED BY <2>1, <2>2, <2>3
<1>2. CASE OnIn
  <2>1. /\ SendsOn \/ SentAll \/ Ignored
        /\ UNCHANGED <<ctrl_data, current>>
        /\ transfer'.token = "none" /\ transfer.token = "IN"
    BY <1>0, <1>2, InEffect, NoEventShape DEF OnIn, Handles
  <2>2. CASE SendsOn
    <3>1. /\ ctrl_phase = "DATA_IN" /\ ctrl_phase' = "DATA_IN" /\ Left > 0
          /\ ctrl_data_remaining' = Left /\ ep0_send(Rest(Left), ep0_tog)
          /\ ctrl_data \in Seq(Byte) /\ ep0_buffer \in Seq(Byte) /\ ep0_tog \in BOOLEAN
      BY <1>0, <2>2 DEF SendsOn, UsbTypes, UsbTypeOK
    <3>2. Left \in 1 .. Len(ctrl_data) /\ Len(ctrl_data) \in Nat
      BY <1>0, <3>1, Sending
    <3>3. /\ Rest(Left) \in Seq(Byte)
          /\ Packet(Rest(Left), 0) = Packet(ctrl_data, Len(ctrl_data) - Left)
      BY <3>1, <3>2, RestContinues
    <3>4. /\ tx' = [ack |-> TRUE, tog |-> ep0_tog, len |-> Len(Packet(Rest(Left), 0))]
          /\ Start(ep0_buffer', tx'.len) = Packet(Rest(Left), 0)
          /\ ep0_tog' = ~ ep0_tog
      BY <3>1, <3>3, SendEffect
    <3>5. Done' = Len(ctrl_data) - Left
      BY <2>1, <3>1 DEF Done
    <3>6. Done' \in 0 .. Len(ctrl_data)
      BY <3>2, <3>5
    <3>7. tx'.ack = TRUE /\ tx'.tog = ep0_tog /\ tx'.len = Len(Packet(Rest(Left), 0))
      BY <3>4
    <3>8. ctrl_data' = ctrl_data /\ Packet(ctrl_data, Done)' = Packet(Rest(Left), 0)
      BY <2>1, <3>3, <3>5
    <3>9. current.in /\ ctrl_data = Reply(current)
      BY <1>0, <3>1 DEF SendsReply
    <3>10. current' = current /\ Reply(current)' = Reply(current)
      BY <2>1
    <3> QED BY <3>4, <3>6, <3>7, <3>8, <3>9, <3>10, Zenon DEF SendsReply
  <2>3. CASE SentAll
    BY <2>3 DEF SentAll, SendsReply
  <2>4. CASE Ignored
    BY <1>0, <2>1, <2>4 DEF Ignored, SendsReply, Done
  <2> QED BY <2>1, <2>2, <2>3, <2>4
<1>3. CASE OnOut
  <2>1. /\ UNCHANGED <<ctrl_data, current>>
        /\ transfer.token = "OUT"
        /\ \/ ctrl_phase' \in {"DATA_OUT", "IDLE"}
           \/ UNCHANGED <<ctrl_phase, ctrl_data_remaining, ep0_buffer, tx, ep0_tog>>
    BY <1>3, OutEffect DEF OnOut, Handles, TakesMore, TakesLast, TakesNothing, TakesPacket
  <2> QED BY <1>0, <2>1 DEF SendsReply, Done
<1>4. CASE OnReset
  BY <1>4 DEF OnReset, HandleBusReset, SendsReply
<1> QED BY <1>1, <1>2, <1>3, <1>4

LEMMA SendsReplyOutside ==
  ASSUME UsbInv, SystemReset \/ Outside \/ UNCHANGED vars
  PROVE  SendsReply'
<1>0. UsbTypes /\ Session /\ SendsReply
  BY DEF UsbInv
<1>1. CASE SystemReset
  BY <1>1 DEF SystemReset, SendsReply
<1>2. CASE Outside \/ UNCHANGED vars
  <2>1. /\ UNCHANGED <<ctrl_phase, ctrl_data, ctrl_data_remaining, ep0_tog, current, tx>>
    BY <1>2, OutsideKeeps DEF vars, deviceVars, ctrlVars
  <2>2. ctrl_phase = "DATA_IN" =>
          \/ transfer'.token = "SETUP"
          \/ ep0_buffer' = ep0_buffer /\ (transfer'.token # "SETUP" => transfer.token # "SETUP")
    <3>1. CASE SetupTransaction
      BY <3>1 DEF SetupTransaction, Event
    <3>2. CASE OutTransaction
      <4>1. ~ asking.in /\ Heard
        BY <3>2 DEF OutTransaction, Reaches, Heard, Talking
      <4> QED BY <1>0, <4>1 DEF Session, SendsReply
    <3>3. CASE InTransaction \/ StatusTransaction
      BY <3>3 DEF InTransaction, StatusTransaction, Reaches
    <3>4. CASE (\E t \in Transfers : Begin(t)) \/ GiveUp \/ BusReset \/ UNCHANGED vars
      BY <3>4 DEF Begin, GiveUp, BusReset, vars, deviceVars
    <3> QED BY <1>2, <3>1, <3>2, <3>3, <3>4 DEF Outside, HostStep
  <2> QED BY <1>0, <2>1, <2>2 DEF SendsReply, Done
<1> QED BY <1>1, <1>2

LEMMA SendsReplyNext ==
  ASSUME UsbInv, [Next]_vars PROVE SendsReply'
BY StepCases, SendsReplyPoll, SendsReplyOutside

(* What a host has after one more packet of the answer.                    *)
LEMMA ReadsOn ==
  ASSUME UsbTypes, SendsReply, ctrl_phase = "DATA_IN"
  PROVE  LET both == Start(ctrl_data, Done) \o Packet(ctrl_data, Done)
         IN /\ Left > 0 => /\ both = Start(ctrl_data, Len(ctrl_data) - Left)
                           /\ both # ctrl_data
            /\ Left = 0 => both = ctrl_data
            /\ tx.len < MaxPacket => both = ctrl_data
            /\ Len(both) >= current.wLength => both = ctrl_data
<1> DEFINE both == Start(ctrl_data, Done) \o Packet(ctrl_data, Done)
           last == Least(Done + MaxPacket, Len(ctrl_data))
<1>1. ctrl_data \in Seq(Byte) /\ Len(ctrl_data) \in Nat /\ Done \in 0 .. Len(ctrl_data)
  BY Sending DEF UsbTypes
<1> DEFINE n == Done
<1>2. n \in 0 .. Len(ctrl_data) /\ n \in Nat /\ n <= Len(ctrl_data)
  BY <1>1
<1>3. /\ Left > 0 => Left = Len(ctrl_data) - (n + MaxPacket)
      /\ Left = 0 => Len(ctrl_data) <= n + MaxPacket
  BY Sending
<1>4. both = Start(ctrl_data, n) \o Packet(ctrl_data, n)
  OBVIOUS
<1>5. last = Least(n + MaxPacket, Len(ctrl_data))
  OBVIOUS
<1>6. tx.len = Len(Packet(ctrl_data, n))
  BY DEF SendsReply
<1> HIDE DEF n, both, last
<1>7. both = Start(ctrl_data, last) /\ Len(both) = n + Len(Packet(ctrl_data, n))
  BY <1>1, <1>2, <1>4, <1>5, PacketContinues
<1>8. n + Len(Packet(ctrl_data, n)) = last /\ Len(Packet(ctrl_data, n)) \in 0 .. MaxPacket
  BY <1>1, <1>2, <1>5, PacketShape
<1>9. Start(ctrl_data, Len(ctrl_data)) = ctrl_data
  BY <1>1, StartWhole
<1>10. Len(ctrl_data) <= current.wLength
  BY <1>1, ReplyShape DEF SendsReply, UsbTypes
<1>11. current.wLength \in Nat
  BY Widths DEF UsbTypes, Requests
<1>12. Left > 0 => last = Len(ctrl_data) - Left /\ last # Len(ctrl_data)
  BY <1>1, <1>2, <1>3, <1>5, PacketAssumption DEF Least
<1>13. Left = 0 => last = Len(ctrl_data)
  BY <1>1, <1>2, <1>3, <1>5, PacketAssumption DEF Least
<1>14. tx.len < MaxPacket => last = Len(ctrl_data)
  BY <1>1, <1>2, <1>5, <1>6, <1>8, PacketAssumption DEF Least
<1>15. last >= current.wLength => last = Len(ctrl_data)
  BY <1>1, <1>2, <1>5, <1>10, <1>11, PacketAssumption DEF Least
<1>16. Len(both) = last
  BY <1>7, <1>8
<1> QED BY <1>7, <1>9, <1>12, <1>13, <1>14, <1>15, <1>16 DEF both

LEMMA NothingRead ==
  ASSUME NEW data \in Seq(Byte)
  PROVE  Start(data, 0) = <<>>
<1>1. 0 \in 0 .. Len(data)
  BY LenProperties
<1>2. Start(data, 0) \in Seq(Byte) /\ Len(Start(data, 0)) = 0
  BY <1>1, StartShape
<1> QED BY <1>2, EmptySeq

LEMMA ReadsReplyPoll ==
  ASSUME UsbInv, OnSetup \/ OnIn \/ OnOut \/ OnReset
  PROVE  ReadsReply'
<1>0. UsbTypes /\ Session /\ SendsReply /\ ReadsReply /\ SendsReply'
  BY SendsReplyPoll DEF UsbInv
<1>1. CASE OnSetup
  <2> DEFINE r == transfer.packet
  <2>1. /\ r \in Requests /\ current' = r
        /\ ToDataOut(r) \/ ToStatus(r) \/ ToDataIn(r)
    BY <1>0, <1>1, SetupEffect
  <2>2. /\ transfer'.token = "none" /\ transfer.token = "SETUP"
        /\ UNCHANGED <<stage, asking, expected, received>>
    BY <1>1, NoEventShape DEF OnSetup, Handles
  <2>3. Talking => r = asking /\ expected = TRUE /\ received = <<>>
                   /\ (stage = "status" => asking.wLength = 0)
    BY <1>0, <2>2 DEF Session
  <2> HIDE DEF r
  <2>4. SUFFICES ASSUME Talking, asking.in
                 PROVE  Fresh' /\ stage' # "status"
    BY <2>2 DEF ReadsReply, Heard, Talking
  <2>5. asking.wLength # 0 /\ stage = "data" /\ ToDataIn(r)
    <3>1. asking.wLength # 0
      BY <1>0, <2>4, RequestFacts DEF UsbTypes
    <3>2. stage = "data"
      BY <2>3, <2>4, <3>1 DEF Talking
    <3> QED BY <2>1, <2>3, <2>4, <3>1, <3>2 DEF ToDataOut, ToStatus
  <2> DEFINE data == Reply(r)
  <2>6. data \in Seq(Byte) /\ Len(data) \in Nat
    BY <2>1, ReplyShape, LenProperties
  <2>7. /\ ctrl_phase' = "DATA_IN"
        /\ ctrl_data' = data /\ ctrl_data_remaining' = Len(data) /\ ep0_send(data, TRUE)
    BY <2>5 DEF ToDataIn
  <2> HIDE DEF data
  <2>8. tx' = [ack |-> TRUE, tog |-> TRUE, len |-> Len(Packet(data, 0))]
    BY <1>0, <2>6, <2>7, SendEffect DEF UsbTypes
  <2>9. tx'.tog = TRUE
    BY <2>8
  <2>10. Done' = 0
    BY <2>6, <2>7 DEF Done
  <2>11. Start(data, 0) = <<>>
    BY <2>6, NothingRead
  <2>12. Start(ctrl_data, Done)' = received'
    BY <2>2, <2>3, <2>4, <2>7, <2>10, <2>11
  <2> QED BY <2>2, <2>3, <2>4, <2>5, <2>7, <2>9, <2>12, Zenon DEF Fresh
<1>2. CASE OnIn
  <2>1. /\ SendsOn \/ SentAll \/ Ignored
        /\ UNCHANGED <<ctrl_data, current, stage, asking, expected, received>>
        /\ transfer'.token = "none" /\ transfer.token = "IN"
    BY <1>0, <1>2, InEffect, NoEventShape DEF OnIn, Handles
  <2>2. SUFFICES ASSUME Heard, asking.in
                 PROVE  ReadsReply'
    BY <2>1 DEF ReadsReply, Heard, Talking
  <2>3. /\ Seen \/ Over
        /\ stage = "status" => received = Reply(asking)
        /\ current = asking
    BY <1>0, <2>1, <2>2 DEF ReadsReply, Fresh, Session
  <2>4. Reply(asking)' = Reply(asking)
    BY <2>1
  <2>5. CASE SendsOn
    <3>1. /\ ctrl_phase = "DATA_IN" /\ ctrl_phase' = "DATA_IN" /\ Left > 0
          /\ ctrl_data_remaining' = Left /\ ep0_send(Rest(Left), ep0_tog)
          /\ ctrl_data \in Seq(Byte) /\ ep0_buffer \in Seq(Byte) /\ ep0_tog \in BOOLEAN
      BY <1>0, <2>5 DEF SendsOn, UsbTypes, UsbTypeOK
    <3>2. /\ received = Start(ctrl_data, Len(ctrl_data) - Left)
          /\ received # ctrl_data /\ tx.tog # expected
      BY <1>0, <2>3, <3>1, ReadsOn DEF Seen, Over
    <3>3. ctrl_data = Reply(asking) /\ ep0_tog = ~ tx.tog
      BY <1>0, <2>3, <3>1 DEF SendsReply
    <3>4. stage = "data"
      BY <2>2, <2>3, <3>2, <3>3 DEF Heard, Talking
    <3>5. Left \in 1 .. Len(ctrl_data) /\ Rest(Left) \in Seq(Byte)
      BY <1>0, <3>1, Sending, RestContinues
    <3>6. tx' = [ack |-> TRUE, tog |-> ep0_tog, len |-> Len(Packet(Rest(Left), 0))]
      BY <3>1, <3>5, SendEffect
    <3>7. tx'.tog = ep0_tog
      BY <3>6
    <3>8. tx'.tog = expected'
      <4>1. expected \in BOOLEAN /\ tx.tog \in BOOLEAN
        BY <1>0 DEF UsbTypes, UsbTypeOK
      <4> QED BY <2>1, <3>2, <3>3, <3>7, <4>1, Zenon
    <3>9. received' = Start(ctrl_data, Done)'
      BY <2>1, <3>1, <3>2 DEF Done
    <3> QED BY <2>1, <3>1, <3>4, <3>8, <3>9, Zenon DEF ReadsReply, Fresh
  <2>6. CASE SentAll
    <3>1. /\ ctrl_phase = "DATA_IN" /\ Left = 0 /\ Seen
          /\ ctrl_phase' = "IDLE" /\ tx' = tx
      BY <2>3, <2>6 DEF SentAll, Seen, Over
    <3>2. received = ctrl_data /\ tx.tog # expected
      BY <1>0, <3>1, ReadsOn DEF Seen
    <3>3. ctrl_data = Reply(asking)
      BY <1>0, <2>3, <3>1 DEF SendsReply
    <3> QED BY <2>1, <2>4, <3>1, <3>2, <3>3 DEF ReadsReply, Over
  <2>7. CASE Ignored
    BY <2>1, <2>3, <2>4, <2>7 DEF Ignored, ReadsReply, Seen, Over, Done
  <2> QED BY <2>1, <2>5, <2>6, <2>7
<1>3. CASE OnOut
  <2>1. /\ TakesMore \/ TakesLast \/ TakesNothing
        /\ UNCHANGED <<ctrl_data, current, stage, asking, expected, received>>
        /\ transfer'.token = "none" /\ transfer.token = "OUT"
    BY <1>3, OutEffect, NoEventShape DEF OnOut, Handles
  <2>2. SUFFICES ASSUME Heard, asking.in
                 PROVE  ReadsReply'
    BY <2>1 DEF ReadsReply, Heard, Talking
  <2>3. /\ Seen \/ Over
        /\ stage = "status" => received = Reply(asking)
    BY <1>0, <2>1, <2>2 DEF ReadsReply, Fresh
  <2>4. Reply(asking)' = Reply(asking)
    BY <2>1
  <2>5. TakesNothing
    BY <2>1, <2>3 DEF TakesMore, TakesLast, TakesPacket, Seen, Over
  <2> QED BY <2>1, <2>3, <2>4, <2>5 DEF TakesNothing, ReadsReply, Seen, Over, Done
<1>4. CASE OnReset
  <2>1. bus_rst /\ UNCHANGED stage
    BY <1>4 DEF OnReset
  <2> QED BY <1>0, <2>1 DEF Session, ReadsReply, Heard, Talking
<1> QED BY <1>1, <1>2, <1>3, <1>4

LEMMA ReadsReplyOutside ==
  ASSUME UsbInv, SystemReset \/ Outside \/ UNCHANGED vars
  PROVE  ReadsReply'
<1>0. UsbTypes /\ Session /\ SendsReply /\ ReadsReply
  BY DEF UsbInv
<1>1. CASE SystemReset \/ (\E t \in Transfers : Begin(t)) \/ GiveUp \/ BusReset
  <2>1. stage' \in {"idle", "setup"}
    BY <1>0, <1>1, IdleHost, BeginEffect DEF SystemReset, GiveUp, BusReset
  <2> QED BY <2>1 DEF ReadsReply, Heard, Talking
<1>2. CASE SetupTransaction
  BY <1>2 DEF SetupTransaction, Event, ReadsReply, Heard
<1>3. CASE OutTransaction
  BY <1>3 DEF OutTransaction, ReadsReply
<1>4. CASE InTransaction
  <2> DEFINE data == Start(ep0_buffer, tx.len)
             got  == IF tx.tog = expected THEN received \o data ELSE received
  <2>1. /\ stage = "data" /\ asking.in /\ transfer.token = "none" /\ tx.ack
        /\ received' = got
        /\ expected' = IF tx.tog = expected THEN ~ expected ELSE expected
        /\ stage' = IF tx.tog = expected
                       /\ (tx.len < MaxPacket \/ Len(got) >= asking.wLength)
                    THEN "status" ELSE "data"
        /\ UNCHANGED <<ctrl_phase, ctrl_data, ctrl_data_remaining, current, tx, asking>>
    BY <1>4, Zenon DEF InTransaction, Reaches, Start, ctrlVars
  <2> HIDE DEF data
  <2>2. Fresh \/ Seen \/ Over
    BY <1>0, <2>1 DEF ReadsReply, Heard, Talking
  <2>3. current = asking
    BY <1>0, <2>1 DEF Session, Heard, Talking
  <2>4. expected \in BOOLEAN /\ tx.tog \in BOOLEAN
    BY <1>0 DEF UsbTypes, UsbTypeOK
  <2>5. Reply(asking)' = Reply(asking) /\ Done' = Done
    BY <2>1 DEF Done
  <2>6. CASE Fresh
    <3>1. ctrl_phase = "DATA_IN" /\ tx.tog = expected /\ received = Start(ctrl_data, Done)
      BY <2>6 DEF Fresh
    <3>2. data = Packet(ctrl_data, Done) /\ ctrl_data = Reply(asking)
      BY <1>0, <2>1, <2>3, <3>1 DEF SendsReply, data
    <3> DEFINE both == Start(ctrl_data, Done) \o Packet(ctrl_data, Done)
    <3>3. got = both
      BY <3>1, <3>2
    <3>4. tx.len < MaxPacket \/ Len(both) >= asking.wLength => both = ctrl_data
      BY <1>0, <2>3, <3>1, ReadsOn
    <3>5. both' = both
      BY <2>1, <2>5
    <3> HIDE DEF both, got
    <3>6. received' = both /\ tx'.tog # expected' /\ ctrl_phase' = "DATA_IN"
      BY <2>1, <2>4, <3>1, <3>3, Zenon
    <3>7. Seen'
      BY <3>5, <3>6 DEF Seen, both
    <3>8. stage' = "status" => received' = Reply(asking)'
      BY <2>1, <2>5, <3>1, <3>2, <3>3, <3>4, <3>6, Zenon
    <3> QED BY <3>7, <3>8 DEF ReadsReply
  <2>7. CASE Seen \/ Over
    <3>1. tx.tog # expected
      BY <2>7 DEF Seen, Over
    <3>2. received' = received /\ expected' = expected /\ stage' = "data"
      BY <2>1, <3>1
    <3> QED BY <2>1, <2>5, <2>7, <3>2 DEF ReadsReply, Seen, Over
  <2> QED BY <2>2, <2>6, <2>7
<1>5. CASE StatusTransaction
  <2>1. /\ stage = "status" /\ transfer.token = "none"
        /\ HostIdle \/ UNCHANGED <<stage, asking, expected, received>>
        /\ UNCHANGED <<ctrl_phase, ctrl_data, ctrl_data_remaining, tx>>
    BY <1>5 DEF StatusTransaction, Reaches, ctrlVars
  <2>2. CASE HostIdle
    BY <2>2 DEF HostIdle, ReadsReply, Heard, Talking
  <2>3. CASE UNCHANGED <<stage, asking, expected, received>>
    <3>1. asking.in => (Seen \/ Over) /\ received = Reply(asking)
      BY <1>0, <2>1 DEF ReadsReply, Heard, Talking, Fresh
    <3>2. Reply(asking)' = Reply(asking) /\ Done' = Done
      BY <2>1, <2>3 DEF Done
    <3> QED BY <2>1, <2>3, <3>1, <3>2 DEF ReadsReply, Seen, Over
  <2> QED BY <2>1, <2>2, <2>3
<1>6. CASE UNCHANGED vars
  <2>1. UNCHANGED <<ctrl_phase, ctrl_data, ctrl_data_remaining, tx, transfer, stage, asking,
                    expected, received>>
    BY <1>6 DEF vars, deviceVars, ctrlVars, hostVars
  <2>2. Reply(asking)' = Reply(asking) /\ Done' = Done
    BY <2>1 DEF Done
  <2> QED BY <1>0, <2>1, <2>2 DEF ReadsReply, Heard, Talking, Fresh, Seen, Over
<1> QED BY <1>1, <1>2, <1>3, <1>4, <1>5, <1>6 DEF Outside, HostStep

LEMMA ReadsReplyNext ==
  ASSUME UsbInv, [Next]_vars PROVE ReadsReply'
BY StepCases, ReadsReplyPoll, ReadsReplyOutside

(***************************************************************************)
(* The block of an OUT transfer.                                           *)
(***************************************************************************)
LEMMA BlockShape ==
  ASSUME NEW r \in Requests
  PROVE  /\ r.wLength \in 0 .. (Words - 1)
         /\ Block(r) \in Seq(Byte) /\ Len(Block(r)) = r.wLength
         /\ ~ r.in => r.wLength <= BufferSize
<1>1. r.tag \in {0, 1} /\ r.wLength \in 0 .. (Words - 1) /\ (~ r.in => r.wLength <= BufferSize)
  BY DEF Requests
<1>2. r.wLength \in Nat
  BY <1>1, Widths
<1> QED BY <1>1, <1>2, BytesShape DEF Block

LEMMA Receiving ==
  ASSUME UsbTypes, Session, Filling, ctrl_phase = "DATA_OUT", transfer.token = "OUT"
  PROVE  LET both == dfu_rx \o NextPacket
         IN /\ Taken = both /\ both = Start(Block(current), Len(both))
            /\ Len(both) \in Nat /\ Len(both) <= current.wLength
            /\ Missing = current.wLength - Len(both)
            /\ AllReceived(Missing) => both = Block(current) /\ Len(both) = current.wLength
            /\ ~ AllReceived(Missing) => Len(both) < current.wLength
<1> DEFINE n == Len(dfu_rx)
           data == Block(current)
           next == Packet(data, n)
           both == dfu_rx \o next
           last == Least(n + MaxPacket, Len(data))
<1>1. /\ data \in Seq(Byte) /\ Len(data) = current.wLength
      /\ current.wLength \in 0 .. (Words - 1) /\ current.wLength <= BufferSize
  BY BlockShape DEF UsbTypes, Session
<1>2. n \in Nat /\ dfu_rx \in Seq(Byte)
  BY LenProperties DEF UsbTypes
<1>3. /\ n < current.wLength /\ ctrl_data_remaining = current.wLength - n
      /\ dfu_rx = Start(data, n)
      /\ transfer.len = Len(next) /\ Start(ep0_buffer, transfer.len) = next
  BY DEF Filling, NextPacket
<1>4. Taken = IF n + transfer.len <= BufferSize
              THEN dfu_rx \o Start(ep0_buffer, transfer.len) ELSE dfu_rx
  BY DEF Taken, Start
<1>5. Missing = (ctrl_data_remaining - transfer.len) % Words
  BY DEF Missing
<1>6. AllReceived(Missing) <=> Missing = 0 \/ transfer.len < MaxPacket
  BY DEF AllReceived
<1>7. both = Start(data, n) \o next
  BY <1>3
<1> HIDE DEF data
<1>8. Len(data) \in Nat /\ n \in 0 .. Len(data) /\ n <= Len(data)
  BY <1>1, <1>2, <1>3, Widths
<1> HIDE DEF n
<1>9. Start(data, n) \o next = Start(data, last) /\ Len(Start(data, n) \o next) = n + Len(next)
  BY <1>1, <1>8, PacketContinues
<1>10. n + Len(next) = last /\ Len(next) \in 0 .. MaxPacket
  BY <1>1, <1>2, <1>8, PacketShape
<1>11. Start(data, Len(data)) = data
  BY <1>1, StartWhole
<1>12. Len(next) \in Nat /\ last <= Len(data) /\ (Len(next) < MaxPacket => last = Len(data))
  BY <1>2, <1>8, <1>10, PacketAssumption DEF Least
<1>13. last \in Nat
  BY <1>2, <1>10, <1>12
<1> HIDE DEF next, last, both
<1>14. both = Start(data, last) /\ Len(both) = last
  BY <1>7, <1>9, <1>10
<1>15. Taken = both
  <2>1. n + transfer.len <= BufferSize
    BY <1>1, <1>2, <1>3, <1>8, <1>10, <1>12, <1>13, PacketAssumption
  <2> QED BY <1>3, <1>4, <2>1 DEF both, next
<1>16. Missing = current.wLength - last
  <2>1. ctrl_data_remaining - transfer.len = current.wLength - last
    BY <1>1, <1>2, <1>3, <1>10, <1>12, Widths
  <2>2. current.wLength - last \in 0 .. (Words - 1)
    BY <1>1, <1>12, <1>13, Widths
  <2> QED BY <1>5, <2>1, <2>2, WordRange, Widths
<1>17. AllReceived(Missing) => last = Len(data)
  BY <1>1, <1>3, <1>6, <1>8, <1>12, <1>13, <1>16
<1>18. ~ AllReceived(Missing) => last < Len(data)
  BY <1>1, <1>6, <1>8, <1>12, <1>13, <1>16
<1>19. both = dfu_rx \o NextPacket
  BY DEF both, next, data, n, NextPacket
<1>20. /\ Taken = both /\ both = Start(data, Len(both))
       /\ Len(both) \in Nat /\ Len(both) <= current.wLength
       /\ Missing = current.wLength - Len(both)
       /\ AllReceived(Missing) => both = data /\ Len(both) = current.wLength
       /\ ~ AllReceived(Missing) => Len(both) < current.wLength
  BY <1>1, <1>11, <1>12, <1>13, <1>14, <1>15, <1>16, <1>17, <1>18
<1> QED BY <1>19, <1>20, Zenon DEF data

LEMMA BlocksPoll ==
  ASSUME UsbInv, NoneRepeated, OnSetup \/ OnIn \/ OnOut \/ OnReset
  PROVE  WholeBlocks'
<1>0. UsbTypes /\ Session /\ BlockWhole /\ Filling /\ SendsBlock
  BY DEF UsbInv, WholeBlocks
<1>1. CASE OnSetup
  <2> DEFINE r == transfer.packet
  <2>1. /\ r \in Requests /\ current' = r /\ delivered' = <<>>
        /\ ToDataOut(r) \/ ToStatus(r) \/ ToDataIn(r)
    BY <1>0, <1>1, SetupEffect
  <2>2. /\ transfer'.token = "none" /\ transfer.token = "SETUP"
        /\ UNCHANGED <<stage, asking, expected, received>>
    BY <1>1, NoEventShape DEF OnSetup, Handles
  <2>3. Talking => r = asking /\ received = <<>> /\ (stage = "status" => asking.wLength = 0)
    BY <1>0, <2>2 DEF Session
  <2> HIDE DEF r
  <2>4. BlockWhole'
    BY <2>1 DEF BlockWhole
  <2>5. CASE ToDataOut(r)
    <3> DEFINE block == Block(r)
    <3>1. block \in Seq(Byte) /\ r.wLength \in Nat
      BY <2>1, BlockShape, Widths
    <3>2. Block(current)' = block
      BY <2>1 DEF Block
    <3> HIDE DEF block
    <3>3. Start(block, 0) = <<>> /\ Len(<<>>) = 0
      BY <3>1, NothingRead, EmptySeq
    <3>4. /\ ctrl_phase' = "DATA_OUT" /\ ctrl_data_remaining' = r.wLength
          /\ dfu_rx' = <<>> /\ r.wLength > 0
      BY <2>5 DEF ToDataOut
    <3>5. Len(dfu_rx)' = 0 /\ 0 < r.wLength /\ r.wLength - 0 = r.wLength
      BY <3>1, <3>3, <3>4
    <3>6. Filling'
      BY <2>1, <2>2, <3>2, <3>3, <3>4, <3>5 DEF Filling
    <3>7. SendsBlock'
      BY <2>2, <2>3, <3>4, <3>5 DEF SendsBlock, Heard, Talking
    <3> QED BY <2>4, <3>6, <3>7 DEF WholeBlocks
  <2>6. CASE ToStatus(r) \/ ToDataIn(r)
    <3>1. ctrl_phase' # "DATA_OUT" /\ (r.in \/ r.wLength = 0)
      BY <2>6 DEF ToStatus, ToDataIn
    <3>2. SendsBlock'
      BY <2>2, <2>3, <3>1 DEF SendsBlock, Heard, Talking
    <3> QED BY <2>4, <3>1, <3>2 DEF WholeBlocks, Filling
  <2> QED BY <2>1, <2>5, <2>6
<1>2. CASE OnIn
  <2>1. /\ UNCHANGED <<dfu_rx, current, delivered, stage, asking>>
        /\ SendsOn \/ SentAll \/ Ignored
        /\ transfer'.token = "none" /\ transfer.token = "IN"
    BY <1>0, <1>2, InEffect, NoEventShape DEF OnIn, Handles
  <2>2. Block(current)' = Block(current)
    BY <2>1
  <2>3. ctrl_phase' = "DATA_OUT" => ctrl_phase = "DATA_OUT" /\ UNCHANGED ctrl_data_remaining
    BY <2>1 DEF SendsOn, SentAll, Ignored
  <2>4. Talking => asking.in
    BY <1>0, <2>1 DEF Session
  <2>5. BlockWhole' /\ Filling'
    BY <1>0, <2>1, <2>2, <2>3 DEF BlockWhole, Filling
  <2> QED BY <2>1, <2>4, <2>5 DEF WholeBlocks, SendsBlock, Heard, Talking
<1>3. CASE OnOut
  <2>1. /\ UNCHANGED <<current, stage, asking, received>>
        /\ TakesMore \/ TakesLast \/ TakesNothing
        /\ transfer'.token = "none" /\ transfer.token = "OUT"
    BY <1>3, OutEffect, NoEventShape DEF OnOut, Handles
  <2>2. Block(current)' = Block(current) /\ Block(asking)' = Block(asking)
    BY <2>1
  <2> DEFINE both == dfu_rx \o NextPacket
  <2>3. ASSUME TakesPacket
        PROVE  /\ dfu_rx' = both /\ both = Start(Block(current), Len(both))
               /\ ctrl_data_remaining' = current.wLength - Len(both)
               /\ AllReceived(Missing) => both = Block(current) /\ Len(both) = current.wLength
               /\ ~ AllReceived(Missing) => Len(both) < current.wLength
               /\ Taken = both
    BY <1>0, <2>1, <2>3, Receiving DEF TakesPacket
  <2>4. Heard /\ ~ asking.in /\ asking.wLength > 0 =>
          /\ ctrl_phase = "DATA_OUT" /\ received = both
          /\ stage = "status" <=> Len(received) = asking.wLength
          /\ current = asking
    BY <1>0, <2>1 DEF SendsBlock, Session
  <2>5. current.wLength \in Nat
    BY <1>0, Widths DEF UsbTypes, Requests
  <2> HIDE DEF both
  <2>6. CASE TakesMore
    <3>1. /\ TakesPacket /\ ~ AllReceived(Missing)
          /\ UNCHANGED <<delivered, ctrl_phase>>
      BY <2>6 DEF TakesMore
    <3>2. BlockWhole' /\ Filling'
      BY <1>0, <2>1, <2>2, <2>3, <3>1 DEF BlockWhole, Filling
    <3>3. Len(both) < current.wLength /\ Len(both) # current.wLength
      <4>1. Len(both) < current.wLength
        BY <2>3, <3>1
      <4>2. dfu_rx \in Seq(Byte) /\ NextPacket \in Seq(Byte)
        <5>1. Block(current) \in Seq(Byte) /\ Len(dfu_rx) \in Nat
          BY <1>0, BlockShape, LenProperties DEF UsbTypes
        <5> QED BY <1>0, <5>1, PacketShape DEF UsbTypes, NextPacket
      <4>3. Len(both) \in Nat
        BY <4>2, ConcatProperties, LenProperties DEF both
      <4> QED BY <2>5, <4>1, <4>3
    <3>4. SendsBlock'
      BY <2>1, <2>3, <2>4, <3>1, <3>3 DEF SendsBlock, Heard, Talking
    <3> QED BY <3>2, <3>4 DEF WholeBlocks
  <2>7. CASE TakesLast
    <3>1. /\ TakesPacket /\ AllReceived(Missing)
          /\ delivered' = IF current.bRequest = DFU_DNLOAD THEN Taken ELSE delivered
          /\ ctrl_phase' = "IDLE" /\ ep0_send(<<>>, ep0_tog)
      BY <2>7 DEF TakesLast
    <3>2. Taken = Block(current) /\ both = Block(current) /\ Len(both) = current.wLength
      BY <2>3, <3>1
    <3>3. BlockWhole'
      BY <1>0, <2>1, <2>2, <3>1, <3>2 DEF BlockWhole, Block
    <3>4. tx'.len = 0
      BY <1>0, <3>1, SendEmpty DEF UsbTypes, UsbTypeOK
    <3>5. SendsBlock'
      BY <2>1, <2>2, <2>4, <3>1, <3>2, <3>4 DEF SendsBlock, Heard, Talking
    <3> QED BY <3>1, <3>3, <3>5 DEF WholeBlocks, Filling
  <2>8. CASE TakesNothing
    <3>1. /\ ctrl_phase # "DATA_OUT"
          /\ UNCHANGED <<ctrl_phase, delivered>>
      BY <2>8 DEF TakesNothing
    <3>2. BlockWhole' /\ Filling'
      BY <1>0, <2>1, <2>2, <3>1 DEF BlockWhole, Filling
    <3>3. SendsBlock'
      BY <2>1, <2>4, <3>1 DEF SendsBlock, Heard, Talking
    <3> QED BY <3>2, <3>3 DEF WholeBlocks
  <2> QED BY <2>1, <2>6, <2>7, <2>8
<1>4. CASE OnReset
  <2>1. ctrl_phase' = "IDLE" /\ delivered' = <<>> /\ bus_rst /\ UNCHANGED stage
    BY <1>4 DEF OnReset, HandleBusReset
  <2> QED BY <1>0, <2>1 DEF Session, WholeBlocks, BlockWhole, Filling, SendsBlock, Heard, Talking
<1> QED BY <1>1, <1>2, <1>3, <1>4

LEMMA BlocksOutside ==
  ASSUME UsbInv, NoneRepeated, SystemReset \/ Outside \/ UNCHANGED vars
  PROVE  WholeBlocks'
<1>0. UsbTypes /\ Session /\ ReadsReply /\ BlockWhole /\ Filling /\ SendsBlock
  BY DEF UsbInv, WholeBlocks
<1>1. CASE SystemReset
  <2>1. ctrl_phase' = "IDLE" /\ delivered' = <<>> /\ stage' = "idle"
    BY <1>1 DEF SystemReset, HostIdle
  <2> QED BY <2>1 DEF WholeBlocks, BlockWhole, Filling, SendsBlock, Heard, Talking
<1>2. CASE Outside \/ UNCHANGED vars
  <2>1. UNCHANGED <<ctrl_phase, ctrl_data_remaining, dfu_rx, current, tx, delivered>>
    BY <1>2, OutsideKeeps DEF vars, deviceVars, ctrlVars
  <2>2. Block(current)' = Block(current) /\ NextPacket' = NextPacket
    BY <2>1 DEF NextPacket
  <2>3. BlockWhole'
    BY <1>0, <2>1, <2>2 DEF BlockWhole
  <2>4. CASE OutTransaction
    <3> DEFINE data == Packet(Block(asking), Len(received))
    <3>1. /\ stage = "data" /\ ~ asking.in /\ transfer.token = "none"
          /\ Event("OUT", Len(data)) /\ ep0_buffer' = Overlay(data)
          /\ received' = received \o data
          /\ stage' = IF Len(received') = asking.wLength THEN "status" ELSE "data"
          /\ UNCHANGED asking
      BY <2>4, NoneRepeated DEF OutTransaction, Reaches, Block, Handshake, NoneRepeated
    <3>2. Heard /\ asking.wLength > 0 /\ current = asking
      BY <1>0, <3>1 DEF Session, Heard, Talking
    <3>3. ctrl_phase = "DATA_OUT" /\ received = dfu_rx
      BY <1>0, <3>1, <3>2 DEF SendsBlock
    <3>4. data = NextPacket
      BY <3>2, <3>3 DEF NextPacket
    <3>5. data \in Seq(Byte) /\ Len(data) \in 0 .. MaxPacket
      <4>1. Block(asking) \in Seq(Byte) /\ Len(received) \in Nat
        BY <1>0, BlockShape, LenProperties DEF UsbTypes
      <4> QED BY <4>1, PacketShape
    <3> HIDE DEF data
    <3>6. Start(ep0_buffer', Len(data)) = data
      BY <1>0, <3>1, <3>5, OverlayShape DEF UsbTypes
    <3>7. transfer'.token = "OUT" /\ transfer'.len = Len(data)
      BY <1>0, <3>1, <3>5, EventShape DEF Tokens
    <3>8. Filling'
      BY <1>0, <2>1, <2>2, <3>4, <3>6, <3>7 DEF Filling
    <3>9. SendsBlock'
      <4>1. received' = (dfu_rx \o NextPacket)'
        BY <2>1, <2>2, <3>1, <3>3, <3>4
      <4>2. stage' = "status" <=> Len(received)' = asking'.wLength
        BY <3>1
      <4> QED BY <2>1, <3>3, <3>7, <4>1, <4>2 DEF SendsBlock
    <3> QED BY <2>3, <3>8, <3>9 DEF WholeBlocks
  <2>5. CASE StatusTransaction
    <3>1. /\ stage = "status" /\ transfer.token = "none" /\ ep0_buffer' = ep0_buffer
          /\ stage' = "idle" \/ (asking.in /\ asking' = asking)
          /\ transfer'.token = "OUT" => asking.in
      BY <2>5 DEF StatusTransaction, Reaches, Event, HostIdle
    <3>2. ctrl_phase = "DATA_OUT" => ~ asking.in
      BY <1>0, <3>1 DEF ReadsReply, Heard, Talking, Fresh, Seen, Over
    <3>3. Filling'
      BY <1>0, <2>1, <2>2, <3>1, <3>2 DEF Filling
    <3> QED BY <2>3, <3>1, <3>3 DEF WholeBlocks, SendsBlock, Heard, Talking
  <2>6. CASE SetupTransaction
    <3>1. transfer'.token = "SETUP"
      BY <2>6 DEF SetupTransaction, Event
    <3> QED BY <1>0, <2>1, <2>2, <2>3, <3>1 DEF WholeBlocks, Filling, SendsBlock, Heard
  <2>7. CASE InTransaction
    <3>1. transfer'.token # "OUT" /\ asking.in /\ asking' = asking
      BY <2>7 DEF InTransaction, Reaches, Event
    <3> QED BY <1>0, <2>1, <2>2, <2>3, <3>1 DEF WholeBlocks, Filling, SendsBlock
  <2>8. CASE (\E t \in Transfers : Begin(t)) \/ GiveUp \/ BusReset
    <3>1. stage' \in {"idle", "setup"} /\ UNCHANGED <<ep0_buffer, transfer>>
      BY <1>0, <2>8, IdleHost, BeginEffect DEF GiveUp, BusReset, deviceVars
    <3>2. Filling'
      BY <1>0, <2>1, <2>2, <3>1 DEF Filling
    <3> QED BY <2>3, <3>1, <3>2 DEF WholeBlocks, SendsBlock, Heard, Talking
  <2>9. CASE UNCHANGED vars
    <3>1. UNCHANGED <<ep0_buffer, transfer, stage, asking, received>>
      BY <2>9 DEF vars, deviceVars, hostVars
    <3>2. Filling'
      BY <1>0, <2>1, <2>2, <3>1 DEF Filling
    <3>3. SendsBlock'
      BY <1>0, <2>1, <2>2, <3>1 DEF SendsBlock, Heard, Talking, Block
    <3> QED BY <2>3, <3>2, <3>3 DEF WholeBlocks
  <2> QED BY <1>2, <2>4, <2>5, <2>6, <2>7, <2>8, <2>9 DEF Outside, HostStep
<1> QED BY <1>1, <1>2

LEMMA BlocksNext ==
  ASSUME UsbInv, NoneRepeated, [Next]_vars PROVE WholeBlocks'
BY StepCases, BlocksPoll, BlocksOutside

(***************************************************************************)
(* The invariant, and what follows from it.                                *)
(***************************************************************************)
LEMMA UsbInvInit ==
  ASSUME Init PROVE UsbInv
<1>1. <<>> \in Seq(Byte) /\ Len(<<>>) = 0 /\ 0 \in 0 .. (Addresses - 1) /\ 0 \in 0 .. (Words - 1)
      /\ 0 \in 0 .. MaxPacket /\ 0 <= BufferSize /\ MaxFaults \in 0 .. MaxFaults
  BY EmptySeq, Widths, PacketAssumption
<1>2. /\ NoRequest \in Requests /\ NoRequest.class = FALSE /\ ~ SetsAddress(NoRequest)
  BY NoRequestShape DEF NoRequest, SetsAddress, USB_REQ_SET_ADDRESS
<1>3. /\ tx \in [ack : BOOLEAN, tog : BOOLEAN, len : 0 .. MaxPacket] /\ tx.ack = FALSE
  BY <1>1 DEF Init
<1>4. UsbTypes
  BY <1>1, <1>2, <1>3, NoEventShape DEF Init, UsbTypes, UsbTypeOK
<1>5. Addressing
  BY <1>2, NoEventShape DEF Init, Addressing, AddressAgrees
<1>6. Session /\ SendsReply /\ ReadsReply /\ WholeBlocks
  BY DEF Init, Session, SendsReply, ReadsReply, WholeBlocks, BlockWhole, Filling, SendsBlock,
     Heard, Talking
<1> QED BY <1>4, <1>5, <1>6 DEF UsbInv

LEMMA UsbInvNext ==
  ASSUME UsbInv, [Next]_vars PROVE UsbInv'
<1>1. NoneRepeated => WholeBlocks'
  BY BlocksNext
<1> QED BY <1>1, TypesNext, AddressingNext, SessionNext, SendsReplyNext, ReadsReplyNext
        DEF UsbInv, NoneRepeated

LEMMA UsbInvariant == Spec => []UsbInv
BY UsbInvInit, UsbInvNext, PTL DEF Spec

(* Every register and counter of the endpoint keeps its range: the count   *)
(* of missing bytes, the address, the packet length the controller is      *)
(* given and the buffer it is taken from (usb.cpp:131-147, 362-544).       *)
THEOREM UsbTypeCorrect == Spec => []UsbTypeOK
<1>1. UsbInv => UsbTypeOK
  BY DEF UsbInv, UsbTypes
<1> QED BY <1>1, UsbInvariant, PTL

(* Device and host agree on the address, GETSTATE and its bRequest of 5    *)
(* notwithstanding (usb.cpp:464-478, 528).                                 *)
THEOREM AddressesAgree == Spec => []AddressAgrees
<1>1. UsbInv => AddressAgrees
  BY DEF UsbInv, Addressing
<1> QED BY <1>1, UsbInvariant, PTL

(* A host that has its IN data has the answer to its own request, cut to   *)
(* the length it asked for, whatever was lost, repeated, abandoned or      *)
(* reset before (usb.cpp:362-427, 443-470).                                *)
THEOREM RepliesAreWhole == Spec => []ReplyWhole
<1>1. ASSUME UsbInv PROVE ReplyWhole
  <2>1. UsbTypes /\ Session /\ ReadsReply
    BY <1>1 DEF UsbInv
  <2>2. stage = "status" /\ asking.in => transfer.token # "SETUP"
    BY <2>1, RequestFacts DEF Session, Talking, UsbTypes
  <2> QED BY <2>1, <2>2 DEF ReadsReply, ReplyWhole, Heard, Talking, Reply
<1> QED BY <1>1, UsbInvariant, PTL

(* The data handler is called with the whole block of the request, where   *)
(* the bus repeats no OUT packet (usb.cpp:482-517).                        *)
THEOREM BlocksAreWhole ==
  ASSUME "out" \notin Losses PROVE Spec => []BlockWhole
<1>1. UsbInv => BlockWhole
  BY DEF UsbInv, WholeBlocks, NoneRepeated
<1> QED BY <1>1, UsbInvariant, PTL

LEMMA StatusFollows ==
  ASSUME NoneRepeated, UsbInv PROVE StatusMeansHandled
<1>1. UsbTypes /\ Session /\ SendsBlock
  BY DEF UsbInv, WholeBlocks
<1>2. SUFFICES ASSUME stage = "status", ~ asking.in, Reaches
               PROVE  /\ tx.len = 0 /\ current = asking
                      /\ asking.bRequest = DFU_DNLOAD /\ asking.wLength > 0 =>
                           delivered = Bytes(asking.tag, asking.wLength)
  BY DEF StatusMeansHandled
<1>3. Heard /\ transfer.token = "none"
  BY <1>2 DEF Heard, Talking, Reaches
<1>4. asking.wLength \in Nat
  BY <1>1, Widths DEF UsbTypes, Requests
<1>5. CASE asking.wLength = 0
  BY <1>1, <1>2, <1>3, <1>5 DEF Session
<1>6. CASE asking.wLength > 0
  BY <1>1, <1>2, <1>3, <1>6 DEF Session, SendsBlock, Block
<1> QED BY <1>4, <1>5, <1>6

(* The status packet a host finds is its own, empty, and behind the data   *)
(* handler's call, where the bus repeats no OUT packet (usb.cpp:496-511).  *)
THEOREM StatusIsHandled ==
  ASSUME "out" \notin Losses PROVE Spec => []StatusMeansHandled
BY UsbInvariant, StatusFollows, PTL DEF NoneRepeated

(***************************************************************************)
(* The endpoint is the pipe dfu.cpp takes its blocks from.                 *)
(***************************************************************************)
LEMMA PipeStep ==
  ASSUME "out" \notin Losses, UsbInv, [Next]_vars
  PROVE  [Pipe!Request \/ Pipe!Deliver]_<<BlockDue, delivered>>
<1> USE DEF Pipe!Request, Pipe!Deliver
<1>0. UsbTypes /\ Session /\ WholeBlocks
  BY DEF UsbInv, NoneRepeated
<1>1. CASE OnSetup
  <2> DEFINE r == transfer.packet
  <2>1. /\ r \in Requests /\ current' = r /\ delivered' = <<>>
        /\ ToDataOut(r) \/ ToStatus(r) \/ ToDataIn(r)
    BY <1>0, <1>1, SetupEffect
  <2> HIDE DEF r
  <2>2. BlockDue' \in PipeBlocks \cup {<<>>}
    <3>1. CASE ToDataOut(r)
      <4>1. r.tag \in {0, 1} /\ r.wLength \in Nat /\ r.wLength > 0 /\ r.wLength <= BufferSize
        BY <2>1, <3>1, Widths DEF ToDataOut, Requests
      <4>2. r.wLength \in 1 .. BufferSize
        BY <4>1, PacketAssumption
      <4>3. Bytes(r.tag, r.wLength) \in PipeBlocks
        BY <4>1, <4>2 DEF PipeBlocks
      <4> QED BY <2>1, <4>3 DEF BlockDue, Bytes
    <3>2. CASE ToStatus(r) \/ ToDataIn(r)
      BY <3>2 DEF ToStatus, ToDataIn, BlockDue
    <3> QED BY <2>1, <3>1, <3>2
  <2> QED BY <2>1, <2>2
<1>2. CASE OnIn
  <2>1. /\ UNCHANGED <<current, delivered>>
        /\ ctrl_phase' = "DATA_OUT" <=> ctrl_phase = "DATA_OUT"
    BY <1>0, <1>2, InEffect DEF SendsOn, SentAll, Ignored
  <2> QED BY <2>1 DEF BlockDue, Bytes
<1>3. CASE OnOut
  <2>1. /\ UNCHANGED current /\ transfer.token = "OUT"
        /\ TakesMore \/ TakesLast \/ TakesNothing
    BY <1>3, OutEffect DEF OnOut, Handles
  <2>2. CASE TakesMore \/ TakesNothing
    <3>1. UNCHANGED <<ctrl_phase, delivered>>
      BY <2>2 DEF TakesMore, TakesNothing
    <3> QED BY <2>1, <3>1 DEF BlockDue, Bytes
  <2>3. CASE TakesLast
    <3>1. /\ ctrl_phase = "DATA_OUT" /\ AllReceived(Missing) /\ ctrl_phase' = "IDLE"
          /\ delivered' = IF current.bRequest = DFU_DNLOAD THEN Taken ELSE delivered
      BY <2>3 DEF TakesLast, TakesPacket
    <3>2. BlockDue' = <<>>
      BY <3>1 DEF BlockDue
    <3>3. CASE current.bRequest = DFU_DNLOAD
      <4>1. BlockDue = Block(current) /\ delivered' = Block(current)
        <5>1. Taken = Block(current)
          BY <1>0, <2>1, <3>1, Receiving DEF WholeBlocks
        <5> QED BY <3>1, <3>3, <5>1 DEF BlockDue, Block
      <4>2. Block(current) # <<>>
        <5>1. Len(Block(current)) = current.wLength /\ current.wLength > 0
          BY <1>0, <3>1, BlockShape DEF UsbTypes, Session
        <5>2. Len(<<>>) = 0 /\ current.wLength \in Nat
          BY <1>0, EmptySeq, Widths DEF UsbTypes, Requests
        <5> QED BY <5>1, <5>2
      <4> QED BY <3>2, <4>1, <4>2
    <3>4. CASE current.bRequest # DFU_DNLOAD
      <4>1. BlockDue = <<>> /\ delivered' = delivered
        BY <3>1, <3>4 DEF BlockDue
      <4> QED BY <3>2, <4>1
    <3> QED BY <3>3, <3>4
  <2> QED BY <2>1, <2>2, <2>3
<1>4. CASE OnReset \/ SystemReset
  <2>1. ctrl_phase' = "IDLE" /\ delivered' = <<>>
    BY <1>4 DEF OnReset, HandleBusReset, SystemReset
  <2> QED BY <2>1 DEF BlockDue
<1>5. CASE Outside \/ UNCHANGED vars
  <2>1. UNCHANGED <<ctrl_phase, current, delivered>>
    BY <1>5, OutsideKeeps DEF vars, deviceVars, ctrlVars
  <2> QED BY <2>1 DEF BlockDue, Bytes
<1> QED BY <1>1, <1>2, <1>3, <1>4, <1>5, StepCases

(* The data handler is called at most once for a DNLOAD, before any other  *)
(* request is handled, and with exactly the bytes announced: the guard of  *)
(* Dfu.tla's data handler, where the bus repeats no OUT packet             *)
(* (usb.cpp:362-517).                                                      *)
THEOREM UsbImplementsPipe ==
  ASSUME "out" \notin Losses PROVE Spec => ImplementsPipe
<1>1. Init => Pipe!PipeInit
  BY DEF Init, BlockDue, Pipe!PipeInit
<1>2. UsbInv /\ [Next]_vars => [Pipe!Request \/ Pipe!Deliver]_<<BlockDue, delivered>>
  BY PipeStep
<1>3. UsbInv /\ [Next]_vars => [Pipe!Request \/ Pipe!Deliver]_Pipe!pipeVars
  BY <1>2 DEF Pipe!pipeVars
<1> QED BY <1>1, <1>3, UsbInvariant, PTL DEF Spec, ImplementsPipe, Pipe!PipeSpec
=============================================================================
