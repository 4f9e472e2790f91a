------------------------------- MODULE MCUsb -------------------------------
(***************************************************************************)
(* The control transfers of a DFU session for TLC, with packets of two     *)
(* bytes: replies of one byte (a state), one packet and a half (a string), *)
(* more and less than the host asks for, and none (UPLOAD); blocks that    *)
(* end in a short packet, in a full one, and fill the buffer.              *)
(***************************************************************************)
EXTENDS Usb

In(class, bRequest, wLength, reply) ==
  [class |-> class, bRequest |-> bRequest, in |-> TRUE, wLength |-> wLength,
   reply |-> reply, value |-> 0]

Out(class, bRequest, wLength, value) ==
  [class |-> class, bRequest |-> bRequest, in |-> FALSE, wLength |-> wLength,
   reply |-> 0, value |-> value]

Setting == {Out(FALSE, USB_REQ_SET_ADDRESS, 0, 1)}
Describing == {In(FALSE, 6, 2, 3), In(FALSE, 6, 4, 3)}
Polling == {In(TRUE, DFU_GETSTATE, 1, 1), In(TRUE, 2, 2, 0)}
Sending == {Out(TRUE, DFU_DNLOAD, n, 0) : n \in {0, 3, 4}} \cup {Out(TRUE, 4, 0, 0)}

MCTransfers == Setting \cup Describing \cup Polling \cup Sending
=============================================================================
