----------------------------- MODULE FlashDevice ---------------------------
(***************************************************************************)
(* The flash driver as its callers see it: a call is made, and it ends in  *)
(* one step, with the effect and the result Flash gives that operation.    *)
(* The state machines of the DFU device and of the update are built on     *)
(* these operations; Fmc shows that the driver provides them.              *)
(***************************************************************************)
EXTENDS Flash

CONSTANTS
  Calls,      \* what may be asked for: [mode, page] or [mode, page, datum]
  NoCall

VARIABLES
  call,       \* what was asked for and is not done yet
  result      \* what the last call returned

(* The operation of each mode of the controller.                           *)
Effect(c, ok) ==
  \/ c.mode = "FASTERASE"   /\ fmc_erase_page(c.page, ok)
  \/ c.mode = "BER32"       /\ fmc_erase_32k(c.page, ok)
  \/ c.mode = "FASTPROGRAM" /\ fmc_write_block(c.page, c.datum, ok)

DeviceInit == FlashInit /\ call = NoCall /\ result = TRUE

Ask(c) == call = NoCall /\ call' = c /\ UNCHANGED <<flashVars, result>>

Answer(ok) ==
  /\ call # NoCall /\ call' = NoCall
  /\ Effect(call, ok)
  /\ result' = ok

DeviceNext == (\E c \in Calls : Ask(c)) \/ (\E ok \in BOOLEAN : Answer(ok))

DeviceSpec == DeviceInit /\ [][DeviceNext]_<<flashVars, call, result>>
=============================================================================
