------------------------------ MODULE AppSlot ------------------------------
(***************************************************************************)
(* What the bootloader promises about the application, seen from outside:  *)
(* a slot holds one version or none, only the update the user asked for    *)
(* puts a version there, and the processor runs nothing but what the slot  *)
(* holds, or what is there of a version that asked not to be checked.  A   *)
(* version in the slot has the right checksum; words the checksum does not *)
(* cover may be lost while it is there, and come back only with an update. *)
(* Update.tla implements it.                                               *)
(***************************************************************************)
CONSTANTS Versions, Unchecked, Nothing

VARIABLES
  slot,      \* the version whose checksum is right, or Nothing
  intact,    \* every word of it is there
  wanted,    \* the version of the last update begun, or Nothing
  running    \* the version the processor executes, or Nothing

slotVars == <<slot, intact, wanted, running>>

SlotInit ==
  slot = Nothing /\ intact = FALSE /\ wanted = Nothing /\ running = Nothing

Ask(v) == running = Nothing /\ wanted' = v /\ UNCHANGED <<slot, intact, running>>

(* An update has touched the installed version: it is gone, or stage 1     *)
(* cannot tell.                                                            *)
Damage ==
  /\ running = Nothing
  /\ slot' \in {slot, Nothing} /\ intact' = FALSE
  /\ UNCHANGED <<wanted, running>>

(* The last missing page arrived.                                          *)
Install ==
  /\ running = Nothing /\ slot = Nothing /\ wanted # Nothing
  /\ slot' = wanted /\ intact' \in BOOLEAN
  /\ UNCHANGED <<wanted, running>>

Start(v) ==
  /\ running = Nothing
  /\ slot = v \/ (slot = Nothing /\ v \in Unchecked)
  /\ running' = v
  /\ UNCHANGED <<slot, intact, wanted>>

Stop == running' = Nothing /\ UNCHANGED <<slot, intact, wanted>>

SlotNext == Damage \/ Install \/ Stop \/ \E v \in Versions : Ask(v) \/ Start(v)

SlotSpec == SlotInit /\ [][SlotNext]_slotVars
=============================================================================
