----------------------------- MODULE DnloadPipe ----------------------------
(***************************************************************************)
(* What dfu.cpp relies on when it takes its input from usb.cpp: the data   *)
(* handler is called at most once for a DNLOAD request, before any other   *)
(* request is handled, and with exactly the bytes the host announced.      *)
(* Usb.tla implements it; the guard "awaiting" of Dfu.tla assumes it.      *)
(***************************************************************************)
CONSTANT Blocks, NoBlock

VARIABLES
  due,      \* the block the last request announced, or NoBlock
  given     \* the block of the last call of the data handler, or NoBlock

pipeVars == <<due, given>>

PipeInit == due = NoBlock /\ given = NoBlock

(* A request, or the end of the session: what was due will not come.       *)
Request == due' \in Blocks \cup {NoBlock} /\ given' = NoBlock

Deliver == due # NoBlock /\ given' = due /\ due' = NoBlock

PipeSpec == PipeInit /\ [][Request \/ Deliver]_pipeVars
=============================================================================
